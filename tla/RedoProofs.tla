----------------------------- MODULE RedoProofs -----------------------------
(***************************************************************************)
(* Write-ahead logging, durability and the possibility of recovery, for    *)
(* any number of clients, pages, records, groups and crashes: what a flush *)
(* of the log covers stays in the log file through every crash and         *)
(* recovery, and nothing that depends on the log gets ahead of it.  Then   *)
(* the completeness of recovery, in the histories in which it holds.       *)
(***************************************************************************)
EXTENDS Redo, FiniteSetTheorems, FunctionTheorems, SequenceTheorems,
        WellFoundedInduction, TLAPS

-----------------------------------------------------------------------------
(* The invariant.                                                          *)

LogRecords == [page: Pages, last: BOOLEAN, inc: 0 .. MaxCrashes]
Entries    == Nat \X Nat \X Pages
Images     == [lsn: Nat, recs: Seq(Entries)]
Copies     == [page: Pages \cup {NoPage}, image: Images]
Blocks     == [recs: Seq(Entries), newest: Nat, oldest: Nat,
               io: {"none", "fixed", "posted", "write"}]
Calls      == [lsn: Nat, flush: BOOLEAN, wait: BOOLEAN]

LogTypes ==
  /\ log \in Seq(LogRecords) /\ Len(log) < MaxLsn
  /\ logfile \in Seq(LogRecords \cup {EndMark})
  /\ logdisk \in Seq(LogRecords \cup {EndMark})
  /\ crashes \in 0 .. MaxCrashes
  /\ phase \in {"up", "down", "scan", "synchronize", "fatal"}
  /\ lapses \subseteq Lapses
  /\ phase = "fatal" => lapses \cap {"early_return", "misread"} # {}

LsnTypes ==
  /\ m_written_to_all_lsn \in Nat /\ m_flushed_to_disk_lsn \in Nat
  /\ m_write_lsn \in Nat /\ m_current_flush_lsn \in Nat /\ acked \in Nat
  /\ m_n_pending_writes \in {0, 1}

CheckpointTypes ==
  /\ m_next_checkpoint_no \in Nat /\ m_next_checkpoint_lsn \in Nat
  /\ m_last_checkpoint_lsn \in Nat
  /\ m_n_pending_checkpoint_writes \in {0, 1}
  /\ slots \in [{0, 1} -> [no: Int, lsn: Nat]]

PageTypes ==
  /\ pool \in [Pages -> Blocks]
  /\ m_bpages \in Seq(Pages) /\ Len(m_bpages) <= DblSize
  /\ file \in [Pages -> Images] /\ disk \in [Pages -> Images]
  /\ dbl \in [1 .. DblSize -> Copies] /\ dbldisk \in [1 .. DblSize -> Copies]

ThreadTypes ==
  /\ at \in [Threads -> {"idle", "ack", "post", "dbl_write", "dbl_sync", "wait",
                         "oldest", "write"}]
  /\ w \in [Threads -> {"none", "enter", "fsync", "complete", "joined", "asleep"}]
  /\ arg \in [Threads -> Calls]

Types == LogTypes /\ LsnTypes /\ CheckpointTypes /\ PageTypes /\ ThreadTypes

(* A file has the end of a group only behind all of the log before it. *)
Agrees(f) ==
  \A j \in DOMAIN f : f[j].last =>
    j <= Len(log) /\ \A k \in 1 .. j : f[k] = log[k]

LogsOK ==
  /\ log = <<>> \/ log[Len(log)].last
  /\ Agrees(logfile) /\ Agrees(logdisk)
  /\ \A j \in DOMAIN logdisk :
       logdisk[j].last => j \in DOMAIN logfile /\ logfile[j].last

(* The first n records are in complete groups in the log file, or on disk
   and in the file; the file goes on behind them. *)
OnFile(n) == \E j \in 0 .. Len(logfile) - 1 : /\ j >= n
                                              /\ j = 0 \/ logfile[j].last
Hard(n) == \E j \in 0 .. Len(logfile) - 1 : /\ j >= n /\ j < Len(logdisk)
                                            /\ j = 0 \/ logdisk[j].last

Waiting == {"ack", "post", "write"}

LsnsOK ==
  /\ OnFile(m_write_lsn - 1) /\ OnFile(m_current_flush_lsn - 1)
  /\ Hard(m_flushed_to_disk_lsn - 1) /\ Hard(acked)
  /\ (\A t \in Threads : w[t] # "fsync") => Hard(m_current_flush_lsn - 1)

WritersOK ==
  /\ \A t \in Threads : w[t] \in {"fsync", "complete"} =>
       /\ m_n_pending_writes = 1
       /\ \A u \in Threads : w[u] \in {"fsync", "complete"} => u = t
  /\ \A t \in Threads : w[t] = "fsync" => m_current_flush_lsn <= m_write_lsn

CallsOK ==
  /\ \A t \in Threads : w[t] = "joined" /\ arg[t].flush =>
       arg[t].lsn <= m_current_flush_lsn
  /\ \A t \in Threads : at[t] \in Waiting =>
       arg[t].flush /\ arg[t].wait /\ arg[t].lsn <= m_lsn
  /\ \A t \in Threads : at[t] \in Waiting /\ w[t] = "fsync" => arg[t].lsn <= m_write_lsn
  /\ \A t \in Threads : at[t] \in Waiting /\ w[t] \in {"none", "complete"} =>
       Hard(arg[t].lsn - 1)
  /\ \A t \in Threads : t # "background" /\ at[t] \notin Waiting => w[t] = "none"

CheckpointsOK ==
  /\ \A i \in {0, 1} : slots[i] = BadSlot \/
       /\ slots[i].no \in Nat /\ slots[i].no % 2 = i
       /\ slots[i].lsn >= 1 /\ Hard(slots[i].lsn - 1)
  /\ slots[0] # BadSlot \/ slots[1] # BadSlot
  /\ phase \in {"up", "synchronize"} =>
       slots[(m_next_checkpoint_no + 1) % 2] # BadSlot
  /\ phase = "synchronize" /\ m_n_pending_checkpoint_writes = 0 =>
       slots[m_next_checkpoint_no % 2] # BadSlot /\ m_next_checkpoint_no >= 1
  /\ m_n_pending_checkpoint_writes = 1 =>
       /\ phase \in {"up", "synchronize"}
       /\ m_next_checkpoint_lsn >= 1 /\ Hard(m_next_checkpoint_lsn - 1)
  /\ at["checkpointer"] = "write" => arg["checkpointer"].lsn >= 1

QuietOK ==
  phase # "up" =>
    /\ m_flushed_to_disk_lsn = 0 /\ m_write_lsn = 0 /\ m_current_flush_lsn = 0
    /\ m_n_pending_writes = 0
    /\ pool = [p \in Pages |-> Block(<<>>)] /\ m_bpages = <<>>
    /\ at = [t \in Threads |-> "idle"] /\ w = [t \in Threads |-> "none"]

Known(r) == r[1] \in DOMAIN log /\ r = <<r[1], log[r[1]].inc, log[r[1]].page>>

Flusher == at["flusher"]

BlocksOK ==
  /\ \A p \in Pages : \A k \in DOMAIN pool[p].recs : Known(pool[p].recs[k])
  /\ \A p \in Pages : pool[p].oldest # Clean =>
       /\ pool[p].newest >= 1 /\ pool[p].newest <= m_lsn /\ pool[p].oldest < m_lsn
       /\ \A k \in DOMAIN pool[p].recs : pool[p].recs[k][1] < pool[p].newest
  /\ \A p \in Pages : pool[p].newest <= m_lsn
  /\ \A p \in Pages : pool[p].io # "none" => pool[p].oldest # Clean

FlushOK ==
  /\ \A p \in Pages : pool[p].io = "fixed" =>
       /\ Flusher = "post" /\ arg["flusher"].lsn = pool[p].newest
       /\ \A q \in Pages : pool[q].io = "fixed" => q = p
  /\ \A p \in Pages : pool[p].io \in {"posted", "write"} => Hard(pool[p].newest - 1)
  /\ \A p \in Pages : pool[p].io = "posted" =>
       Flusher # "wait" /\ \E i \in DOMAIN m_bpages : m_bpages[i] = p
  /\ Flusher = "post" => Len(m_bpages) < DblSize
  /\ Flusher # "wait" => \A i \in DOMAIN m_bpages : pool[m_bpages[i]].io = "posted"
  /\ Flusher = "dbl_sync" => \A i \in DOMAIN m_bpages :
       dbl[i] = [page |-> m_bpages[i], image |-> FrameImage(m_bpages[i])]

ImageOK(image) ==
  /\ Hard(image.lsn - 1)
  /\ \A k \in DOMAIN image.recs : Known(image.recs[k]) /\ image.recs[k][1] < image.lsn

ImagesOK ==
  /\ \A p \in Pages : ImageOK(file[p]) /\ ImageOK(disk[p])
  /\ \A i \in 1 .. DblSize : ImageOK(dbl[i].image) /\ ImageOK(dbldisk[i].image)

(* A page that a power failure may leave torn, or that is torn, and what
   restores it. *)
Exposed(p) == \/ file[p] # disk[p] \/ pool[p].io = "write"
              \/ file[p] = Torn \/ disk[p] = Torn

GoodCopy(p) ==
  \E i \in 1 .. DblSize :
    /\ dbl[i].page = p
    /\ \A j \in 1 .. i : /\ dbl[j] = dbldisk[j]
                         /\ dbl[j].page = p => dbl[j].image # Torn

(* As long as no page write was left running when the doublewrite area was
   used again. *)
TornOK == "early_return" \notin lapses =>
  /\ \A p \in Pages : pool[p].io = "write" => Flusher = "wait"
  /\ \A p \in Pages : Exposed(p) => GoodCopy(p)
  /\ phase # "down" => \A p \in Pages : file[p] # Torn /\ disk[p] # Torn
  /\ phase # "down" /\ Flusher # "wait" => file = disk

RedoInv ==
  /\ Types /\ LogsOK /\ LsnsOK /\ WritersOK /\ CallsOK /\ CheckpointsOK
  /\ QuietOK /\ BlocksOK /\ FlushOK /\ ImagesOK /\ TornOK

-----------------------------------------------------------------------------
(* What makes recovery complete.                                           *)

LsnsOf(p)     == {i \in DOMAIN log : log[i].page = p}
LsnsBelow(p, n) == {i \in LsnsOf(p) : i < n}

(* Where a recovery may start. *)
Starts ==
  {slots[i].lsn : i \in Consistent}
  \cup {c \in {m_next_checkpoint_lsn} : m_n_pending_checkpoint_writes = 1}
  \cup {c \in {m_last_checkpoint_lsn} :
          phase = "synchronize" /\ m_n_pending_checkpoint_writes = 0}
  \cup {c \in {arg["checkpointer"].lsn} : at["checkpointer"] = "write"}

(* The image has the records of its page below its lsn, and recovery finds
   the others wherever it starts. *)
Fits(p, image) ==
  /\ image.recs = RecordsAt(log, LsnsBelow(p, image.lsn))
  /\ \A i \in LsnsOf(p), c \in Starts : i >= image.lsn => i >= c

FitCopy(p) ==
  \E i \in 1 .. DblSize :
    /\ dbl[i].page = p
    /\ \A j \in 1 .. i : /\ dbl[j] = dbldisk[j]
                         /\ dbl[j].page = p =>
                              /\ Fits(p, dbl[j].image)
                              /\ pool[p].io = "write" => dbl[j].image.lsn = pool[p].newest

(* The page in the pool has all its records, and the flush list has the page
   from the first record that the file lacks. *)
BlockMatches(p) ==
  /\ pool[p].recs = RecordsAt(log, LsnsOf(p))
  /\ pool[p].oldest # Clean => \A i \in LsnsOf(p) : i < pool[p].newest
  /\ \A i \in LsnsOf(p) : i >= file[p].lsn =>
       pool[p].oldest # Clean /\ i >= pool[p].oldest

FilesFit ==
  \A p \in Pages : /\ file[p] # Torn => Fits(p, file[p])
                   /\ disk[p] # Torn => Fits(p, disk[p])

CopiesFit == \A p \in Pages : Exposed(p) => FitCopy(p)

MatchOK ==
  lapses = {} =>
    /\ phase = "up" => \A p \in Pages : BlockMatches(p)
    /\ FilesFit /\ CopiesFit

-----------------------------------------------------------------------------
(* The log files.                                                          *)

\* What group_write_buf() leaves in the file.
LEMMA OverwriteSeq ==
  ASSUME NEW S, NEW old \in Seq(S), NEW new \in Seq(S), EndMark \in S
  PROVE  LET r == Overwrite(old, new) IN
         /\ r \in Seq(S)
         /\ Len(r) >= Len(new) + 1 /\ Len(r) >= Len(old)
         /\ \A i \in 1 .. Len(new) : r[i] = new[i]
         /\ \A i \in 1 .. Len(r) : i > Len(new) =>
              r[i] = EndMark \/ (i \in 1 .. Len(old) /\ r[i] = old[i])
<1> DEFINE tail == SubSeq(old, Len(new) + 2, Len(old))
           head == new \o <<EndMark>>
<1>1. /\ tail \in Seq(S)
      /\ Len(tail) = IF Len(new) + 2 <= Len(old) THEN Len(old) - (Len(new) + 2) + 1 ELSE 0
      /\ \A i \in 1 .. Len(old) - (Len(new) + 2) + 1 : tail[i] = old[Len(new) + 2 + i - 1]
  <2>1. \A i \in Len(new) + 2 .. Len(old) : old[i] \in S
    OBVIOUS
  <2> QED BY <2>1, SubSeqProperties
<1>2. <<EndMark>> \in Seq(S) /\ Len(<<EndMark>>) = 1 /\ <<EndMark>>[1] = EndMark
  OBVIOUS
<1>3. /\ head \in Seq(S) /\ Len(head) = Len(new) + 1
      /\ \A i \in 1 .. Len(new) + 1 : head[i] = IF i <= Len(new) THEN new[i] ELSE EndMark
  BY <1>2, ConcatProperties
<1> HIDE DEF tail, head
<1>4. /\ head \o tail \in Seq(S) /\ Len(head \o tail) = Len(head) + Len(tail)
      /\ \A i \in 1 .. Len(head) + Len(tail) : (head \o tail)[i] =
           IF i <= Len(head) THEN head[i] ELSE tail[i - Len(head)]
  BY <1>1, <1>3, ConcatProperties
<1>5. Overwrite(old, new) = head \o tail
  BY DEF Overwrite, head, tail
<1>6. Len(new) \in Nat /\ Len(old) \in Nat /\ Len(head) \in Nat /\ Len(tail) \in Nat
  BY <1>1, <1>3
<1>7. \A i \in 1 .. Len(new) : (head \o tail)[i] = new[i]
  BY <1>3, <1>4, <1>6
<1>8. ASSUME NEW i \in 1 .. Len(head) + Len(tail), i > Len(new)
      PROVE  (head \o tail)[i] = EndMark \/ (i \in 1 .. Len(old) /\ (head \o tail)[i] = old[i])
  <2>1. CASE i = Len(new) + 1 BY <2>1, <1>3, <1>4, <1>6
  <2>2. CASE i > Len(new) + 1
    <3>1. i - Len(head) \in 1 .. Len(tail) BY <1>3, <1>6, <1>8, <2>2
    <3>2. Len(tail) = Len(old) - (Len(new) + 2) + 1 BY <1>1, <1>6, <3>1
    <3>3. tail[i - Len(head)] = old[Len(new) + 2 + (i - Len(head)) - 1]
      BY <1>1, <3>1, <3>2
    <3>4. Len(new) + 2 + (i - Len(head)) - 1 = i BY <1>3, <1>6
    <3>5. (head \o tail)[i] = tail[i - Len(head)] BY <1>4, <1>3, <1>6, <2>2
    <3> QED BY <3>3, <3>4, <3>5, <1>3, <1>6, <1>8, <3>1, <3>2
  <2> QED BY <1>6, <1>8, <2>1, <2>2
<1>9. Len(head) + Len(tail) >= Len(new) + 1 /\ Len(head) + Len(tail) >= Len(old)
  <2>1. Len(head) = Len(new) + 1 BY <1>3
  <2>2. CASE Len(new) + 2 <= Len(old)
    <3>1. Len(tail) = Len(old) - (Len(new) + 2) + 1 BY <1>1, <2>2
    <3> QED BY <1>6, <2>1, <2>2, <3>1
  <2>3. CASE ~(Len(new) + 2 <= Len(old))
    <3>1. Len(tail) = 0 BY <1>1, <2>3
    <3> QED BY <1>6, <2>1, <2>3, <3>1
  <2> QED BY <2>2, <2>3
<1> QED BY <1>4, <1>5, <1>7, <1>8, <1>9

\* What a power failure leaves of the log file.
LEMMA MixSeq ==
  ASSUME NEW S, NEW a \in Seq(S), NEW b \in Seq(S), NEW n \in 0 .. Len(a)
  PROVE  LET r == SubSeq(a, 1, n) \o SubSeq(b, n + 1, Len(b)) IN
         /\ r \in Seq(S)
         /\ Len(r) = IF n < Len(b) THEN Len(b) ELSE n
         /\ \A i \in 1 .. Len(r) :
              \/ i \in 1 .. Len(a) /\ i <= n /\ r[i] = a[i]
              \/ i \in 1 .. Len(b) /\ i > n /\ r[i] = b[i]
<1> DEFINE x == SubSeq(a, 1, n)
           y == SubSeq(b, n + 1, Len(b))
<1>0. Len(a) \in Nat /\ Len(b) \in Nat /\ n \in Nat /\ n <= Len(a) OBVIOUS
<1>1. x \in Seq(S) /\ Len(x) = n /\ \A i \in 1 .. n : x[i] = a[i]
  <2>1. \A i \in 1 .. n : a[i] \in S BY <1>0
  <2>2. /\ x \in Seq(S) /\ Len(x) = IF 1 <= n THEN n - 1 + 1 ELSE 0
        /\ \A i \in 1 .. n - 1 + 1 : x[i] = a[1 + i - 1]
    BY <1>0, <2>1, SubSeqProperties
  <2> QED BY <1>0, <2>2
<1>2. /\ y \in Seq(S) /\ Len(y) = IF n < Len(b) THEN Len(b) - n ELSE 0
      /\ \A i \in 1 .. Len(b) - n : y[i] = b[n + i]
  <2>1. \A i \in n + 1 .. Len(b) : b[i] \in S BY <1>0
  <2>2. /\ y \in Seq(S) /\ Len(y) = IF n + 1 <= Len(b) THEN Len(b) - (n + 1) + 1 ELSE 0
        /\ \A i \in 1 .. Len(b) - (n + 1) + 1 : y[i] = b[(n + 1) + i - 1]
    BY <1>0, <2>1, SubSeqProperties
  <2> QED BY <1>0, <2>2
<1> HIDE DEF x, y
<1>3. /\ x \o y \in Seq(S) /\ Len(x \o y) = Len(x) + Len(y)
      /\ \A i \in 1 .. Len(x) + Len(y) : (x \o y)[i] = IF i <= Len(x) THEN x[i] ELSE y[i - Len(x)]
  BY <1>1, <1>2, ConcatProperties
<1>4. Len(x \o y) = IF n < Len(b) THEN Len(b) ELSE n BY <1>0, <1>1, <1>2, <1>3
<1>5. ASSUME NEW i \in 1 .. Len(x \o y)
      PROVE  \/ i \in 1 .. Len(a) /\ i <= n /\ (x \o y)[i] = a[i]
             \/ i \in 1 .. Len(b) /\ i > n /\ (x \o y)[i] = b[i]
  <2>1. CASE i <= n BY <1>0, <1>1, <1>3, <1>4, <2>1
  <2>2. CASE i > n
    <3>1. i \in 1 .. Len(b) /\ i - n \in 1 .. Len(b) - n BY <1>0, <1>4, <2>2
    <3>2. y[i - n] = b[n + (i - n)] BY <1>2, <3>1
    <3>3. n + (i - n) = i BY <1>0
    <3>4. (x \o y)[i] = y[i - n] BY <1>0, <1>1, <1>3, <2>2, <1>4
    <3> QED BY <2>2, <3>1, <3>2, <3>3, <3>4
  <2> QED BY <1>0, <2>1, <2>2
<1> QED BY <1>3, <1>4, <1>5 DEF x, y

HardKept   == \A n \in Int : Hard(n) => Hard(n)'
OnFileKept == \A n \in Int : OnFile(n) => OnFile(n)'
KnownKept  == \A r : Known(r) => Known(r)'
ImageKept  == \A image \in Images : ImageOK(image) => ImageOK(image)'

\* Where a hard lsn is: in the log, the file and on disk the same.
LEMMA HardMeaning ==
  ASSUME LogTypes, LogsOK, NEW n \in Int, Hard(n)
  PROVE  \E j \in Nat :
           /\ j >= n /\ j < Len(logfile) /\ j < Len(logdisk) /\ j <= Len(log)
           /\ j = 0 \/ (logdisk[j].last /\ logfile[j].last /\ log[j].last)
           /\ \A k \in 1 .. j : logfile[k] = log[k] /\ logdisk[k] = log[k]
<1>0. Len(logfile) \in Nat /\ Len(logdisk) \in Nat /\ Len(log) \in Nat
      /\ DOMAIN logfile = 1 .. Len(logfile) /\ DOMAIN logdisk = 1 .. Len(logdisk)
  BY LenProperties DEF LogTypes
<1>1. PICK j \in 0 .. Len(logfile) - 1 : /\ j >= n /\ j < Len(logdisk)
                                         /\ j = 0 \/ logdisk[j].last
  BY DEF Hard
<1>2. CASE j = 0 BY <1>0, <1>1, <1>2
<1>3. CASE j # 0
  <2>1. j \in DOMAIN logdisk /\ j \in DOMAIN logfile BY <1>0, <1>1, <1>3
  <2>2. logdisk[j].last /\ logfile[j].last BY <1>1, <1>3, <2>1 DEF LogsOK
  <2>3. j <= Len(log) /\ \A k \in 1 .. j : logdisk[k] = log[k] BY <2>1, <2>2 DEF LogsOK, Agrees
  <2>4. \A k \in 1 .. j : logfile[k] = log[k] BY <2>1, <2>2 DEF LogsOK, Agrees
  <2>5. j \in Nat /\ j < Len(logfile) /\ j \in 1 .. j BY <1>0, <1>1, <1>3
  <2>6. log[j].last BY <2>2, <2>3, <2>5
  <2> QED BY <1>1, <2>2, <2>3, <2>4, <2>5, <2>6
<1> QED BY <1>2, <1>3

\* What is hard is in the log, and every lower lsn is hard too.
LEMMA HardBelow ==
  ASSUME LogTypes, LogsOK, NEW n \in Int, Hard(n)
  PROVE  n <= Len(log) /\ n < Len(logfile) /\ \A m \in Int : m <= n => Hard(m)
<1>0. Len(log) \in Nat /\ Len(logfile) \in Nat BY LenProperties DEF LogTypes
<1>1. n <= Len(log) /\ n < Len(logfile) BY <1>0, HardMeaning
<1>2. ASSUME NEW m \in Int, m <= n PROVE Hard(m)
  <2>1. PICK j \in 0 .. Len(logfile) - 1 : /\ j >= n /\ j < Len(logdisk)
                                           /\ j = 0 \/ logdisk[j].last
    BY DEF Hard
  <2>2. j >= m BY <1>0, <1>2, <2>1
  <2> QED BY <2>1, <2>2 DEF Hard
<1> QED BY <1>1, <1>2

\* The same for the file.
LEMMA OnFileBelow ==
  ASSUME LogTypes, LogsOK, NEW n \in Int, OnFile(n)
  PROVE  n <= Len(log)
<1>0. Len(log) \in Nat /\ Len(logfile) \in Nat /\ DOMAIN logfile = 1 .. Len(logfile)
  BY LenProperties DEF LogTypes
<1>1. PICK j \in 0 .. Len(logfile) - 1 : j >= n /\ (j = 0 \/ logfile[j].last)
  BY DEF OnFile
<1>2. j = 0 \/ j \in DOMAIN logfile BY <1>0
<1>3. j <= Len(log) BY <1>0, <1>1, <1>2 DEF LogsOK, Agrees
<1> QED BY <1>0, <1>1, <1>3

\* Images stay good when the log only grows.
LEMMA ImagesStay ==
  ASSUME HardKept, KnownKept
  PROVE  ImageKept
<1> SUFFICES ASSUME NEW image \in Images, ImageOK(image) PROVE ImageOK(image)'
  BY DEF ImageKept
<1>1. image.lsn - 1 \in Int BY DEF Images
<1> QED BY <1>1 DEF HardKept, KnownKept, ImageOK

\* Steps that leave the log and its file alone.
LEMMA LogsSame ==
  ASSUME LogsOK, UNCHANGED <<log, logfile, logdisk>>
  PROVE  LogsOK' /\ HardKept /\ OnFileKept /\ KnownKept
<1>1. LogsOK' BY DEF LogsOK, Agrees
<1>2. HardKept BY DEF HardKept, Hard
<1>3. OnFileKept BY DEF OnFileKept, OnFile
<1>4. KnownKept BY DEF KnownKept, Known
<1> QED BY <1>1, <1>2, <1>3, <1>4

\* fsync of the log file.
LEMMA LogsSynced ==
  ASSUME LogTypes, LogsOK, logdisk' = logfile, UNCHANGED <<log, logfile>>
  PROVE  /\ LogsOK' /\ HardKept /\ OnFileKept /\ KnownKept
         /\ \A n \in Int : OnFile(n) => Hard(n)'
<1>1. LogsOK' BY DEF LogsOK, Agrees
<1>2. HardKept
  <2> SUFFICES ASSUME NEW n \in Int, Hard(n) PROVE Hard(n)' BY DEF HardKept
  <2>1. PICK j \in Nat : /\ j >= n /\ j < Len(logfile)
                         /\ j = 0 \/ logfile[j].last
    BY HardMeaning
  <2>2. j \in 0 .. Len(logfile) - 1 BY <2>1, LenProperties DEF LogTypes
  <2> QED BY <2>1, <2>2 DEF Hard
<1>3. OnFileKept BY DEF OnFileKept, OnFile
<1>4. KnownKept BY DEF KnownKept, Known
<1>5. ASSUME NEW n \in Int, OnFile(n) PROVE Hard(n)'
  <2>1. PICK j \in 0 .. Len(logfile) - 1 : j >= n /\ (j = 0 \/ logfile[j].last)
    BY <1>5 DEF OnFile
  <2>2. j < Len(logfile) BY LenProperties DEF LogTypes
  <2> QED BY <2>1, <2>2 DEF Hard
<1> QED BY <1>1, <1>2, <1>3, <1>4, <1>5

\* The records of a mini-transaction.
LEMMA GroupSeq ==
  ASSUME LogTypes, NEW ps \in PageLists
  PROVE  /\ ps \in Seq(Pages) /\ Len(ps) \in Nat /\ Len(ps) >= 1 /\ DOMAIN ps = 1 .. Len(ps)
         /\ Group(ps) \in Seq(LogRecords) /\ Len(Group(ps)) = Len(ps)
         /\ DOMAIN Group(ps) = 1 .. Len(ps)
         /\ \A i \in 1 .. Len(ps) :
              /\ Group(ps)[i].page = ps[i] /\ Group(ps)[i].inc = crashes
              /\ Group(ps)[i].last <=> i = Len(ps)
<1>1. PICK n \in 1 .. MtrLen : ps \in [1 .. n -> Pages] BY DEF PageLists
<1>2. n \in Nat /\ n >= 1 BY BoundsAssumption
<1>3. ps \in Seq(Pages) /\ Len(ps) = n BY <1>1, <1>2
<1>4. DOMAIN ps = 1 .. n BY <1>1
<1>5. Group(ps) = [i \in 1 .. n |-> [page |-> ps[i], last |-> i = n, inc |-> crashes]]
  BY <1>3, <1>4 DEF Group
<1>6. Group(ps) \in [1 .. n -> LogRecords] BY <1>1, <1>5 DEF LogTypes, LogRecords
<1>7. Group(ps) \in Seq(LogRecords) /\ Len(Group(ps)) = n BY <1>2, <1>6
<1>8. DOMAIN Group(ps) = 1 .. n BY <1>6
<1>9. ASSUME NEW i \in 1 .. n
      PROVE  Group(ps)[i].page = ps[i] /\ Group(ps)[i].inc = crashes /\ (Group(ps)[i].last <=> i = n)
  <2>1. Group(ps)[i] = [page |-> ps[i], last |-> i = n, inc |-> crashes] BY <1>5
  <2>2. Group(ps)[i].page = ps[i] /\ Group(ps)[i].inc = crashes BY <2>1
  <2>3. Group(ps)[i].last = (i = n) BY <2>1
  <2> QED BY <2>2, <2>3
<1> QED BY <1>2, <1>3, <1>4, <1>7, <1>8, <1>9

\* write_low(): a group is added to the log buffer.
LEMMA LogExtended ==
  ASSUME LogTypes, LogsOK, NEW s \in Seq(LogRecords), Len(s) >= 1, s[Len(s)].last,
         log' = log \o s, UNCHANGED <<logfile, logdisk>>
  PROVE  /\ LogsOK' /\ HardKept /\ OnFileKept /\ KnownKept
         /\ log' \in Seq(LogRecords) /\ Len(log') = Len(log) + Len(s)
         /\ \A i \in 1 .. Len(log) : log'[i] = log[i]
         /\ \A i \in 1 .. Len(s) : log'[Len(log) + i] = s[i]
<1>0. log \in Seq(LogRecords) /\ Len(log) \in Nat /\ Len(s) \in Nat BY LenProperties DEF LogTypes
<1>1. /\ log' \in Seq(LogRecords) /\ Len(log') = Len(log) + Len(s)
      /\ \A i \in 1 .. Len(log) + Len(s) : log'[i] = IF i <= Len(log) THEN log[i] ELSE s[i - Len(log)]
  BY <1>0, ConcatProperties
<1>2. \A i \in 1 .. Len(log) : log'[i] = log[i] BY <1>0, <1>1
<1>3. ASSUME NEW i \in 1 .. Len(s) PROVE log'[Len(log) + i] = s[i]
  <2>1. Len(log) + i \in 1 .. Len(log) + Len(s) /\ ~(Len(log) + i <= Len(log))
        /\ (Len(log) + i) - Len(log) = i
    BY <1>0
  <2> QED BY <1>1, <2>1
<1>4. log'[Len(log')].last BY <1>0, <1>1, <1>3
<1>5. ASSUME NEW f \in Seq(LogRecords \cup {EndMark}), Agrees(f), NEW j \in DOMAIN f, f[j].last
      PROVE  j <= Len(log') /\ \A k \in 1 .. j : f[k] = log'[k]
  <2>1. j <= Len(log) /\ \A k \in 1 .. j : f[k] = log[k] BY <1>5 DEF Agrees
  <2>2. j \in Nat BY <1>5
  <2> QED BY <1>0, <1>1, <1>2, <2>1, <2>2
<1>6. LogsOK'
  BY <1>4, <1>5 DEF LogsOK, Agrees, LogTypes
<1>7. HardKept BY DEF HardKept, Hard
<1>8. OnFileKept BY DEF OnFileKept, OnFile
<1>9. KnownKept
  <2> SUFFICES ASSUME NEW r, Known(r) PROVE Known(r)' BY DEF KnownKept
  <2>1. r[1] \in DOMAIN log' /\ log'[r[1]] = log[r[1]]
    BY <1>0, <1>1, <1>2, LenProperties DEF Known
  <2> QED BY <2>1 DEF Known
<1> QED BY <1>1, <1>2, <1>3, <1>6, <1>7, <1>8, <1>9

\* group_write_buf(): the log is written to its file.
LEMMA LogWritten ==
  ASSUME LogTypes, LogsOK, logfile' = Overwrite(logfile, log), UNCHANGED <<log, logdisk>>
  PROVE  /\ logfile' \in Seq(LogRecords \cup {EndMark})
         /\ LogsOK' /\ HardKept /\ OnFileKept /\ KnownKept /\ OnFile(Len(log))'
<1> DEFINE S == LogRecords \cup {EndMark}
<1>0. /\ Len(log) \in Nat /\ Len(logfile) \in Nat /\ Len(logdisk) \in Nat
      /\ DOMAIN logfile = 1 .. Len(logfile) /\ DOMAIN logdisk = 1 .. Len(logdisk)
  BY LenProperties DEF LogTypes
<1>1. log \in Seq(S) /\ logfile \in Seq(S) /\ EndMark \in S BY SeqMonotonic DEF LogTypes
<1>2. /\ logfile' \in Seq(S)
      /\ Len(logfile') >= Len(log) + 1 /\ Len(logfile') >= Len(logfile)
      /\ \A i \in 1 .. Len(log) : logfile'[i] = log[i]
      /\ \A i \in 1 .. Len(logfile') : i > Len(log) =>
           logfile'[i] = EndMark \/ (i \in 1 .. Len(logfile) /\ logfile'[i] = logfile[i])
  BY <1>1, OverwriteSeq
<1>3. Len(logfile') \in Nat /\ DOMAIN logfile' = 1 .. Len(logfile') BY <1>2, LenProperties
<1>4. ASSUME NEW j \in DOMAIN logfile', logfile'[j].last
      PROVE  j <= Len(log) /\ \A k \in 1 .. j : logfile'[k] = log[k]
  <2>1. j <= Len(log)
    <3> SUFFICES ASSUME j > Len(log) PROVE FALSE BY <1>0, <1>3
    <3>1. j \in 1 .. Len(logfile) /\ logfile[j].last BY <1>2, <1>3, <1>4 DEF EndMark
    <3>2. j <= Len(log) BY <1>0, <3>1 DEF LogsOK, Agrees
    <3> QED BY <1>0, <3>1, <3>2
  <2> QED BY <1>0, <1>2, <1>3, <2>1
<1>5. ASSUME NEW j \in DOMAIN logdisk, logdisk[j].last
      PROVE  j \in DOMAIN logfile' /\ logfile'[j].last
  <2>1. j <= Len(log) /\ \A k \in 1 .. j : logdisk[k] = log[k] BY <1>5 DEF LogsOK, Agrees
  <2>2. j \in 1 .. Len(log) /\ logdisk[j] = log[j] BY <1>0, <2>1
  <2> QED BY <1>0, <1>2, <1>3, <1>5, <2>2
<1>6. LogsOK'
  <2>1. Agrees(logfile)' BY <1>4 DEF Agrees
  <2>2. Agrees(logdisk)' BY DEF LogsOK, Agrees
  <2>3. (log = <<>> \/ log[Len(log)].last)' BY DEF LogsOK
  <2> QED BY <1>5, <2>1, <2>2, <2>3 DEF LogsOK
<1>7. HardKept
  <2> SUFFICES ASSUME NEW n \in Int, Hard(n) PROVE Hard(n)' BY DEF HardKept
  <2>1. PICK j \in 0 .. Len(logfile) - 1 : j >= n /\ j < Len(logdisk) /\ (j = 0 \/ logdisk[j].last)
    BY DEF Hard
  <2>2. j \in 0 .. Len(logfile') - 1 BY <1>0, <1>2, <1>3
  <2> QED BY <2>1, <2>2 DEF Hard
<1>8. OnFileKept
  <2> SUFFICES ASSUME NEW n \in Int, OnFile(n) PROVE OnFile(n)' BY DEF OnFileKept
  <2>1. PICK j \in 0 .. Len(logfile) - 1 : j >= n /\ (j = 0 \/ logfile[j].last) BY DEF OnFile
  <2>2. j \in 0 .. Len(logfile') - 1 BY <1>0, <1>2, <1>3
  <2>3. CASE j = 0 BY <2>1, <2>2, <2>3 DEF OnFile
  <2>4. CASE j # 0
    <3>1. j \in DOMAIN logfile /\ logfile[j].last BY <1>0, <2>1, <2>4
    <3>2. j <= Len(log) /\ \A k \in 1 .. j : logfile[k] = log[k] BY <3>1 DEF LogsOK, Agrees
    <3>3. j \in 1 .. Len(log) /\ logfile[j] = log[j] BY <1>0, <3>1, <3>2
    <3>4. logfile'[j].last BY <1>2, <3>1, <3>3
    <3> QED BY <2>1, <2>2, <3>4 DEF OnFile
  <2> QED BY <2>3, <2>4
<1>9. KnownKept BY DEF KnownKept, Known
<1>10. OnFile(Len(log))'
  <2>1. Len(log) \in 0 .. Len(logfile') - 1 BY <1>0, <1>2, <1>3
  <2>2. CASE log = <<>>
    <3>1. Len(log) = 0 BY <2>2
    <3> QED BY <2>1, <3>1 DEF OnFile
  <2>3. CASE log # <<>>
    <3>1. log[Len(log)].last /\ Len(log) \in 1 .. Len(log)
      BY <1>0, <2>3, EmptySeq DEF LogsOK, LogTypes
    <3>2. logfile'[Len(log)].last BY <1>2, <3>1
    <3> QED BY <1>0, <2>1, <3>2 DEF OnFile
  <2> QED BY <2>2, <2>3
<1> QED BY <1>2, <1>6, <1>7, <1>8, <1>9, <1>10

\* A power failure leaves what was hard, and ends of groups only where the log has them.
LEMMA LogMixed ==
  ASSUME LogTypes, LogsOK, NEW n \in 0 .. Len(logfile),
         logfile' \in Seq(LogRecords \cup {EndMark}),
         Len(logfile') = IF n < Len(logdisk) THEN Len(logdisk) ELSE n,
         \A i \in 1 .. Len(logfile') :
           \/ i \in 1 .. Len(logfile) /\ i <= n /\ logfile'[i] = logfile[i]
           \/ i \in 1 .. Len(logdisk) /\ i > n /\ logfile'[i] = logdisk[i],
         logdisk' = logfile', UNCHANGED log
  PROVE  LogsOK' /\ HardKept /\ KnownKept
<1> DEFINE S == LogRecords \cup {EndMark}
<1>0. /\ Len(log) \in Nat /\ Len(logfile) \in Nat /\ Len(logdisk) \in Nat
      /\ DOMAIN logfile = 1 .. Len(logfile) /\ DOMAIN logdisk = 1 .. Len(logdisk)
      /\ logfile \in Seq(S) /\ logdisk \in Seq(S)
  BY LenProperties DEF LogTypes
<1>1. /\ logfile' \in Seq(S)
      /\ Len(logfile') = IF n < Len(logdisk) THEN Len(logdisk) ELSE n
      /\ \A i \in 1 .. Len(logfile') :
           \/ i \in 1 .. Len(logfile) /\ i <= n /\ logfile'[i] = logfile[i]
           \/ i \in 1 .. Len(logdisk) /\ i > n /\ logfile'[i] = logdisk[i]
  OBVIOUS
<1>2. Len(logfile') \in Nat /\ DOMAIN logfile' = 1 .. Len(logfile') BY <1>1, LenProperties
<1>3. ASSUME NEW j \in DOMAIN logfile', logfile'[j].last
      PROVE  j <= Len(log) /\ \A k \in 1 .. j : logfile'[k] = log[k]
  <2>1. CASE j \in 1 .. Len(logfile) /\ j <= n /\ logfile'[j] = logfile[j]
    <3>1. j <= Len(log) /\ \A k \in 1 .. j : logfile[k] = log[k]
      BY <1>0, <1>3, <2>1 DEF LogsOK, Agrees
    <3>2. ASSUME NEW k \in 1 .. j PROVE logfile'[k] = log[k]
      <4>1. k \in 1 .. Len(logfile') /\ k <= n BY <1>2, <2>1
      <4>2. logfile'[k] = logfile[k] BY <1>1, <4>1
      <4> QED BY <3>1, <4>2
    <3> QED BY <3>1, <3>2
  <2>2. CASE j \in 1 .. Len(logdisk) /\ j > n /\ logfile'[j] = logdisk[j]
    <3>1. j <= Len(log) /\ \A k \in 1 .. j : logdisk[k] = log[k]
      BY <1>0, <1>3, <2>2 DEF LogsOK, Agrees
    <3>2. j \in DOMAIN logfile /\ logfile[j].last BY <1>0, <1>3, <2>2 DEF LogsOK
    <3>3. \A k \in 1 .. j : logfile[k] = log[k] BY <3>2 DEF LogsOK, Agrees
    <3>4. ASSUME NEW k \in 1 .. j PROVE logfile'[k] = log[k]
      <4>1. k \in 1 .. Len(logfile') BY <1>2
      <4>2. logfile'[k] = logfile[k] \/ logfile'[k] = logdisk[k] BY <1>1, <4>1
      <4> QED BY <3>1, <3>3, <4>2
    <3> QED BY <3>1, <3>4
  <2> QED BY <1>1, <1>2, <2>1, <2>2
<1>4. LogsOK'
  <2>1. Agrees(logfile)' BY <1>3 DEF Agrees
  <2>2. Agrees(logdisk)' BY <1>3 DEF Agrees
  <2>3. (log = <<>> \/ log[Len(log)].last)' BY DEF LogsOK
  <2> QED BY <2>1, <2>2, <2>3 DEF LogsOK
<1>5. HardKept
  <2> SUFFICES ASSUME NEW m \in Int, Hard(m) PROVE Hard(m)' BY DEF HardKept
  <2>1. PICK j \in Nat : /\ j >= m /\ j < Len(logfile) /\ j < Len(logdisk)
                         /\ j = 0 \/ (logdisk[j].last /\ logfile[j].last)
    BY HardMeaning
  <2>2. j \in 0 .. Len(logfile') - 1 /\ j < Len(logfile')
    <3>1. CASE n < Len(logdisk) BY <1>0, <1>1, <2>1, <3>1
    <3>2. CASE ~(n < Len(logdisk))
      <4>1. Len(logfile') = n /\ n >= Len(logdisk) BY <1>0, <1>1, <3>2
      <4> QED BY <1>0, <2>1, <4>1
    <3> QED BY <3>1, <3>2
  <2>3. j = 0 \/ logdisk'[j].last
    <3>1. CASE j = 0 BY <3>1
    <3>2. CASE j # 0
      <4>1. j \in 1 .. Len(logfile') BY <1>2, <2>1, <2>2, <3>2
      <4>2. logfile'[j] = logfile[j] \/ logfile'[j] = logdisk[j] BY <1>1, <4>1
      <4> QED BY <2>1, <3>2, <4>2
    <3> QED BY <3>1, <3>2
  <2> QED BY <2>1, <2>2, <2>3 DEF Hard
<1>6. KnownKept BY DEF KnownKept, Known
<1> QED BY <1>1, <1>4, <1>5, <1>6

\* A set of naturals that is not empty has a least member.
LEMMA LeastExists ==
  ASSUME NEW S \in SUBSET Nat, S # {}
  PROVE  \E n \in S : \A m \in S : n <= m
<1>1. PICK n \in S : \A m \in S : ~(<<m, n>> \in OpToRel(<, Nat))
  BY NatLessThanWellFounded, WFMin
<1>2. \A m \in S : ~(m < n) BY <1>1 DEF OpToRel
<1>3. \A m \in S : n \in Nat /\ m \in Nat OBVIOUS
<1> QED BY <1>2, <1>3

\* A bounded one has a greatest.
LEMMA GreatestExists ==
  ASSUME NEW N \in Nat, NEW S \in SUBSET (0 .. N), S # {}
  PROVE  \E n \in S : \A m \in S : n >= m
<1> DEFINE T == {N - x : x \in S}
<1>1. T \in SUBSET Nat /\ T # {}
  <2>1. \A x \in S : N - x \in Nat OBVIOUS
  <2> QED BY <2>1
<1> HIDE DEF T
<1>2. PICK y \in T : \A z \in T : y <= z BY <1>1, LeastExists
<1>3. PICK n \in S : y = N - n BY <1>2 DEF T
<1>4. \A m \in S : N - m \in T /\ m \in Nat BY DEF T
<1>5. \A m \in S : N - n <= N - m BY <1>2, <1>3, <1>4
<1>6. n \in Nat OBVIOUS
<1> QED BY <1>4, <1>5, <1>6

\* recv_scan_log_recs() goes up to the first block that is not full.
LEMMA ScannedMeaning ==
  ASSUME LogTypes, NEW from \in 1 .. Len(logfile)
  PROVE  /\ Scanned(from) \in Nat /\ Scanned(from) >= from - 1 /\ Scanned(from) <= Len(logfile)
         /\ \A j \in from .. Len(logfile) :
              (\A i \in from .. j : logfile[i] # EndMark) => j <= Scanned(from)
<1>0. Len(logfile) \in Nat BY LenProperties DEF LogTypes
<1> DEFINE stops == {i \in from .. Len(logfile) + 1 : i > Len(logfile) \/ logfile[i] = EndMark}
           least == CHOOSE i \in stops : \A j \in stops : i <= j
<1>1. stops \in SUBSET Nat BY <1>0
<1>2. Len(logfile) + 1 \in stops BY <1>0
<1>3. least \in stops /\ \A j \in stops : least <= j BY <1>1, <1>2, LeastExists
<1>4. Scanned(from) = least - 1 BY DEF Scanned
<1>5. least \in from .. Len(logfile) + 1 /\ least \in Nat
      /\ (least > Len(logfile) \/ logfile[least] = EndMark) BY <1>0, <1>3
<1> HIDE DEF least, stops
<1>6. ASSUME NEW j \in from .. Len(logfile), \A i \in from .. j : logfile[i] # EndMark
      PROVE  j <= least - 1
  <2> SUFFICES ASSUME j >= least PROVE FALSE BY <1>0, <1>5
  <2>1. least \in from .. j /\ ~(least > Len(logfile)) BY <1>0, <1>5
  <2> QED BY <1>5, <1>6, <2>1
<1> QED BY <1>0, <1>4, <1>5, <1>6

\* A record of the log is not an end mark.
LEMMA NotEndMark ==
  ASSUME LogTypes, NEW i \in 1 .. Len(log)
  PROVE  log[i] # EndMark /\ log[i] \in LogRecords
<1>1. log[i] \in LogRecords BY ElementOfSeq DEF LogTypes
<1>2. log[i].page \in Pages BY <1>1 DEF LogRecords
<1>3. EndMark.page \notin Pages BY PagesAssumption DEF EndMark
<1> QED BY <1>1, <1>2, <1>3

\* Recovery finds the complete groups that are in the file, and they are the log's.
LEMMA RecoveredMeaning ==
  ASSUME LogTypes, LogsOK, NEW from \in Nat, from >= 1, Hard(from - 1)
  PROVE  \E R \in Nat :
           /\ RecoveredLsn(from) = R + 1 /\ R <= Len(log) /\ R <= Len(logfile)
           /\ R = 0 \/ logfile[R].last
           /\ \A j \in DOMAIN logfile : logfile[j].last => j <= R
           /\ \A k \in 1 .. R : logfile[k] = log[k]
<1>0. /\ Len(log) \in Nat /\ Len(logfile) \in Nat /\ DOMAIN logfile = 1 .. Len(logfile)
      /\ from - 1 \in Int
  BY LenProperties DEF LogTypes
<1>1. PICK h \in Nat : /\ h >= from - 1 /\ h < Len(logfile) /\ h <= Len(log)
                       /\ h = 0 \/ logfile[h].last
                       /\ \A k \in 1 .. h : logfile[k] = log[k]
  BY <1>0, HardMeaning
<1>2. from \in 1 .. Len(logfile) BY <1>0, <1>1
<1> DEFINE sc == Scanned(from)
<1>3. /\ sc \in Nat /\ sc >= from - 1 /\ sc <= Len(logfile)
      /\ \A j \in from .. Len(logfile) : (\A i \in from .. j : logfile[i] # EndMark) => j <= sc
  BY <1>2, ScannedMeaning
<1> HIDE DEF sc
<1> DEFINE ends == {i \in from .. sc : logfile[i].last}
<1>4. ASSUME NEW j \in DOMAIN logfile, logfile[j].last, j >= from
      PROVE  j \in ends
  <2>1. j <= Len(log) /\ \A k \in 1 .. j : logfile[k] = log[k] BY <1>4 DEF LogsOK, Agrees
  <2>2. \A i \in from .. j : logfile[i] # EndMark
    <3> SUFFICES ASSUME NEW i \in from .. j PROVE logfile[i] # EndMark OBVIOUS
    <3>1. i \in 1 .. j /\ i \in 1 .. Len(log) BY <1>0, <1>4, <2>1
    <3> QED BY <2>1, <3>1, NotEndMark
  <2>3. j \in from .. Len(logfile) BY <1>0, <1>4
  <2>4. j <= sc BY <1>3, <2>2, <2>3
  <2> QED BY <1>0, <1>3, <1>4, <2>3, <2>4
<1>5. RecoveredLsn(from) = IF ends = {} THEN from
                           ELSE 1 + CHOOSE i \in ends : \A j \in ends : i >= j
  BY DEF RecoveredLsn, sc
<1>6. CASE ends = {}
  <2>1. h = from - 1
    <3> SUFFICES ASSUME h >= from PROVE FALSE BY <1>0, <1>1
    <3>1. h \in DOMAIN logfile /\ logfile[h].last BY <1>0, <1>1
    <3> QED BY <1>4, <1>6, <3>1
  <2>2. \A j \in DOMAIN logfile : logfile[j].last => j <= h BY <1>0, <1>4, <1>6, <2>1
  <2>3. RecoveredLsn(from) = h + 1 BY <1>0, <1>5, <1>6, <2>1
  <2> QED BY <1>0, <1>1, <2>2, <2>3
<1>7. CASE ends # {}
  <2>1. ends \in SUBSET (0 .. sc) BY <1>3
  <2> DEFINE e == CHOOSE i \in ends : \A j \in ends : i >= j
  <2>2. e \in ends /\ \A j \in ends : e >= j BY <1>3, <1>7, <2>1, GreatestExists
  <2> HIDE DEF e
  <2>3. e \in from .. sc /\ logfile[e].last BY <2>2
  <2>4. e \in Nat /\ e >= 1 /\ e <= Len(logfile) /\ e \in DOMAIN logfile BY <1>0, <1>3, <2>3
  <2>5. e <= Len(log) /\ \A k \in 1 .. e : logfile[k] = log[k] BY <2>3, <2>4 DEF LogsOK, Agrees
  <2>6. \A j \in DOMAIN logfile : logfile[j].last => j <= e
    BY <1>0, <1>4, <2>2, <2>3, <2>4
  <2>7. RecoveredLsn(from) = e + 1 BY <1>5, <1>7, <2>4 DEF e
  <2> QED BY <2>3, <2>4, <2>5, <2>6, <2>7
<1> QED BY <1>6, <1>7

\* After the scan the log is the complete groups of the file.
LEMMA LogScanned ==
  ASSUME LogTypes, LogsOK, NEW from \in Nat, from >= 1, Hard(from - 1),
         log' = SubSeq(logfile, 1, RecoveredLsn(from) - 1),
         UNCHANGED <<logfile, logdisk>>
  PROVE  /\ log' \in Seq(LogRecords) /\ Len(log') <= Len(log)
         /\ log' = SubSeq(log, 1, Len(log'))
         /\ \A i \in 1 .. Len(log') : log'[i] = log[i]
         /\ \A n \in Int : Hard(n) => n <= Len(log')
         /\ LogsOK' /\ HardKept /\ OnFileKept /\ ImageKept
<1>0. /\ Len(log) \in Nat /\ Len(logfile) \in Nat /\ DOMAIN logfile = 1 .. Len(logfile)
      /\ Len(logdisk) \in Nat /\ DOMAIN logdisk = 1 .. Len(logdisk) /\ DOMAIN log = 1 .. Len(log)
  BY LenProperties DEF LogTypes
<1>1. PICK R \in Nat :
           /\ RecoveredLsn(from) = R + 1 /\ R <= Len(log) /\ R <= Len(logfile)
           /\ R = 0 \/ logfile[R].last
           /\ \A j \in DOMAIN logfile : logfile[j].last => j <= R
           /\ \A k \in 1 .. R : logfile[k] = log[k]
  BY RecoveredMeaning
<1>2. \A i \in 1 .. R : logfile[i] \in LogRecords /\ log[i] \in LogRecords
  BY <1>0, <1>1, NotEndMark
<1>3. log' = SubSeq(logfile, 1, R)
  <2>1. (R + 1) - 1 = R OBVIOUS
  <2> QED BY <1>1, <2>1
<1>4. /\ log' \in Seq(LogRecords) /\ Len(log') = IF 1 <= R THEN R - 1 + 1 ELSE 0
      /\ \A i \in 1 .. R - 1 + 1 : log'[i] = logfile[1 + i - 1]
  <2>1. /\ SubSeq(logfile, 1, R) \in Seq(LogRecords)
        /\ Len(SubSeq(logfile, 1, R)) = IF 1 <= R THEN R - 1 + 1 ELSE 0
        /\ \A i \in 1 .. R - 1 + 1 : SubSeq(logfile, 1, R)[i] = logfile[1 + i - 1]
    BY <1>2, SubSeqProperties
  <2> QED BY <1>3, <2>1, Zenon
<1>5. Len(log') = R /\ \A i \in 1 .. R : log'[i] = log[i]
  BY <1>1, <1>4
<1>6. log' = SubSeq(log, 1, R)
  <2>1. /\ SubSeq(log, 1, R) \in Seq(LogRecords)
        /\ Len(SubSeq(log, 1, R)) = IF 1 <= R THEN R - 1 + 1 ELSE 0
        /\ \A i \in 1 .. R - 1 + 1 : SubSeq(log, 1, R)[i] = log[1 + i - 1]
    BY <1>2, SubSeqProperties
  <2>2. Len(SubSeq(log, 1, R)) = R /\ \A i \in 1 .. R : SubSeq(log, 1, R)[i] = log[i] BY <2>1
  <2> QED BY <1>4, <1>5, <2>1, <2>2, SeqEqual
<1>7. ASSUME NEW n \in Int, Hard(n)
      PROVE  n <= R
  <2>1. PICK j \in Nat : j >= n /\ j < Len(logfile) /\ (j = 0 \/ logfile[j].last)
    BY <1>7, HardMeaning
  <2>2. j = 0 \/ j \in DOMAIN logfile BY <1>0, <2>1
  <2>3. j <= R BY <1>1, <2>1, <2>2
  <2> QED BY <2>1, <2>3
<1>8. LogsOK'
  <2>1. (log = <<>> \/ log[Len(log)].last)'
    <3>1. CASE R = 0 BY <1>4, <1>5, <3>1, EmptySeq
    <3>2. CASE R # 0 BY <1>1, <1>5, <3>2
    <3> QED BY <3>1, <3>2
  <2>2. Agrees(logfile)'
    <3> SUFFICES ASSUME NEW j \in DOMAIN logfile, logfile[j].last
                 PROVE  j <= Len(log') /\ \A k \in 1 .. j : logfile[k] = log'[k]
      BY DEF Agrees
    <3>1. j <= R /\ j \in Nat BY <1>0, <1>1
    <3> QED BY <1>1, <1>5, <3>1
  <2>3. Agrees(logdisk)'
    <3> SUFFICES ASSUME NEW j \in DOMAIN logdisk, logdisk[j].last
                 PROVE  j <= Len(log') /\ \A k \in 1 .. j : logdisk[k] = log'[k]
      BY DEF Agrees
    <3>1. j \in DOMAIN logfile /\ logfile[j].last BY DEF LogsOK
    <3>2. j <= R /\ j \in Nat BY <1>0, <1>1, <3>1
    <3>3. \A k \in 1 .. j : logdisk[k] = log[k] BY DEF LogsOK, Agrees
    <3>4. j <= Len(log') BY <1>5, <3>2
    <3>5. \A k \in 1 .. j : k \in 1 .. R BY <3>2
    <3> QED BY <1>5, <3>3, <3>4, <3>5
  <2> QED BY <2>1, <2>2, <2>3 DEF LogsOK
<1>9. HardKept BY DEF HardKept, Hard
<1>10. OnFileKept BY DEF OnFileKept, OnFile
<1>11. ImageKept
  <2> SUFFICES ASSUME NEW image \in Images, ImageOK(image) PROVE ImageOK(image)'
    BY DEF ImageKept
  <2>1. image.lsn \in Nat /\ image.lsn - 1 \in Int BY DEF Images
  <2>2. Hard(image.lsn - 1) /\ Hard(image.lsn - 1)' BY <1>9, <2>1 DEF ImageOK, HardKept
  <2>3. image.lsn - 1 <= R BY <1>7, <2>1, <2>2
  <2>4. ASSUME NEW k \in DOMAIN image.recs
        PROVE  Known(image.recs[k])' /\ image.recs[k][1] < image.lsn
    <3>1. Known(image.recs[k]) /\ image.recs[k][1] < image.lsn BY DEF ImageOK
    <3>2. image.recs[k][1] \in 1 .. R BY <1>0, <2>1, <2>3, <3>1 DEF Known
    <3>3. log'[image.recs[k][1]] = log[image.recs[k][1]] /\ DOMAIN log' = 1 .. R
      BY <1>4, <1>5, <3>2, LenProperties
    <3> QED BY <3>1, <3>2, <3>3 DEF Known
  <2> QED BY <2>2, <2>4 DEF ImageOK
<1> QED BY <1>1, <1>4, <1>5, <1>6, <1>7, <1>8, <1>9, <1>10, <1>11

-----------------------------------------------------------------------------
(* Parts of the state that a step leaves alone.                            *)

\* The lsns of Log.
LEMMA LsnsKept ==
  ASSUME LsnTypes, LsnsOK, HardKept, OnFileKept,
         UNCHANGED <<m_write_lsn, m_current_flush_lsn, m_flushed_to_disk_lsn, acked, w>>
  PROVE  LsnsOK'
<1>1. m_write_lsn - 1 \in Int /\ m_current_flush_lsn - 1 \in Int
      /\ m_flushed_to_disk_lsn - 1 \in Int /\ acked \in Int
  BY DEF LsnTypes
<1>2. OnFile(m_write_lsn - 1)' /\ OnFile(m_current_flush_lsn - 1)' BY <1>1 DEF LsnsOK, OnFileKept
<1>3. Hard(m_flushed_to_disk_lsn - 1)' /\ Hard(acked)' BY <1>1 DEF LsnsOK, HardKept
<1>4. (\A t \in Threads : w[t] # "fsync") => Hard(m_current_flush_lsn - 1)'
  BY <1>1 DEF LsnsOK, HardKept
<1> QED BY <1>2, <1>3, <1>4 DEF LsnsOK

\* The calls of write_up_to().
LEMMA CallsKept ==
  ASSUME LogTypes, ThreadTypes, CallsOK, HardKept, log' \in Seq(LogRecords), Len(log') >= Len(log),
         UNCHANGED <<w, at, arg, m_current_flush_lsn, m_write_lsn>>
  PROVE  CallsOK'
<1>1. \A t \in Threads : arg[t].lsn - 1 \in Int /\ arg[t].lsn \in Nat BY DEF ThreadTypes, Calls
<1>2. \A t \in Threads : at[t] \in Waiting /\ w[t] \in {"none", "complete"} =>
        Hard(arg[t].lsn - 1)'
  BY <1>1 DEF CallsOK, HardKept
<1>3. Len(log) \in Nat /\ Len(log') \in Nat BY LenProperties DEF LogTypes
<1>4. \A t \in Threads : at[t] \in Waiting => arg[t].flush /\ arg[t].wait /\ arg[t].lsn <= m_lsn'
  BY <1>1, <1>3 DEF CallsOK, m_lsn
<1> QED BY <1>2, <1>4 DEF CallsOK, Waiting

\* The checkpoints.
LEMMA CheckpointsKept ==
  ASSUME CheckpointTypes, CheckpointsOK, HardKept, UNCHANGED <<slots, phase, ckptVars>>,
         at'["checkpointer"] = "write" => arg'["checkpointer"].lsn >= 1
  PROVE  CheckpointsOK'
<1>1. \A i \in {0, 1} : slots[i].lsn - 1 \in Int BY DEF CheckpointTypes
<1>2. m_next_checkpoint_lsn - 1 \in Int BY DEF CheckpointTypes
<1>3. \A i \in {0, 1} : slots[i] = BadSlot \/
        /\ slots[i].no \in Nat /\ slots[i].no % 2 = i
        /\ slots[i].lsn >= 1 /\ Hard(slots[i].lsn - 1)'
  BY <1>1 DEF CheckpointsOK, HardKept
<1>4. m_n_pending_checkpoint_writes = 1 =>
       /\ phase \in {"up", "synchronize"}
       /\ m_next_checkpoint_lsn >= 1 /\ Hard(m_next_checkpoint_lsn - 1)'
  BY <1>2 DEF CheckpointsOK, HardKept, ckptVars
<1> QED BY <1>3, <1>4 DEF CheckpointsOK, ckptVars

\* The buffer pool.
LEMMA BlocksKept ==
  ASSUME LogTypes, PageTypes, BlocksOK, KnownKept, log' \in Seq(LogRecords), Len(log') >= Len(log),
         UNCHANGED pool
  PROVE  BlocksOK'
<1>1. Len(log) \in Nat /\ Len(log') \in Nat BY LenProperties DEF LogTypes
<1>2. \A p \in Pages : pool[p].newest \in Nat /\ pool[p].oldest \in Nat BY DEF PageTypes, Blocks
<1>3. \A p \in Pages : \A k \in DOMAIN pool[p].recs : Known(pool[p].recs[k])'
  BY DEF BlocksOK, KnownKept
<1> QED BY <1>1, <1>2, <1>3 DEF BlocksOK, m_lsn

\* The flush of pages.
LEMMA FlushKept ==
  ASSUME PageTypes, FlushOK, HardKept, UNCHANGED <<pool, m_bpages, dbl>>,
         at'["flusher"] = at["flusher"],
         at["flusher"] # "idle" => arg'["flusher"] = arg["flusher"]
  PROVE  FlushOK'
<1>1. \A p \in Pages : pool[p].newest - 1 \in Int BY DEF PageTypes, Blocks
<1>2. \A p \in Pages : pool[p].io \in {"posted", "write"} => Hard(pool[p].newest - 1)'
  BY <1>1 DEF FlushOK, HardKept
<1>3. \A p \in Pages : pool[p].io = "fixed" =>
       /\ at'["flusher"] = "post" /\ arg'["flusher"].lsn = pool[p].newest
       /\ \A q \in Pages : pool[q].io = "fixed" => q = p
  BY DEF FlushOK, Flusher
<1> QED BY <1>2, <1>3 DEF FlushOK, Flusher, FrameImage, Image

\* The images.
LEMMA ImagesKept ==
  ASSUME PageTypes, ImagesOK, ImageKept, UNCHANGED <<file, disk, dbl, dbldisk>>
  PROVE  ImagesOK'
<1>1. \A p \in Pages : file[p] \in Images /\ disk[p] \in Images BY DEF PageTypes
<1>2. \A i \in 1 .. DblSize : dbl[i].image \in Images /\ dbldisk[i].image \in Images
  BY DEF PageTypes, Copies
<1> QED BY <1>1, <1>2 DEF ImagesOK, ImageKept

\* Torn pages.
LEMMA TornKept ==
  ASSUME TornOK, UNCHANGED <<file, disk, dbl, dbldisk, phase>>, lapses \subseteq lapses',
         \A p \in Pages : pool'[p].io = "write" => pool[p].io = "write",
         at'["flusher"] # "wait" => at["flusher"] # "wait"
  PROVE  TornOK'
<1>1. \A p \in Pages : Exposed(p)' => Exposed(p) BY DEF Exposed
<1>2. \A p \in Pages : GoodCopy(p) => GoodCopy(p)' BY DEF GoodCopy
<1> QED BY <1>1, <1>2 DEF TornOK, Flusher, Exposed

\* The parts around write_up_to().
LEMMA WriteCommon ==
  ASSUME RedoInv, phase = "up", LogTypes', LsnTypes', ThreadTypes', LogsOK', HardKept, KnownKept,
         LsnsOK', WritersOK', CallsOK',
         UNCHANGED <<log, ckptVars, pool, m_bpages, file, disk, dbl, dbldisk, slots, at, phase>>,
         UNCHANGED lapses,
         \A t \in Threads : at[t] # "idle" => arg'[t] = arg[t]
  PROVE  RedoInv'
<1>0. "flusher" \in Threads /\ "checkpointer" \in Threads BY DEF Threads, Others
<1>1. CheckpointTypes' BY DEF RedoInv, Types, CheckpointTypes, ckptVars
<1>2. PageTypes' BY DEF RedoInv, Types, PageTypes
<1>3. CheckpointsOK'
  <2>1. at["checkpointer"] = "write" => arg["checkpointer"].lsn >= 1
    BY DEF RedoInv, CheckpointsOK
  <2> QED BY <1>0, <2>1, CheckpointsKept DEF RedoInv, Types
<1>4. QuietOK' BY DEF QuietOK
<1>5. BlocksOK'
  <2>1. log' \in Seq(LogRecords) /\ Len(log') >= Len(log) BY LenProperties DEF RedoInv, Types, LogTypes
  <2> QED BY <2>1, BlocksKept DEF RedoInv, Types
<1>6. FlushOK' BY <1>0, FlushKept DEF RedoInv, Types
<1>7. ImagesOK' BY ImagesStay, ImagesKept DEF RedoInv, Types
<1>8. TornOK' BY TornKept DEF RedoInv
<1> QED BY <1>1, <1>2, <1>3, <1>4, <1>5, <1>6, <1>7, <1>8 DEF RedoInv, Types

-----------------------------------------------------------------------------
(* Log::write_up_to().                                                     *)

\* Only a database that is up has calls.
LEMMA UpWhileWriting ==
  ASSUME RedoInv, NEW t \in Threads, w[t] # "none"
  PROVE  phase = "up"
BY DEF RedoInv, QuietOK

\* A call returns: if it was made to wait, it got what it asked for.
LEMMA ReturnCall ==
  ASSUME RedoInv, NEW t \in Threads, w[t] = "enter", Return(t),
         at[t] \in Waiting => Hard(arg[t].lsn - 1),
         UNCHANGED <<log, logVars, ckptVars, pool, m_bpages, fileVars, at, phase,
                     crashes, acked, lapses>>
  PROVE  RedoInv'
<1>0. phase = "up" BY UpWhileWriting
<1>1. LogsOK' /\ HardKept /\ OnFileKept /\ KnownKept BY LogsSame DEF RedoInv, fileVars
<1>2. LogTypes' BY DEF RedoInv, Types, LogTypes, fileVars
<1>3. LsnTypes' BY DEF RedoInv, Types, LsnTypes, logVars
<1>4. w' = [w EXCEPT ![t] = "none"] BY DEF Return
<1>5. \A u \in Threads : w'[u] = (IF u = t THEN "none" ELSE w[u]) BY <1>4 DEF RedoInv, Types, ThreadTypes
<1>6. \A u \in Threads : at[u] # "idle" \/ u # t => arg'[u] = arg[u]
  BY DEF Return, RedoInv, Types, ThreadTypes
<1>7. ThreadTypes'
  <2>1. NoCall \in Calls BY DEF NoCall, Calls
  <2> QED BY <2>1 DEF Return, RedoInv, Types, ThreadTypes
<1>8. LsnsOK'
  <2>1. m_write_lsn - 1 \in Int /\ m_current_flush_lsn - 1 \in Int
        /\ m_flushed_to_disk_lsn - 1 \in Int /\ acked \in Int
    BY DEF RedoInv, Types, LsnTypes
  <2>2. UNCHANGED <<m_write_lsn, m_current_flush_lsn, m_flushed_to_disk_lsn, acked>> BY DEF logVars
  <2>3. OnFile(m_write_lsn - 1)' /\ OnFile(m_current_flush_lsn - 1)'
    BY <1>1, <2>1, <2>2 DEF RedoInv, LsnsOK, OnFileKept
  <2>4. Hard(m_flushed_to_disk_lsn - 1)' /\ Hard(acked)'
    BY <1>1, <2>1, <2>2 DEF RedoInv, LsnsOK, HardKept
  <2>5. (\A u \in Threads : w'[u] # "fsync") => \A u \in Threads : w[u] # "fsync" BY <1>5
  <2>6. (\A u \in Threads : w'[u] # "fsync") => Hard(m_current_flush_lsn - 1)'
    BY <1>1, <2>1, <2>2, <2>5 DEF RedoInv, LsnsOK, HardKept
  <2> QED BY <2>3, <2>4, <2>6 DEF LsnsOK
<1>9. WritersOK' BY <1>5 DEF RedoInv, WritersOK, logVars
<1>10. CallsOK'
  <2>1. \A u \in Threads : arg[u].lsn - 1 \in Int BY DEF RedoInv, Types, ThreadTypes, Calls
  <2>2. ASSUME NEW u \in Threads, at[u] \in Waiting, w'[u] \in {"none", "complete"} PROVE Hard(arg[u].lsn - 1)'
    <3>1. at[u] # "idle" BY <2>2 DEF Waiting
    <3>2. arg'[u] = arg[u] BY <1>6, <3>1
    <3>3. Hard(arg[u].lsn - 1) BY <1>5, <2>2 DEF RedoInv, CallsOK
    <3> QED BY <1>1, <2>1, <3>2, <3>3 DEF HardKept
  <2>3. \A u \in Threads : w'[u] = "joined" => u # t /\ w[u] = "joined" BY <1>5
  <2>4. \A u \in Threads : w'[u] = "joined" /\ arg'[u].flush => arg'[u].lsn <= m_current_flush_lsn'
    BY <1>6, <2>3 DEF RedoInv, CallsOK, logVars
  <2>5. \A u \in Threads : at[u] \in Waiting => arg'[u].flush /\ arg'[u].wait /\ arg'[u].lsn <= m_lsn'
    BY <1>6 DEF RedoInv, CallsOK, Waiting, m_lsn
  <2>7. \A u \in Threads : at[u] \in Waiting /\ w'[u] = "fsync" => arg'[u].lsn <= m_write_lsn'
    BY <1>5, <1>6 DEF RedoInv, CallsOK, Waiting, logVars
  <2>6. \A u \in Threads : u # "background" /\ at[u] \notin Waiting => w'[u] = "none"
    BY <1>5 DEF RedoInv, CallsOK
  <2> QED BY <2>2, <2>4, <2>5, <2>6, <2>7 DEF CallsOK
<1> QED BY <1>0, <1>1, <1>2, <1>3, <1>6, <1>7, <1>8, <1>9, <1>10, WriteCommon DEF fileVars

\* A call goes on to sleep.
LEMMA SleepCall ==
  ASSUME RedoInv, NEW t \in Threads, w[t] = "enter", NEW x \in {"joined", "asleep"}, Go(t, x),
         x = "joined" /\ arg[t].flush => arg[t].lsn <= m_current_flush_lsn,
         UNCHANGED <<log, logVars, ckptVars, pool, m_bpages, fileVars, at, phase,
                     crashes, acked, lapses>>
  PROVE  RedoInv'
<1>0. phase = "up" BY UpWhileWriting
<1>1. LogsOK' /\ HardKept /\ OnFileKept /\ KnownKept BY LogsSame DEF RedoInv, fileVars
<1>2. LogTypes' BY DEF RedoInv, Types, LogTypes, fileVars
<1>3. LsnTypes' BY DEF RedoInv, Types, LsnTypes, logVars
<1>4. w' = [w EXCEPT ![t] = x] /\ arg' = arg BY DEF Go
<1>5. \A u \in Threads : w'[u] = (IF u = t THEN x ELSE w[u]) BY <1>4 DEF RedoInv, Types, ThreadTypes
<1>7. ThreadTypes' BY <1>4 DEF RedoInv, Types, ThreadTypes
<1>8. LsnsOK'
  <2>1. m_write_lsn - 1 \in Int /\ m_current_flush_lsn - 1 \in Int
        /\ m_flushed_to_disk_lsn - 1 \in Int /\ acked \in Int
    BY DEF RedoInv, Types, LsnTypes
  <2>2. UNCHANGED <<m_write_lsn, m_current_flush_lsn, m_flushed_to_disk_lsn, acked>> BY DEF logVars
  <2>3. OnFile(m_write_lsn - 1)' /\ OnFile(m_current_flush_lsn - 1)'
    BY <1>1, <2>1, <2>2 DEF RedoInv, LsnsOK, OnFileKept
  <2>4. Hard(m_flushed_to_disk_lsn - 1)' /\ Hard(acked)'
    BY <1>1, <2>1, <2>2 DEF RedoInv, LsnsOK, HardKept
  <2>5. (\A u \in Threads : w'[u] # "fsync") => \A u \in Threads : w[u] # "fsync" BY <1>5
  <2>6. (\A u \in Threads : w'[u] # "fsync") => Hard(m_current_flush_lsn - 1)'
    BY <1>1, <2>1, <2>2, <2>5 DEF RedoInv, LsnsOK, HardKept
  <2> QED BY <2>3, <2>4, <2>6 DEF LsnsOK
<1>9. WritersOK' BY <1>5 DEF RedoInv, WritersOK, logVars
<1>10. CallsOK'
  <2>1. \A u \in Threads : arg[u].lsn - 1 \in Int BY DEF RedoInv, Types, ThreadTypes, Calls
  <2>2. ASSUME NEW u \in Threads, at[u] \in Waiting, w'[u] \in {"none", "complete"} PROVE Hard(arg[u].lsn - 1)'
    <3>1. w[u] \in {"none", "complete"} BY <1>5, <2>2
    <3>2. Hard(arg[u].lsn - 1) BY <2>2, <3>1 DEF RedoInv, CallsOK
    <3> QED BY <1>1, <1>4, <2>1, <3>2 DEF HardKept
  <2>4. \A u \in Threads : w'[u] = "joined" /\ arg'[u].flush => arg'[u].lsn <= m_current_flush_lsn'
    BY <1>4, <1>5 DEF RedoInv, CallsOK, logVars
  <2>5. \A u \in Threads : at[u] \in Waiting => arg'[u].flush /\ arg'[u].wait /\ arg'[u].lsn <= m_lsn'
    BY <1>4 DEF RedoInv, CallsOK, m_lsn
  <2>7. \A u \in Threads : at[u] \in Waiting /\ w'[u] = "fsync" => arg'[u].lsn <= m_write_lsn'
    BY <1>4, <1>5 DEF RedoInv, CallsOK, logVars
  <2>6. \A u \in Threads : u # "background" /\ at[u] \notin Waiting => w'[u] = "none"
    BY <1>5 DEF RedoInv, CallsOK
  <2> QED BY <2>2, <2>4, <2>5, <2>6, <2>7 DEF CallsOK
<1> QED BY <1>0, <1>1, <1>2, <1>3, <1>4, <1>7, <1>8, <1>9, <1>10, WriteCommon DEF fileVars

\* The returns at once, and the waits.
LEMMA WriteEntered ==
  ASSUME RedoInv, NEW t \in Threads, WriteEnough(t) \/ WriteJoin(t) \/ WriteRetry(t) \/ WriteNothing(t)
  PROVE  RedoInv'
<1>0. at[t] \in Waiting => arg[t].flush /\ arg[t].wait BY DEF RedoInv, CallsOK
<1>1. CASE WriteEnough(t)
  <2>1. ASSUME at[t] \in Waiting PROVE Hard(arg[t].lsn - 1)
    <3>1. m_flushed_to_disk_lsn >= arg[t].lsn BY <1>0, <1>1, <2>1 DEF WriteEnough, Enough
    <3>2. arg[t].lsn \in Nat /\ m_flushed_to_disk_lsn \in Nat
      BY DEF RedoInv, Types, ThreadTypes, Calls, LsnTypes
    <3>3. arg[t].lsn - 1 \in Int /\ m_flushed_to_disk_lsn - 1 \in Int
          /\ arg[t].lsn - 1 <= m_flushed_to_disk_lsn - 1
      BY <3>1, <3>2
    <3> QED BY <3>3, HardBelow DEF RedoInv, Types, LsnsOK
  <2> QED BY <1>1, <2>1, ReturnCall DEF WriteEnough
<1>2. CASE WriteJoin(t)
  <2>1. CASE arg[t].wait
    <3>1. arg[t].flush => arg[t].lsn <= m_current_flush_lsn
      <4>1. arg[t].flush => m_current_flush_lsn >= arg[t].lsn BY <1>2 DEF WriteJoin, WillDo
      <4>2. arg[t].lsn \in Nat /\ m_current_flush_lsn \in Nat
        BY DEF RedoInv, Types, ThreadTypes, Calls, LsnTypes
      <4> QED BY <4>1, <4>2
    <3> QED BY <1>2, <2>1, <3>1, SleepCall DEF WriteJoin
  <2>2. CASE ~arg[t].wait BY <1>0, <1>2, <2>2, ReturnCall DEF WriteJoin
  <2> QED BY <2>1, <2>2
<1>3. CASE WriteRetry(t) BY <1>3, SleepCall DEF WriteRetry
<1>4. CASE WriteNothing(t) BY <1>0, <1>4, ReturnCall DEF WriteNothing, NothingToDo
<1> QED BY <1>1, <1>2, <1>3, <1>4

\* Nobody else writes while a thread does.
LEMMA NoWriter ==
  ASSUME RedoInv, m_n_pending_writes = 0
  PROVE  \A u \in Threads : w[u] \notin {"fsync", "complete"}
BY DEF RedoInv, WritersOK

\* A write of the log starts.
LEMMA StartedWrite ==
  ASSUME RedoInv, NEW t \in Threads, WriteStart(t)
  PROVE  RedoInv'
<1>0. phase = "up" BY UpWhileWriting DEF WriteStart
<1>1. LogsOK' /\ HardKept /\ OnFileKept /\ KnownKept /\ OnFile(Len(log))'
      /\ logfile' \in Seq(LogRecords \cup {EndMark})
  BY LogWritten DEF RedoInv, Types, WriteStart
<1>2. LogTypes' BY <1>1 DEF RedoInv, Types, LogTypes, WriteStart
<1>3. Len(log) \in Nat /\ m_lsn \in Nat /\ m_lsn - 1 = Len(log)
  BY LenProperties DEF RedoInv, Types, LogTypes, m_lsn
<1>4. LsnTypes' BY <1>3 DEF RedoInv, Types, LsnTypes, WriteStart
<1>5. /\ w' = [w EXCEPT ![t] = IF arg[t].flush THEN "fsync" ELSE "complete"] /\ arg' = arg
      /\ m_write_lsn' = m_lsn /\ m_n_pending_writes' = 1
      /\ m_current_flush_lsn' = IF arg[t].flush THEN m_lsn ELSE m_current_flush_lsn
      /\ UNCHANGED <<m_flushed_to_disk_lsn, acked, log, at>>
  BY DEF WriteStart, Go
<1>6. \A u \in Threads : w'[u] = IF u = t THEN IF arg[t].flush THEN "fsync" ELSE "complete" ELSE w[u]
  BY <1>5 DEF RedoInv, Types, ThreadTypes
<1>7. ThreadTypes' BY <1>5 DEF RedoInv, Types, ThreadTypes
<1>8. \A u \in Threads : w[u] \notin {"fsync", "complete"} BY NoWriter DEF WriteStart
<1>9. m_current_flush_lsn \in Nat /\ m_current_flush_lsn <= m_lsn
  <2>1. m_current_flush_lsn \in Nat /\ m_current_flush_lsn - 1 \in Int BY DEF RedoInv, Types, LsnTypes
  <2>2. m_current_flush_lsn - 1 <= Len(log) BY <2>1, OnFileBelow DEF RedoInv, Types, LsnsOK
  <2> QED BY <1>3, <2>1, <2>2
<1>10. LsnsOK'
  <2>1. m_current_flush_lsn - 1 \in Int /\ m_flushed_to_disk_lsn - 1 \in Int /\ acked \in Int
    BY DEF RedoInv, Types, LsnTypes
  <2>2. OnFile(m_write_lsn - 1)'
    <3>1. m_write_lsn' - 1 = Len(log') BY <1>3, <1>5
    <3> QED BY <1>1, <3>1 DEF OnFile
  <2>3. OnFile(m_current_flush_lsn - 1)'
    <3>1. CASE arg[t].flush
      <4>1. m_current_flush_lsn' - 1 = Len(log') BY <1>3, <1>5, <3>1
      <4> QED BY <1>1, <4>1 DEF OnFile
    <3>2. CASE ~arg[t].flush
      <4>1. m_current_flush_lsn' = m_current_flush_lsn BY <1>5, <3>2
      <4> QED BY <1>1, <2>1, <4>1 DEF RedoInv, LsnsOK, OnFileKept
    <3> QED BY <3>1, <3>2
  <2>4. Hard(m_flushed_to_disk_lsn - 1)' /\ Hard(acked)'
    BY <1>1, <1>5, <2>1 DEF RedoInv, LsnsOK, HardKept
  <2>5. ASSUME \A u \in Threads : w'[u] # "fsync" PROVE Hard(m_current_flush_lsn - 1)'
    <3>1. ~arg[t].flush BY <1>6, <2>5
    <3>2. m_current_flush_lsn' = m_current_flush_lsn BY <1>5, <3>1
    <3>3. Hard(m_current_flush_lsn - 1) BY <1>8 DEF RedoInv, LsnsOK
    <3> QED BY <1>1, <2>1, <3>2, <3>3 DEF HardKept
  <2> QED BY <2>2, <2>3, <2>4, <2>5 DEF LsnsOK
<1>11. WritersOK'
  <2>1. \A u \in Threads : w'[u] \in {"fsync", "complete"} => u = t BY <1>6, <1>8
  <2>2. w'[t] = "fsync" => m_current_flush_lsn' <= m_write_lsn' BY <1>3, <1>5, <1>6
  <2> QED BY <1>5, <2>1, <2>2 DEF WritersOK
<1>12. CallsOK'
  <2>1. \A u \in Threads : arg[u].lsn - 1 \in Int /\ arg[u].lsn \in Nat
    BY DEF RedoInv, Types, ThreadTypes, Calls
  <2>2. ASSUME NEW u \in Threads, at[u] \in Waiting, w'[u] \in {"none", "complete"}
        PROVE  Hard(arg[u].lsn - 1)'
    <3>1. w[u] = "none" BY <1>6, <1>8, <2>2 DEF RedoInv, CallsOK
    <3>2. Hard(arg[u].lsn - 1) BY <2>2, <3>1 DEF RedoInv, CallsOK
    <3> QED BY <1>1, <1>5, <2>1, <3>2 DEF HardKept
  <2>3. ASSUME NEW u \in Threads, w'[u] = "joined", arg[u].flush
        PROVE  arg[u].lsn <= m_current_flush_lsn'
    <3>1. arg[u].lsn <= m_current_flush_lsn BY <1>6, <2>3 DEF RedoInv, CallsOK
    <3> QED BY <1>3, <1>5, <1>9, <2>1, <3>1
  <2>4. \A u \in Threads : at[u] \in Waiting => arg[u].flush /\ arg[u].wait /\ arg[u].lsn <= m_lsn'
    BY <1>5 DEF RedoInv, CallsOK, m_lsn
  <2>5. \A u \in Threads : at[u] \in Waiting /\ w'[u] = "fsync" => arg[u].lsn <= m_write_lsn'
    BY <1>5, <1>6, <1>8 DEF RedoInv, CallsOK
  <2>6. \A u \in Threads : u # "background" /\ at[u] \notin Waiting => w'[u] = "none"
    <3>1. w[t] = "enter" BY DEF WriteStart
    <3> QED BY <1>6, <3>1 DEF RedoInv, CallsOK
  <2> QED BY <1>5, <2>2, <2>3, <2>4, <2>5, <2>6 DEF CallsOK
<1> QED BY <1>0, <1>1, <1>2, <1>4, <1>5, <1>7, <1>10, <1>11, <1>12, WriteCommon DEF WriteStart

\* The log file is synced.
LEMMA SyncedWrite ==
  ASSUME RedoInv, NEW t \in Threads, WriteFsync(t)
  PROVE  RedoInv'
<1>0. phase = "up" BY UpWhileWriting DEF WriteFsync
<1>1. LogsOK' /\ HardKept /\ OnFileKept /\ KnownKept /\ \A n \in Int : OnFile(n) => Hard(n)'
  BY LogsSynced DEF RedoInv, Types, WriteFsync
<1>2. LogTypes' BY DEF RedoInv, Types, LogTypes, WriteFsync
<1>4. LsnTypes' BY DEF RedoInv, Types, LsnTypes, WriteFsync
<1>5. /\ w' = [w EXCEPT ![t] = "complete"] /\ arg' = arg
      /\ m_flushed_to_disk_lsn' = m_write_lsn
      /\ UNCHANGED <<m_write_lsn, m_current_flush_lsn, m_n_pending_writes, acked, log, at>>
  BY DEF WriteFsync, Go
<1>6. w[t] = "fsync" /\ \A u \in Threads : w'[u] = IF u = t THEN "complete" ELSE w[u]
  BY <1>5 DEF RedoInv, Types, ThreadTypes, WriteFsync
<1>7. ThreadTypes' BY <1>5 DEF RedoInv, Types, ThreadTypes
<1>8. m_write_lsn - 1 \in Int /\ m_current_flush_lsn - 1 \in Int /\ acked \in Int /\ m_write_lsn \in Nat
  BY DEF RedoInv, Types, LsnTypes
<1>9. Hard(m_write_lsn - 1)' /\ Hard(m_current_flush_lsn - 1)'
  BY <1>1, <1>5, <1>8 DEF RedoInv, LsnsOK
<1>10. LsnsOK'
  <2>1. OnFile(m_write_lsn - 1)' /\ OnFile(m_current_flush_lsn - 1)'
    BY <1>1, <1>5, <1>8 DEF RedoInv, LsnsOK, OnFileKept
  <2>2. Hard(acked)' BY <1>1, <1>5, <1>8 DEF RedoInv, LsnsOK, HardKept
  <2>3. Hard(m_flushed_to_disk_lsn - 1)'
    <3>1. m_flushed_to_disk_lsn' - 1 = m_write_lsn' - 1 BY <1>5
    <3> QED BY <1>9, <3>1 DEF Hard
  <2> QED BY <1>9, <2>1, <2>2, <2>3 DEF LsnsOK
<1>11. WritersOK' BY <1>5, <1>6 DEF RedoInv, WritersOK
<1>12. CallsOK'
  <2>1. \A u \in Threads : arg[u].lsn - 1 \in Int /\ arg[u].lsn \in Nat
    BY DEF RedoInv, Types, ThreadTypes, Calls
  <2>2. ASSUME NEW u \in Threads, at[u] \in Waiting, w'[u] \in {"none", "complete"}
        PROVE  Hard(arg[u].lsn - 1)'
    <3>1. CASE u = t
      <4>1. arg[u].lsn <= m_write_lsn BY <1>6, <2>2, <3>1 DEF RedoInv, CallsOK
      <4>2. m_write_lsn' - 1 \in Int /\ arg'[u].lsn - 1 \in Int /\ arg'[u].lsn - 1 <= m_write_lsn' - 1
        BY <1>5, <1>8, <2>1, <4>1
      <4>3. LogTypes' /\ LogsOK' BY <1>1, <1>2
      <4>4. PICK j \in 0 .. Len(logfile') - 1 : /\ j >= m_write_lsn' - 1 /\ j < Len(logdisk')
                                                /\ j = 0 \/ logdisk'[j].last
        BY <1>9 DEF Hard
      <4>5. j \in Int BY <4>4
      <4>6. j >= arg'[u].lsn - 1 BY <4>2, <4>4, <4>5
      <4> QED BY <4>4, <4>6 DEF Hard
    <3>2. CASE u # t
      <4>1. Hard(arg[u].lsn - 1) BY <1>6, <2>2, <3>2 DEF RedoInv, CallsOK
      <4> QED BY <1>1, <1>5, <2>1, <4>1 DEF HardKept
    <3> QED BY <3>1, <3>2
  <2>3. \A u \in Threads : w'[u] = "joined" /\ arg[u].flush => arg[u].lsn <= m_current_flush_lsn'
    BY <1>5, <1>6 DEF RedoInv, CallsOK
  <2>4. \A u \in Threads : at[u] \in Waiting => arg[u].flush /\ arg[u].wait /\ arg[u].lsn <= m_lsn'
    BY <1>5 DEF RedoInv, CallsOK, m_lsn
  <2>5. \A u \in Threads : at[u] \in Waiting /\ w'[u] = "fsync" => arg[u].lsn <= m_write_lsn'
    BY <1>5, <1>6 DEF RedoInv, CallsOK
  <2>6. \A u \in Threads : u # "background" /\ at[u] \notin Waiting => w'[u] = "none"
    BY <1>6 DEF RedoInv, CallsOK
  <2> QED BY <1>5, <2>2, <2>3, <2>4, <2>5, <2>6 DEF CallsOK
<1> QED BY <1>0, <1>1, <1>2, <1>4, <1>5, <1>7, <1>10, <1>11, <1>12, WriteCommon DEF WriteFsync

\* A write of the log is complete: those that joined it have what they asked for.
LEMMA CompletedWrite ==
  ASSUME RedoInv, NEW t \in Threads, WriteComplete(t)
  PROVE  RedoInv'
<1>0. phase = "up" BY UpWhileWriting DEF WriteComplete
<1>1. LogsOK' /\ HardKept /\ OnFileKept /\ KnownKept
  BY LogsSame DEF RedoInv, WriteComplete, fileVars
<1>2. LogTypes' BY DEF RedoInv, Types, LogTypes, WriteComplete, fileVars
<1>4. LsnTypes' BY DEF RedoInv, Types, LsnTypes, WriteComplete
<1>5. /\ w' = [u \in Threads |-> IF u = t THEN "none" ELSE Awake(w[u])]
      /\ arg' = [u \in Threads |-> IF w'[u] = "none" /\ at[u] = "idle" THEN NoCall ELSE arg[u]]
      /\ m_n_pending_writes' = 0 /\ w[t] = "complete"
      /\ UNCHANGED <<m_write_lsn, m_current_flush_lsn, m_flushed_to_disk_lsn, acked, log, at>>
  BY DEF WriteComplete
<1>6. \A u \in Threads : w'[u] = IF u = t THEN "none" ELSE Awake(w[u]) BY <1>5
<1>7. \A u \in Threads : at[u] # "idle" => arg'[u] = arg[u] BY <1>5
<1>8. \A u \in Threads : u # t => w[u] \notin {"fsync", "complete"}
  BY <1>5 DEF RedoInv, WritersOK
<1>9. \A u \in Threads : w'[u] \in {"none", "enter"}
  <2>1. \A u \in Threads : w[u] \in {"none", "enter", "fsync", "complete", "joined", "asleep"}
    BY DEF RedoInv, Types, ThreadTypes
  <2> QED BY <1>6, <1>8, <2>1 DEF Awake
<1>10. ThreadTypes'
  <2>1. NoCall \in Calls BY DEF NoCall, Calls
  <2>2. w' \in [Threads -> {"none", "enter", "fsync", "complete", "joined", "asleep"}]
    BY <1>5, <1>9
  <2>3. arg' \in [Threads -> Calls] BY <1>5, <2>1 DEF RedoInv, Types, ThreadTypes
  <2> QED BY <1>5, <2>2, <2>3 DEF RedoInv, Types, ThreadTypes
<1>11. m_write_lsn - 1 \in Int /\ m_current_flush_lsn - 1 \in Int
       /\ m_flushed_to_disk_lsn - 1 \in Int /\ acked \in Int /\ m_current_flush_lsn \in Nat
  BY DEF RedoInv, Types, LsnTypes
<1>12. Hard(m_current_flush_lsn - 1)
  <2>1. \A u \in Threads : w[u] # "fsync" BY <1>5, <1>8
  <2> QED BY <2>1 DEF RedoInv, LsnsOK
<1>13. LsnsOK'
  <2>1. OnFile(m_write_lsn - 1)' /\ OnFile(m_current_flush_lsn - 1)'
    BY <1>1, <1>5, <1>11 DEF RedoInv, LsnsOK, OnFileKept
  <2>2. Hard(acked)' /\ Hard(m_flushed_to_disk_lsn - 1)'
    BY <1>1, <1>5, <1>11 DEF RedoInv, LsnsOK, HardKept
  <2>3. Hard(m_current_flush_lsn - 1)' BY <1>1, <1>5, <1>11, <1>12 DEF HardKept
  <2> QED BY <2>1, <2>2, <2>3 DEF LsnsOK
<1>14. WritersOK' BY <1>9 DEF WritersOK
<1>15. CallsOK'
  <2>1. \A u \in Threads : arg[u].lsn - 1 \in Int /\ arg[u].lsn \in Nat
    BY DEF RedoInv, Types, ThreadTypes, Calls
  <2>2. ASSUME NEW u \in Threads, at[u] \in Waiting, w'[u] \in {"none", "complete"}
        PROVE  Hard(arg[u].lsn - 1)'
    <3>1. arg'[u] = arg[u] BY <1>7, <2>2 DEF Waiting
    <3>2. Hard(arg[u].lsn - 1)
      <4>1. CASE u = t BY <1>5, <2>2, <4>1 DEF RedoInv, CallsOK
      <4>2. CASE u # t /\ w[u] = "none" BY <2>2, <4>2 DEF RedoInv, CallsOK
      <4>3. CASE u # t /\ w[u] = "joined"
        <5>1. arg[u].lsn <= m_current_flush_lsn BY <2>2, <4>3 DEF RedoInv, CallsOK
        <5>2. arg[u].lsn - 1 <= m_current_flush_lsn - 1 BY <1>11, <2>1, <5>1
        <5> QED BY <1>11, <1>12, <2>1, <5>2, HardBelow DEF RedoInv, Types
      <4>4. CASE u # t /\ w[u] \in {"enter", "asleep"} BY <1>6, <2>2, <4>4 DEF Awake
      <4> QED BY <1>8, <4>1, <4>2, <4>3, <4>4 DEF RedoInv, Types, ThreadTypes
    <3> QED BY <1>1, <2>1, <3>1, <3>2 DEF HardKept
  <2>3. \A u \in Threads : w'[u] # "joined" /\ w'[u] # "fsync" BY <1>9
  <2>4. \A u \in Threads : at[u] \in Waiting => arg'[u].flush /\ arg'[u].wait /\ arg'[u].lsn <= m_lsn'
    BY <1>5, <1>7 DEF RedoInv, CallsOK, m_lsn, Waiting
  <2>6. \A u \in Threads : u # "background" /\ at[u] \notin Waiting => w'[u] = "none"
    BY <1>6 DEF RedoInv, CallsOK, Awake
  <2> QED BY <1>5, <2>2, <2>3, <2>4, <2>6 DEF CallsOK
<1> QED BY <1>0, <1>1, <1>2, <1>4, <1>5, <1>7, <1>10, <1>13, <1>14, <1>15, WriteCommon
    DEF WriteComplete, fileVars

\* Every step of write_up_to().
LEMMA WriteUpToStep ==
  ASSUME RedoInv, NEW t \in Threads, WriteUpTo(t)
  PROVE  RedoInv'
BY WriteEntered, StartedWrite, SyncedWrite, CompletedWrite DEF WriteUpTo

-----------------------------------------------------------------------------
(* The records of a page, in order.                                        *)

Rank(S, i) == Cardinality({j \in S : j <= i})

\* The members of a finite set of numbers have the ranks from 1 to its size.
LEMMA NthMeaning ==
  ASSUME NEW S \in SUBSET Nat, IsFiniteSet(S)
  PROVE  /\ Cardinality(S) \in Nat
         /\ \A i \in S : Rank(S, i) \in 1 .. Cardinality(S)
         /\ \A i, k \in S : i < k => Rank(S, i) < Rank(S, k)
         /\ \A n \in 1 .. Cardinality(S) : Nth(S, n) \in S /\ Rank(S, Nth(S, n)) = n
         /\ \A i \in S : Nth(S, Rank(S, i)) = i
<1> DEFINE U(i) == {j \in S : j <= i}
           N == Cardinality(S)
<1>1. N \in Nat BY FS_CardinalityType
<1>2. \A i \in S : IsFiniteSet(U(i)) /\ Cardinality(U(i)) \in Nat /\ Cardinality(U(i)) <= N
  BY FS_Subset, FS_CardinalityType
<1>3. \A i \in S : U(i) # {} BY DEF U
<1>4. \A i \in S : Cardinality(U(i)) # 0 BY <1>2, <1>3, FS_EmptySet
<1>5. \A i \in S : Rank(S, i) = Cardinality(U(i)) BY DEF Rank
<1>6. ASSUME NEW i \in S PROVE Rank(S, i) \in 1 .. N
  <2>1. PICK c \in Nat : c = Cardinality(U(i)) /\ c <= N /\ c # 0 BY <1>2, <1>4
  <2>2. c \in 1 .. N BY <1>1, <2>1
  <2> QED BY <1>5, <2>1, <2>2
<1>7. ASSUME NEW i \in S, NEW k \in S, i < k PROVE Rank(S, i) < Rank(S, k)
  <2>1. U(i) \in SUBSET U(k)
    <3>1. \A j \in S : j <= i => j <= k BY <1>7
    <3> QED BY <3>1
  <2>2. k \in U(k) /\ k \notin U(i) BY <1>7
  <2>3. IsFiniteSet(U(k)) BY <1>2
  <2>4. Cardinality(U(i)) <= Cardinality(U(k)) /\ (Cardinality(U(k)) = Cardinality(U(i)) => U(k) = U(i))
    BY <2>1, <2>3, FS_Subset
  <2>5. Cardinality(U(i)) # Cardinality(U(k)) BY <2>2, <2>4
  <2> QED BY <1>2, <1>5, <2>4, <2>5
<1> DEFINE f == [i \in S |-> Rank(S, i)]
<1>8. f \in Injection(S, 1 .. N)
  <2>1. f \in [S -> 1 .. N] BY <1>6
  <2>2. \A i, k \in S : f[i] = f[k] => i = k
    <3> SUFFICES ASSUME NEW i \in S, NEW k \in S, i # k PROVE Rank(S, i) # Rank(S, k) OBVIOUS
    <3>1. i < k \/ k < i OBVIOUS
    <3> QED BY <1>1, <1>6, <1>7, <3>1
  <2> QED BY <2>1, <2>2, Fun_IsInj
<1>9. IsFiniteSet(1 .. N) /\ Cardinality(1 .. N) = N
  <2>1. IsFiniteSet(1 .. N) /\ Cardinality(1 .. N) = IF 1 > N THEN 0 ELSE N - 1 + 1
    BY <1>1, FS_Interval
  <2> QED BY <1>1, <2>1
<1>10. f \in Surjection(S, 1 .. N) BY <1>8, <1>9, FS_Injection
<1>11. ASSUME NEW n \in 1 .. N PROVE \E i \in S : Rank(S, i) = n
  BY <1>10 DEF Surjection
<1>12. \A n \in 1 .. N : Nth(S, n) \in S /\ Rank(S, Nth(S, n)) = n
  BY <1>11 DEF Nth, Rank
<1>13. ASSUME NEW i \in S PROVE Nth(S, Rank(S, i)) = i
  <2>1. Rank(S, i) \in 1 .. N BY <1>6
  <2> DEFINE k == Nth(S, Rank(S, i))
  <2>2. k \in S /\ Rank(S, k) = Rank(S, i) BY <1>12, <2>1
  <2> HIDE DEF k
  <2>3. ~(i < k) /\ ~(k < i) BY <1>1, <1>6, <1>7, <2>2
  <2>4. i = k BY <2>2, <2>3
  <2> QED BY <2>4 DEF k
<1> QED BY <1>1, <1>6, <1>7, <1>12, <1>13

\* The members come in order.
LEMMA NthIncreases ==
  ASSUME NEW S \in SUBSET Nat, IsFiniteSet(S),
         NEW n \in 1 .. Cardinality(S), NEW m \in 1 .. Cardinality(S), n <= m
  PROVE  Nth(S, n) <= Nth(S, m)
<1>1. Nth(S, n) \in S /\ Rank(S, Nth(S, n)) = n /\ Nth(S, m) \in S /\ Rank(S, Nth(S, m)) = m
  BY NthMeaning
<1>2. ~(Nth(S, m) < Nth(S, n))
  <2> SUFFICES ASSUME Nth(S, m) < Nth(S, n) PROVE FALSE OBVIOUS
  <2>1. \A i, k \in S : i < k => Rank(S, i) < Rank(S, k) BY NthMeaning
  <2>2. m < n BY <1>1, <2>1
  <2> QED BY <2>2
<1>3. Nth(S, n) \in Nat /\ Nth(S, m) \in Nat BY <1>1
<1> QED BY <1>2, <1>3

\* Two sets of which one is below the other.
LEMMA NthSplit ==
  ASSUME NEW S \in SUBSET Nat, IsFiniteSet(S), NEW T \in SUBSET Nat, IsFiniteSet(T),
         \A i \in S, k \in T : i < k
  PROVE  /\ Cardinality(S \cup T) = Cardinality(S) + Cardinality(T)
         /\ \A n \in 1 .. Cardinality(S) : Nth(S \cup T, n) = Nth(S, n)
         /\ \A n \in 1 .. Cardinality(T) : Nth(S \cup T, Cardinality(S) + n) = Nth(T, n)
<1> DEFINE V == S \cup T
<1>1. V \in SUBSET Nat /\ IsFiniteSet(V) BY FS_Union
<1>2. S \cap T = {} OBVIOUS
<1>3. Cardinality(S) \in Nat /\ Cardinality(T) \in Nat BY FS_CardinalityType
<1>4. Cardinality(V) = Cardinality(S) + Cardinality(T)
  <2>1. Cardinality(V) = Cardinality(S) + Cardinality(T) - Cardinality(S \cap T) BY FS_Union
  <2>2. Cardinality(S \cap T) = 0 BY <1>2, FS_EmptySet
  <2> QED BY <1>3, <2>1, <2>2
<1>5. ASSUME NEW n \in 1 .. Cardinality(S) PROVE Nth(V, n) = Nth(S, n)
  <2> DEFINE i == Nth(S, n)
  <2>1. i \in S /\ Rank(S, i) = n BY NthMeaning
  <2> HIDE DEF i
  <2>2. {j \in V : j <= i} = {j \in S : j <= i}
    <3>1. \A j \in T : j \in Nat /\ i \in Nat /\ i < j BY <2>1
    <3>2. \A j \in T : ~(j <= i) BY <3>1
    <3> QED BY <3>2
  <2>3. Rank(V, i) = n BY <2>1, <2>2 DEF Rank
  <2>4. i \in V BY <2>1
  <2>5. Nth(V, Rank(V, i)) = i BY <1>1, <2>4, NthMeaning
  <2> QED BY <2>3, <2>5 DEF i
<1>6. ASSUME NEW n \in 1 .. Cardinality(T) PROVE Nth(V, Cardinality(S) + n) = Nth(T, n)
  <2> DEFINE i == Nth(T, n)
             W == {j \in T : j <= i}
  <2>1. i \in T /\ Rank(T, i) = n BY NthMeaning
  <2> HIDE DEF i
  <2>2. {j \in V : j <= i} = S \cup W
    <3>1. \A j \in S : j \in Nat /\ i \in Nat /\ j < i BY <2>1
    <3>2. \A j \in S : j <= i BY <3>1
    <3> QED BY <3>2
  <2>3. IsFiniteSet(W) /\ S \cap W = {} BY <1>2, FS_Subset
  <2>4. Cardinality(W) = n BY <2>1 DEF Rank
  <2>5. Cardinality(S \cup W) = Cardinality(S) + n
    <3>1. Cardinality(S \cup W) = Cardinality(S) + Cardinality(W) - Cardinality(S \cap W) BY <2>3, FS_Union
    <3>2. Cardinality(S \cap W) = 0 BY <2>3, FS_EmptySet
    <3> QED BY <1>3, <2>4, <3>1, <3>2
  <2>6. Rank(V, i) = Cardinality(S) + n BY <2>2, <2>5 DEF Rank
  <2>7. i \in V BY <2>1
  <2>8. Nth(V, Rank(V, i)) = i BY <1>1, <2>7, NthMeaning
  <2> QED BY <2>6, <2>8 DEF i
<1> QED BY <1>4, <1>5, <1>6

\* The records at some lsns are a sequence of entries.
LEMMA RecordsAtSeq ==
  ASSUME NEW s \in Seq(LogRecords), NEW S \in SUBSET (DOMAIN s)
  PROVE  /\ IsFiniteSet(S) /\ S \in SUBSET Nat /\ Cardinality(S) \in Nat
         /\ RecordsAt(s, S) \in Seq(Entries) /\ Len(RecordsAt(s, S)) = Cardinality(S)
         /\ DOMAIN RecordsAt(s, S) = 1 .. Cardinality(S)
         /\ \A k \in 1 .. Cardinality(S) :
              /\ Nth(S, k) \in S
              /\ RecordsAt(s, S)[k] = <<Nth(S, k), s[Nth(S, k)].inc, s[Nth(S, k)].page>>
<1>1. DOMAIN s = 1 .. Len(s) /\ Len(s) \in Nat BY LenProperties
<1>2. IsFiniteSet(1 .. Len(s)) BY <1>1, FS_Interval
<1>3. IsFiniteSet(S) /\ S \in SUBSET Nat BY <1>1, <1>2, FS_Subset
<1>4. Cardinality(S) \in Nat BY <1>3, FS_CardinalityType
<1>5. \A k \in 1 .. Cardinality(S) : Nth(S, k) \in S BY <1>3, NthMeaning
<1>6. \A i \in S : <<i, s[i].inc, s[i].page>> \in Entries
  <2> SUFFICES ASSUME NEW i \in S PROVE <<i, s[i].inc, s[i].page>> \in Entries OBVIOUS
  <2>1. s[i] \in LogRecords BY <1>1, ElementOfSeq
  <2>2. s[i].inc \in Nat /\ s[i].page \in Pages BY <2>1, BoundsAssumption DEF LogRecords
  <2> QED BY <1>3, <2>2 DEF Entries
<1> DEFINE N == Cardinality(S)
           e(k) == <<Nth(S, k), s[Nth(S, k)].inc, s[Nth(S, k)].page>>
<1>7. RecordsAt(s, S) = [k \in 1 .. N |-> e(k)] BY DEF RecordsAt
<1>8. \A k \in 1 .. N : e(k) \in Entries BY <1>5, <1>6
<1> HIDE DEF e
<1>9. RecordsAt(s, S) \in [1 .. N -> Entries] BY <1>7, <1>8
<1>10. RecordsAt(s, S) \in Seq(Entries) /\ Len(RecordsAt(s, S)) = N BY <1>4, <1>9
<1>11. DOMAIN RecordsAt(s, S) = 1 .. N BY <1>7
<1>12. \A k \in 1 .. N : RecordsAt(s, S)[k] = e(k) BY <1>7
<1> QED BY <1>3, <1>4, <1>5, <1>10, <1>11, <1>12 DEF e

\* The records of two parts of the log, one after the other.
LEMMA RecordsAtSplit ==
  ASSUME NEW s \in Seq(LogRecords), NEW S \in SUBSET (DOMAIN s), NEW T \in SUBSET (DOMAIN s),
         \A i \in S, k \in T : i < k
  PROVE  RecordsAt(s, S \cup T) = RecordsAt(s, S) \o RecordsAt(s, T)
<1> DEFINE V == S \cup T
           x == RecordsAt(s, S)
           y == RecordsAt(s, T)
           z == RecordsAt(s, V)
<1>0. V \in SUBSET (DOMAIN s) OBVIOUS
<1>1. /\ IsFiniteSet(S) /\ S \in SUBSET Nat /\ Cardinality(S) \in Nat
      /\ x \in Seq(Entries) /\ Len(x) = Cardinality(S)
      /\ \A k \in 1 .. Cardinality(S) : x[k] = <<Nth(S, k), s[Nth(S, k)].inc, s[Nth(S, k)].page>>
  BY RecordsAtSeq
<1>2. /\ IsFiniteSet(T) /\ T \in SUBSET Nat /\ Cardinality(T) \in Nat
      /\ y \in Seq(Entries) /\ Len(y) = Cardinality(T)
      /\ \A k \in 1 .. Cardinality(T) : y[k] = <<Nth(T, k), s[Nth(T, k)].inc, s[Nth(T, k)].page>>
  BY RecordsAtSeq
<1>3. /\ z \in Seq(Entries) /\ Len(z) = Cardinality(V)
      /\ \A k \in 1 .. Cardinality(V) : z[k] = <<Nth(V, k), s[Nth(V, k)].inc, s[Nth(V, k)].page>>
  BY <1>0, RecordsAtSeq
<1>4. /\ Cardinality(V) = Cardinality(S) + Cardinality(T)
      /\ \A n \in 1 .. Cardinality(S) : Nth(V, n) = Nth(S, n)
      /\ \A n \in 1 .. Cardinality(T) : Nth(V, Cardinality(S) + n) = Nth(T, n)
  BY <1>1, <1>2, NthSplit
<1> HIDE DEF V, x, y, z
<1>5. /\ x \o y \in Seq(Entries) /\ Len(x \o y) = Len(x) + Len(y)
      /\ \A i \in 1 .. Len(x) + Len(y) : (x \o y)[i] = IF i <= Len(x) THEN x[i] ELSE y[i - Len(x)]
  BY <1>1, <1>2, ConcatProperties
<1>6. Len(z) = Len(x \o y) BY <1>1, <1>2, <1>3, <1>4, <1>5
<1>7. ASSUME NEW i \in 1 .. Len(z) PROVE z[i] = (x \o y)[i]
  <2>0. PICK a, b \in Nat : a = Cardinality(S) /\ b = Cardinality(T) BY <1>1, <1>2
  <2>1. i \in 1 .. a + b /\ Len(x) = a /\ Len(y) = b /\ Cardinality(V) = a + b
    BY <1>1, <1>2, <1>3, <1>4, <2>0
  <2>2. CASE i <= a
    <3>1. i \in 1 .. a BY <2>1, <2>2
    <3>2. z[i] = x[i] BY <1>1, <1>3, <1>4, <2>0, <2>1, <3>1
    <3> QED BY <1>5, <2>1, <2>2, <3>2
  <2>3. CASE ~(i <= a)
    <3>1. i - a \in 1 .. b /\ a + (i - a) = i BY <2>1, <2>3
    <3>2. Nth(V, a + (i - a)) = Nth(T, i - a) BY <1>4, <2>0, <3>1
    <3>3. Nth(V, i) = Nth(T, i - a) BY <3>1, <3>2
    <3>4. z[i] = y[i - a] BY <1>2, <1>3, <2>0, <2>1, <3>1, <3>3
    <3> QED BY <1>5, <2>1, <2>3, <3>4
  <2> QED BY <2>2, <2>3
<1> QED BY <1>3, <1>5, <1>6, <1>7, SeqEqual DEF V, x, y, z

\* Logs that agree on some lsns have the same records there.
LEMMA RecordsAtSame ==
  ASSUME NEW s \in Seq(LogRecords), NEW u \in Seq(LogRecords), NEW S \in SUBSET (DOMAIN s),
         S \subseteq DOMAIN u, \A i \in S : s[i] = u[i]
  PROVE  RecordsAt(s, S) = RecordsAt(u, S)
<1>1. \A k \in 1 .. Cardinality(S) : Nth(S, k) \in S BY RecordsAtSeq
<1> DEFINE a(k) == <<Nth(S, k), s[Nth(S, k)].inc, s[Nth(S, k)].page>>
           b(k) == <<Nth(S, k), u[Nth(S, k)].inc, u[Nth(S, k)].page>>
<1>2. \A k \in 1 .. Cardinality(S) : a(k) = b(k) BY <1>1
<1>3. RecordsAt(s, S) = [k \in 1 .. Cardinality(S) |-> a(k)] BY DEF RecordsAt
<1>4. RecordsAt(u, S) = [k \in 1 .. Cardinality(S) |-> b(k)] BY DEF RecordsAt
<1> HIDE DEF a, b
<1> QED BY <1>2, <1>3, <1>4

\* No records.
LEMMA RecordsAtNone ==
  ASSUME NEW s \in Seq(LogRecords), NEW S \in SUBSET (DOMAIN s)
  PROVE  RecordsAt(s, S) = <<>> <=> S = {}
<1>1. RecordsAt(s, S) \in Seq(Entries) /\ Len(RecordsAt(s, S)) = Cardinality(S) /\ IsFiniteSet(S)
  BY RecordsAtSeq
<1>2. RecordsAt(s, S) = <<>> <=> Cardinality(S) = 0 BY <1>1, EmptySeq
<1>3. Cardinality(S) = 0 <=> S = {} BY <1>1, FS_EmptySet
<1> QED BY <1>2, <1>3

-----------------------------------------------------------------------------
(* Mini-transactions, and calls of write_up_to().                          *)

\* A call starts.
LEMMA CallMade ==
  ASSUME RedoInv, HardKept, OnFileKept, log' \in Seq(LogRecords), Len(log') >= Len(log),
         NEW t \in Threads, w[t] = "none",
         NEW where \in {"idle", "ack", "post", "write"}, NEW lsn \in Nat,
         NEW flush \in BOOLEAN, NEW wait \in BOOLEAN, Call(t, where, lsn, flush, wait),
         where = "idle" => t = "background",
         where # "idle" => flush /\ wait /\ lsn <= Len(log') + 1,
         UNCHANGED <<logVars, acked>>
  PROVE  ThreadTypes' /\ LsnTypes' /\ LsnsOK' /\ WritersOK' /\ CallsOK'
<1>0. Len(log) \in Nat /\ Len(log') \in Nat BY LenProperties DEF RedoInv, Types, LogTypes
<1>1. /\ at' = [at EXCEPT ![t] = where] /\ w' = [w EXCEPT ![t] = "enter"]
      /\ arg' = [arg EXCEPT ![t] = [lsn |-> lsn, flush |-> flush, wait |-> wait]]
  BY DEF Call
<1>2. UNCHANGED <<m_written_to_all_lsn, m_flushed_to_disk_lsn, m_write_lsn, m_current_flush_lsn,
                  m_n_pending_writes, acked>>
  BY DEF logVars
<1>3. ThreadTypes' BY <1>1 DEF RedoInv, Types, ThreadTypes, Calls
<1>4. LsnTypes' BY <1>2 DEF RedoInv, Types, LsnTypes
<1>5. \A u \in Threads : /\ w'[u] = (IF u = t THEN "enter" ELSE w[u])
                         /\ u # t => at'[u] = at[u] /\ arg'[u] = arg[u]
  BY <1>1 DEF RedoInv, Types, ThreadTypes
<1>6. at'[t] = where /\ arg'[t] = [lsn |-> lsn, flush |-> flush, wait |-> wait]
  BY <1>1 DEF RedoInv, Types, ThreadTypes
<1>7. LsnsOK'
  <2>1. m_write_lsn - 1 \in Int /\ m_current_flush_lsn - 1 \in Int
        /\ m_flushed_to_disk_lsn - 1 \in Int /\ acked \in Int
    BY DEF RedoInv, Types, LsnTypes
  <2>3. OnFile(m_write_lsn - 1)' /\ OnFile(m_current_flush_lsn - 1)'
    BY <1>2, <2>1 DEF RedoInv, LsnsOK, OnFileKept
  <2>4. Hard(m_flushed_to_disk_lsn - 1)' /\ Hard(acked)'
    BY <1>2, <2>1 DEF RedoInv, LsnsOK, HardKept
  <2>5. (\A u \in Threads : w'[u] # "fsync") => \A u \in Threads : w[u] # "fsync" BY <1>5
  <2>6. (\A u \in Threads : w'[u] # "fsync") => Hard(m_current_flush_lsn - 1)'
    BY <1>2, <2>1, <2>5 DEF RedoInv, LsnsOK, HardKept
  <2> QED BY <2>3, <2>4, <2>6 DEF LsnsOK
<1>8. WritersOK' BY <1>2, <1>5 DEF RedoInv, WritersOK
<1>9. CallsOK'
  <2>1. \A u \in Threads : arg[u].lsn - 1 \in Int /\ arg[u].lsn \in Nat
    BY DEF RedoInv, Types, ThreadTypes, Calls
  <2>2. ASSUME NEW u \in Threads, at'[u] \in Waiting, w'[u] \in {"none", "complete"}
        PROVE  Hard(arg[u].lsn - 1)'
    <3>1. u # t BY <1>5, <2>2
    <3>2. w'[u] = w[u] /\ at'[u] = at[u] /\ arg'[u] = arg[u] BY <1>5, <3>1
    <3>3. Hard(arg[u].lsn - 1) BY <2>2, <3>2 DEF RedoInv, CallsOK
    <3> QED BY <2>1, <3>2, <3>3 DEF HardKept
  <2>3. \A u \in Threads : w'[u] = "joined" /\ arg'[u].flush => arg'[u].lsn <= m_current_flush_lsn'
    BY <1>2, <1>5 DEF RedoInv, CallsOK
  <2>4. ASSUME NEW u \in Threads, at'[u] \in Waiting
        PROVE  arg'[u].flush /\ arg'[u].wait /\ arg'[u].lsn <= m_lsn'
    <3>1. CASE u = t BY <1>6, <2>4, <3>1 DEF Waiting, m_lsn
    <3>2. CASE u # t
      <4>1. arg[u].flush /\ arg[u].wait /\ arg[u].lsn <= Len(log) + 1
        BY <1>5, <2>4, <3>2 DEF RedoInv, CallsOK, m_lsn
      <4>2. arg[u].lsn <= Len(log') + 1 BY <1>0, <2>1, <4>1
      <4> QED BY <1>5, <3>2, <4>1, <4>2 DEF m_lsn
    <3> QED BY <3>1, <3>2
  <2>5. \A u \in Threads : at'[u] \in Waiting /\ w'[u] = "fsync" => arg'[u].lsn <= m_write_lsn'
    BY <1>2, <1>5 DEF RedoInv, CallsOK
  <2>6. \A u \in Threads : u # "background" /\ at'[u] \notin Waiting => w'[u] = "none"
    BY <1>5, <1>6 DEF RedoInv, CallsOK, Waiting
  <2> QED BY <2>2, <2>3, <2>4, <2>5, <2>6 DEF CallsOK
<1> QED BY <1>3, <1>4, <1>7, <1>8, <1>9

\* The flush of pages does not depend on pages that are not flushed.
LEMMA FlushKeptIo ==
  ASSUME PageTypes, PageTypes', FlushOK, HardKept, UNCHANGED <<m_bpages, dbl>>,
         \A p \in Pages : /\ pool'[p].io = pool[p].io
                          /\ pool[p].io # "none" => pool'[p] = pool[p],
         at'["flusher"] = at["flusher"],
         at["flusher"] # "idle" => arg'["flusher"] = arg["flusher"]
  PROVE  FlushOK'
<1>1. \A p \in Pages : pool[p].newest - 1 \in Int BY DEF PageTypes, Blocks
<1>2. ASSUME NEW p \in Pages, pool'[p].io \in {"posted", "write"} PROVE Hard(pool[p].newest - 1)'
  <2>1. pool'[p] = pool[p] /\ Hard(pool[p].newest - 1) BY <1>2 DEF FlushOK
  <2> QED BY <1>1, <2>1 DEF HardKept
<1>3. \A p \in Pages : pool'[p].io = "fixed" =>
       /\ at'["flusher"] = "post" /\ arg'["flusher"].lsn = pool'[p].newest
       /\ \A q \in Pages : pool'[q].io = "fixed" => q = p
  BY DEF FlushOK, Flusher
<1>4. DOMAIN m_bpages = 1 .. Len(m_bpages) /\ \A i \in DOMAIN m_bpages : m_bpages[i] \in Pages
  BY LenProperties DEF PageTypes
<1>5. at["flusher"] # "wait" => \A i \in DOMAIN m_bpages :
        pool'[m_bpages[i]].io = "posted" /\ pool'[m_bpages[i]] = pool[m_bpages[i]]
  BY <1>4 DEF FlushOK, Flusher
<1>6. at["flusher"] = "dbl_sync" => \A i \in DOMAIN m_bpages :
       dbl[i] = [page |-> m_bpages[i], image |-> [lsn |-> pool'[m_bpages[i]].newest,
                                                  recs |-> pool'[m_bpages[i]].recs]]
  BY <1>5 DEF FlushOK, Flusher, FrameImage, Image
<1> QED BY <1>2, <1>3, <1>5, <1>6 DEF FlushOK, Flusher, FrameImage, Image

\* A page after some records are applied has its own and those.
LEMMA AppliedRecords ==
  ASSUME NEW a \in Seq(Entries), NEW s \in Seq(LogRecords), NEW T \in SUBSET (DOMAIN s)
  PROVE  /\ ApplyRecords(a, RecordsAt(s, T)) \in Seq(Entries)
         /\ \A k \in DOMAIN ApplyRecords(a, RecordsAt(s, T)) :
              LET r == ApplyRecords(a, RecordsAt(s, T))[k] IN
              \/ \E j \in DOMAIN a : r = a[j]
              \/ \E i \in T : r = <<i, s[i].inc, s[i].page>>
<1> DEFINE b == RecordsAt(s, T)
<1>1. /\ b \in Seq(Entries) /\ DOMAIN b = 1 .. Len(b)
      /\ \A k \in DOMAIN b : \E i \in T : b[k] = <<i, s[i].inc, s[i].page>>
  BY RecordsAtSeq
<1> HIDE DEF b
<1>2. DOMAIN a = 1 .. Len(a) /\ Len(a) \in Nat /\ Len(b) \in Nat BY <1>1, LenProperties
<1>3. /\ a \o b \in Seq(Entries) /\ Len(a \o b) = Len(a) + Len(b)
      /\ \A i \in 1 .. Len(a) + Len(b) : (a \o b)[i] = IF i <= Len(a) THEN a[i] ELSE b[i - Len(a)]
  BY <1>1, ConcatProperties
<1>4. DOMAIN (a \o b) = 1 .. Len(a) + Len(b) BY <1>3, LenProperties
<1>5. ASSUME NEW k \in 1 .. Len(a) + Len(b)
      PROVE  \/ \E j \in DOMAIN a : (a \o b)[k] = a[j]
             \/ \E i \in T : (a \o b)[k] = <<i, s[i].inc, s[i].page>>
  <2>1. CASE k <= Len(a)
    <3>1. k \in DOMAIN a BY <1>2, <2>1
    <3> QED BY <1>3, <2>1, <3>1
  <2>2. CASE k > Len(a)
    <3>1. k - Len(a) \in 1 .. Len(b) BY <1>2, <2>2
    <3>2. (a \o b)[k] = b[k - Len(a)] BY <1>2, <1>3, <2>2
    <3> QED BY <1>1, <3>1, <3>2
  <2> QED BY <1>2, <2>1, <2>2
<1> QED BY <1>3, <1>4, <1>5 DEF ApplyRecords, b

\* The log after a mini-transaction.
LEMMA CommitLog ==
  ASSUME RedoInv, NEW t, NEW ps \in PageLists, mtr_commit(t, ps),
         UNCHANGED <<fileVars, phase, crashes, lapses>>
  PROVE  /\ LogTypes' /\ LogsOK' /\ HardKept /\ OnFileKept /\ KnownKept
         /\ log' \in Seq(LogRecords) /\ Len(log') = Len(log) + Len(ps)
         /\ Len(ps) \in Nat /\ Len(ps) >= 1
         /\ \A i \in 1 .. Len(log) : log'[i] = log[i]
<1>0. Len(log) \in Nat BY LenProperties DEF RedoInv, Types, LogTypes
<1>1. /\ Len(ps) \in Nat /\ Len(ps) >= 1
      /\ Group(ps) \in Seq(LogRecords) /\ Len(Group(ps)) = Len(ps)
      /\ \A i \in 1 .. Len(ps) : Group(ps)[i].last <=> i = Len(ps)
  BY GroupSeq DEF RedoInv, Types
<1>2. Group(ps)[Len(Group(ps))].last BY <1>1
<1>3. log' = log \o Group(ps) BY DEF mtr_commit, write_low
<1>4. UNCHANGED <<logfile, logdisk>> BY DEF fileVars
<1>5. /\ LogsOK' /\ HardKept /\ OnFileKept /\ KnownKept
      /\ log' \in Seq(LogRecords) /\ Len(log') = Len(log) + Len(ps)
      /\ \A i \in 1 .. Len(log) : log'[i] = log[i]
  BY <1>1, <1>2, <1>3, <1>4, LogExtended DEF RedoInv, Types
<1>6. Len(log) + 1 + Len(ps) <= MaxLsn BY DEF mtr_commit, m_lsn
<1>7. Len(log') < MaxLsn BY <1>0, <1>1, <1>5, <1>6, BoundsAssumption
<1>8. LogTypes' BY <1>4, <1>5, <1>7 DEF RedoInv, Types, LogTypes
<1> QED BY <1>1, <1>5, <1>8

\* The pages a mini-transaction modifies are not being flushed.
LEMMA CommitPool ==
  ASSUME RedoInv, NEW t, NEW ps \in PageLists, mtr_commit(t, ps),
         UNCHANGED <<fileVars, phase, crashes, lapses, m_bpages>>
  PROVE  /\ PageTypes' /\ BlocksOK'
         /\ \A p \in Pages : /\ pool'[p].io = pool[p].io
                             /\ pool[p].io # "none" => pool'[p] = pool[p]
<1>0. Len(log) \in Nat BY LenProperties DEF RedoInv, Types, LogTypes
<1>1. /\ KnownKept /\ log' \in Seq(LogRecords) /\ Len(log') = Len(log) + Len(ps)
      /\ Len(ps) \in Nat /\ Len(ps) >= 1
  BY CommitLog
<1>2. /\ DOMAIN ps = 1 .. Len(ps) /\ DOMAIN Group(ps) = 1 .. Len(ps) /\ Len(Group(ps)) = Len(ps)
      /\ \A i \in 1 .. Len(ps) : Group(ps)[i].page = ps[i]
  BY GroupSeq DEF RedoInv, Types
<1>3. log' = log \o Group(ps) BY DEF mtr_commit, write_low
<1>4. DOMAIN log' = 1 .. Len(log') BY <1>1, LenProperties
<1> DEFINE New(p) == {i \in DOMAIN log' : i >= m_lsn /\ log'[i].page = p}
           Touched(p) == \E i \in DOMAIN Group(ps) : Group(ps)[i].page = p
<1>5. pool' = [p \in Pages |->
        IF Touched(p)
          THEN [recs   |-> ApplyRecords(pool[p].recs, RecordsAt(log', New(p))),
                newest |-> m_lsn + Len(Group(ps)),
                oldest |-> IF pool[p].oldest = Clean THEN m_lsn ELSE pool[p].oldest,
                io     |-> "none"]
          ELSE pool[p]]
  BY <1>3 DEF mtr_commit, NoteModification, Records
<1>6. ASSUME NEW p \in Pages, Touched(p) PROVE pool[p].io = "none"
  BY <1>2, <1>6 DEF mtr_commit
<1> HIDE DEF Touched
<1>7. m_lsn \in Nat /\ m_lsn >= 1 /\ m_lsn = Len(log) + 1 /\ m_lsn' = Len(log') + 1
      /\ m_lsn + Len(Group(ps)) = m_lsn'
  BY <1>0, <1>1, <1>2 DEF m_lsn
<1>8. ASSUME NEW p \in Pages, Touched(p)
      PROVE  /\ pool'[p].recs \in Seq(Entries) /\ pool'[p].newest = m_lsn'
             /\ pool'[p].oldest = IF pool[p].oldest = Clean THEN m_lsn ELSE pool[p].oldest
             /\ pool'[p].io = "none" /\ pool'[p] \in Blocks
             /\ \A k \in DOMAIN pool'[p].recs :
                  Known(pool[p].recs[k])' /\ pool'[p].recs[k][1] < m_lsn'
  <2>1. pool[p].recs \in Seq(Entries) BY DEF RedoInv, Types, PageTypes, Blocks
  <2>2. New(p) \in SUBSET (DOMAIN log') OBVIOUS
  <2> DEFINE r == ApplyRecords(pool[p].recs, RecordsAt(log', New(p)))
  <2>3. /\ r \in Seq(Entries)
        /\ \A k \in DOMAIN r :
             \/ \E j \in DOMAIN pool[p].recs : r[k] = pool[p].recs[j]
             \/ \E i \in New(p) : r[k] = <<i, log'[i].inc, log'[i].page>>
    BY <1>1, <2>1, <2>2, AppliedRecords
  <2>4. pool'[p] = [recs |-> r, newest |-> m_lsn + Len(Group(ps)),
                    oldest |-> IF pool[p].oldest = Clean THEN m_lsn ELSE pool[p].oldest,
                    io     |-> "none"]
    BY <1>5, <1>8
  <2> HIDE DEF r
  <2>5. ASSUME NEW e, \E j \in DOMAIN pool[p].recs : e = pool[p].recs[j]
        PROVE  Known(e)' /\ e[1] < m_lsn'
    <3>1. Known(e) BY <2>5 DEF RedoInv, BlocksOK
    <3>2. Known(e)' BY <1>1, <3>1 DEF KnownKept
    <3>3. e[1] \in DOMAIN log' BY <3>2 DEF Known
    <3> QED BY <1>1, <1>4, <1>7, <3>2, <3>3
  <2>6. ASSUME NEW e, \E i \in New(p) : e = <<i, log'[i].inc, log'[i].page>>
        PROVE  Known(e)' /\ e[1] < m_lsn'
    <3>1. PICK i \in New(p) : e = <<i, log'[i].inc, log'[i].page>> BY <2>6
    <3>2. i \in DOMAIN log' /\ e[1] = i BY <3>1
    <3>3. Known(e)' BY <3>1, <3>2 DEF Known
    <3> QED BY <1>1, <1>4, <1>7, <3>2, <3>3
  <2>7. pool'[p].recs = r BY <2>4
  <2>8. \A k \in DOMAIN pool'[p].recs : Known(pool[p].recs[k])' /\ pool'[p].recs[k][1] < m_lsn'
    <3>1. \A k \in DOMAIN pool'[p].recs :
             \/ \E j \in DOMAIN pool[p].recs : pool'[p].recs[k] = pool[p].recs[j]
             \/ \E i \in New(p) : pool'[p].recs[k] = <<i, log'[i].inc, log'[i].page>>
      BY <2>3, <2>7
    <3>2. \A k \in DOMAIN pool'[p].recs : \A e : e = pool'[p].recs[k] => Known(e)' /\ e[1] < m_lsn'
      BY <2>5, <2>6, <3>1
    <3> QED BY <3>2 DEF Known
  <2>9. pool'[p] \in Blocks
    <3>1. pool[p].oldest \in Nat BY DEF RedoInv, Types, PageTypes, Blocks
    <3> QED BY <1>2, <1>1, <1>7, <2>3, <2>4, <3>1 DEF Blocks
  <2> QED BY <1>7, <2>3, <2>4, <2>7, <2>8, <2>9
<1>9. \A p \in Pages : ~Touched(p) => pool'[p] = pool[p] BY <1>5
<1>10. pool' \in [Pages -> Blocks]
  <2>1. DOMAIN pool' = Pages /\ pool' = [p \in Pages |-> pool'[p]] BY <1>5
  <2>2. ASSUME NEW p \in Pages PROVE pool'[p] \in Blocks
    <3>1. pool[p] \in Blocks BY DEF RedoInv, Types, PageTypes
    <3>3. CASE Touched(p) BY <1>8, <3>3
    <3>4. CASE ~Touched(p) BY <1>9, <3>1, <3>4
    <3> QED BY <3>3, <3>4
  <2> QED BY <2>1, <2>2
<1>11. PageTypes' BY <1>10 DEF RedoInv, Types, PageTypes, fileVars
<1>12. BlocksOK'
  <2>0. \A p \in Pages : pool[p].newest \in Nat /\ pool[p].oldest \in Nat
    BY DEF RedoInv, Types, PageTypes, Blocks
  <2>1. ASSUME NEW p \in Pages
        PROVE  /\ \A k \in DOMAIN pool'[p].recs : Known(pool[p].recs[k])'
               /\ pool'[p].oldest # Clean =>
                    /\ pool'[p].newest >= 1 /\ pool'[p].newest <= m_lsn' /\ pool'[p].oldest < m_lsn'
                    /\ \A k \in DOMAIN pool'[p].recs : pool'[p].recs[k][1] < pool'[p].newest
               /\ pool'[p].newest <= m_lsn'
               /\ pool'[p].io # "none" => pool'[p].oldest # Clean
    <3>1. CASE Touched(p)
      <4>0. /\ pool'[p].oldest = IF pool[p].oldest = Clean THEN m_lsn ELSE pool[p].oldest
            /\ pool'[p].newest = m_lsn' /\ pool'[p].io = "none"
            /\ \A k \in DOMAIN pool'[p].recs :
                 Known(pool[p].recs[k])' /\ pool'[p].recs[k][1] < m_lsn'
        BY <1>8, <3>1
      <4>1. pool'[p].oldest < m_lsn'
        <5>1. CASE pool[p].oldest = Clean BY <1>0, <1>1, <1>7, <4>0, <5>1
        <5>2. CASE pool[p].oldest # Clean
          <6>1. pool[p].oldest < m_lsn BY <5>2 DEF RedoInv, BlocksOK
          <6> QED BY <1>0, <1>1, <1>7, <2>0, <4>0, <5>2, <6>1
        <5> QED BY <5>1, <5>2
      <4>2. m_lsn' \in Nat /\ m_lsn' >= 1 BY <1>0, <1>1, <1>7
      <4> QED BY <4>0, <4>1, <4>2
    <3>2. CASE ~Touched(p)
      <4>1. pool'[p] = pool[p] BY <1>9, <3>2
      <4>2. \A k \in DOMAIN pool'[p].recs : Known(pool[p].recs[k])' BY <1>1, <4>1 DEF RedoInv, BlocksOK, KnownKept
      <4>3. m_lsn <= m_lsn' /\ m_lsn' \in Nat BY <1>0, <1>1, <1>7
      <4>4. pool[p].newest <= m_lsn /\ (pool[p].oldest # Clean => pool[p].oldest < m_lsn)
        BY DEF RedoInv, BlocksOK
      <4>5. pool[p].newest <= m_lsn' /\ (pool[p].oldest # Clean => pool[p].oldest < m_lsn')
        BY <1>7, <2>0, <4>3, <4>4
      <4>6. /\ pool[p].oldest # Clean =>
                 /\ pool[p].newest >= 1
                 /\ \A k \in DOMAIN pool[p].recs : pool[p].recs[k][1] < pool[p].newest
            /\ pool[p].io # "none" => pool[p].oldest # Clean
        BY DEF RedoInv, BlocksOK
      <4> QED BY <4>1, <4>2, <4>5, <4>6
    <3> QED BY <3>1, <3>2
  <2> QED BY <2>1 DEF BlocksOK
<1>13. \A p \in Pages : /\ pool'[p].io = pool[p].io
                        /\ pool[p].io # "none" => pool'[p] = pool[p]
  BY <1>6, <1>8, <1>9
<1> QED BY <1>11, <1>12, <1>13

\* The parts around a mini-transaction.
LEMMA CommitCommon ==
  ASSUME RedoInv, NEW t \in Clients, NEW ps \in PageLists, mtr_commit(t, ps),
         ThreadTypes', LsnTypes', LsnsOK', WritersOK', CallsOK',
         \A u \in Threads : u # t => at'[u] = at[u] /\ arg'[u] = arg[u],
         UNCHANGED <<logVars, ckptVars, m_bpages, fileVars, phase, crashes, acked, lapses>>
  PROVE  RedoInv'
<1>0. "flusher" \in Threads /\ "checkpointer" \in Threads /\ t # "flusher" /\ t # "checkpointer"
  BY ClientsAssumption DEF Threads, Others
<1>1. LogTypes' /\ LogsOK' /\ HardKept /\ OnFileKept /\ KnownKept BY CommitLog
<1>2. /\ PageTypes' /\ BlocksOK'
      /\ \A p \in Pages : pool'[p].io = pool[p].io /\ (pool[p].io # "none" => pool'[p] = pool[p])
  BY CommitPool
<1>3. CheckpointTypes' BY DEF RedoInv, Types, CheckpointTypes, ckptVars, fileVars
<1>4. UNCHANGED <<slots, file, disk, dbl, dbldisk>> BY DEF fileVars
<1>5. CheckpointsOK'
  <2>1. at["checkpointer"] = "write" => arg["checkpointer"].lsn >= 1
    BY DEF RedoInv, CheckpointsOK
  <2> QED BY <1>0, <1>1, <1>4, <2>1, CheckpointsKept DEF RedoInv, Types
<1>6. QuietOK' BY DEF QuietOK, mtr_commit, Running
<1>7. FlushOK' BY <1>0, <1>1, <1>2, <1>4, FlushKeptIo DEF RedoInv, Types
<1>8. ImagesOK' BY <1>1, <1>4, ImagesStay, ImagesKept DEF RedoInv, Types
<1>9. TornOK' BY <1>0, <1>2, <1>4, TornKept DEF RedoInv
<1> QED BY <1>1, <1>2, <1>3, <1>5, <1>6, <1>7, <1>8, <1>9 DEF RedoInv, Types

\* The mini-transactions.
LEMMA MtrCommitStep ==
  ASSUME RedoInv, NEW t \in Clients, NEW ps \in PageLists, MtrCommit(t, ps)
  PROVE  RedoInv'
<1>0. mtr_commit(t, ps) /\ UNCHANGED <<fileVars, phase, crashes, lapses, threadVars, logVars, acked>>
  BY DEF MtrCommit
<1>1. LogTypes' /\ HardKept /\ OnFileKept /\ log' \in Seq(LogRecords) /\ Len(log') >= Len(log)
  <2>1. /\ LogTypes' /\ HardKept /\ OnFileKept /\ log' \in Seq(LogRecords)
        /\ Len(log') = Len(log) + Len(ps) /\ Len(ps) \in Nat
    BY <1>0, CommitLog
  <2>2. Len(log) \in Nat BY LenProperties DEF RedoInv, Types, LogTypes
  <2> QED BY <2>1, <2>2
<1>2. UNCHANGED <<at, w, arg, m_written_to_all_lsn, m_flushed_to_disk_lsn, m_write_lsn, m_current_flush_lsn,
                  m_n_pending_writes, acked>>
  BY <1>0 DEF threadVars, logVars
<1>3. ThreadTypes' /\ LsnTypes' BY <1>2 DEF RedoInv, Types, ThreadTypes, LsnTypes
<1>4. LsnsOK' BY <1>1, <1>2, LsnsKept DEF RedoInv, Types
<1>5. WritersOK' BY <1>2 DEF RedoInv, WritersOK
<1>6. CallsOK' BY <1>1, <1>2, CallsKept DEF RedoInv, Types
<1> QED BY <1>0, <1>2, <1>3, <1>4, <1>5, <1>6, CommitCommon DEF MtrCommit

\* The commits of transactions.
LEMMA TrxCommitStep ==
  ASSUME RedoInv, NEW t \in Clients, NEW ps \in PageLists, TrxCommit(t, ps)
  PROVE  RedoInv'
<1>0. mtr_commit(t, ps) /\ UNCHANGED <<fileVars, phase, crashes, lapses, logVars, acked>>
      /\ Call(t, "ack", Len(log') + 1, TRUE, TRUE)
  BY DEF TrxCommit
<1>1. HardKept /\ OnFileKept /\ log' \in Seq(LogRecords) /\ Len(log') >= Len(log) /\ Len(log') + 1 \in Nat
  <2>1. /\ HardKept /\ OnFileKept /\ log' \in Seq(LogRecords)
        /\ Len(log') = Len(log) + Len(ps) /\ Len(ps) \in Nat
    BY <1>0, CommitLog
  <2>2. Len(log) \in Nat BY LenProperties DEF RedoInv, Types, LogTypes
  <2> QED BY <2>1, <2>2
<1>2. t \in Threads /\ t # "background" BY ClientsAssumption DEF Threads, Others
<1>3. w[t] = "none"
  <2>1. at[t] = "idle" BY <1>0 DEF mtr_commit
  <2> QED BY <1>2, <2>1 DEF RedoInv, CallsOK, Waiting
<1>4. ThreadTypes' /\ LsnTypes' /\ LsnsOK' /\ WritersOK' /\ CallsOK'
  <2>1. Len(log') + 1 <= Len(log') + 1 BY <1>1
  <2> QED BY <1>0, <1>1, <1>2, <1>3, <2>1, CallMade
<1>5. \A u \in Threads : u # t => at'[u] = at[u] /\ arg'[u] = arg[u]
  BY <1>0 DEF Call, RedoInv, Types, ThreadTypes
<1> QED BY <1>0, <1>4, <1>5, CommitCommon DEF TrxCommit

\* A thread that waits for no call goes on.
LEMMA ThreadMoved ==
  ASSUME RedoInv, HardKept, NEW t \in Threads, w[t] = "none",
         NEW x \in {"idle", "dbl_write", "dbl_sync", "wait", "oldest"}, at' = [at EXCEPT ![t] = x],
         arg' = arg \/ arg' = [arg EXCEPT ![t] = NoCall],
         UNCHANGED <<log, logVars, w>>
  PROVE  ThreadTypes' /\ WritersOK' /\ CallsOK'
<1>1. NoCall \in Calls BY DEF NoCall, Calls
<1>2. ThreadTypes' BY <1>1 DEF RedoInv, Types, ThreadTypes
<1>3. UNCHANGED <<m_write_lsn, m_current_flush_lsn, m_n_pending_writes>> BY DEF logVars
<1>4. WritersOK' BY <1>3 DEF RedoInv, WritersOK
<1>5. \A u \in Threads : u # t => at'[u] = at[u] /\ arg'[u] = arg[u] BY DEF RedoInv, Types, ThreadTypes
<1>6. at'[t] = x /\ x \notin Waiting BY DEF RedoInv, Types, ThreadTypes, Waiting
<1>7. CallsOK'
  <2>1. \A u \in Threads : arg[u].lsn - 1 \in Int BY DEF RedoInv, Types, ThreadTypes, Calls
  <2>2. ASSUME NEW u \in Threads, at'[u] \in Waiting, w'[u] \in {"none", "complete"}
        PROVE  Hard(arg[u].lsn - 1)'
    <3>1. u # t BY <1>6, <2>2
    <3>2. at'[u] = at[u] /\ arg'[u] = arg[u] BY <1>5, <3>1
    <3>3. Hard(arg[u].lsn - 1) BY <2>2, <3>2 DEF RedoInv, CallsOK
    <3> QED BY <2>1, <3>2, <3>3 DEF HardKept
  <2>3. \A u \in Threads : w'[u] = "joined" /\ arg'[u].flush => arg'[u].lsn <= m_current_flush_lsn'
    BY <1>3, <1>5 DEF RedoInv, CallsOK
  <2>4. \A u \in Threads : at'[u] \in Waiting => arg'[u].flush /\ arg'[u].wait /\ arg'[u].lsn <= m_lsn'
    BY <1>5, <1>6 DEF RedoInv, CallsOK, m_lsn
  <2>5. \A u \in Threads : at'[u] \in Waiting /\ w'[u] = "fsync" => arg'[u].lsn <= m_write_lsn'
    BY <1>3, <1>5 DEF RedoInv, CallsOK
  <2>6. \A u \in Threads : u # "background" /\ at'[u] \notin Waiting => w'[u] = "none"
    BY <1>5 DEF RedoInv, CallsOK
  <2> QED BY <2>2, <2>3, <2>4, <2>5, <2>6 DEF CallsOK
<1> QED BY <1>2, <1>4, <1>7

\* The parts around a step that leaves the files and the pages alone.
LEMMA CallCommon ==
  ASSUME RedoInv, phase = "up", LsnTypes', ThreadTypes', LsnsOK', WritersOK', CallsOK',
         UNCHANGED <<log, ckptVars, pool, m_bpages, fileVars, phase, crashes>>, lapses \subseteq lapses', lapses' \subseteq Lapses,
         at'["flusher"] = at["flusher"],
         at["flusher"] # "idle" => arg'["flusher"] = arg["flusher"],
         at'["checkpointer"] = "write" => arg'["checkpointer"].lsn >= 1
  PROVE  RedoInv'
<1>0. UNCHANGED <<logfile, logdisk, file, disk, dbl, dbldisk, slots>> BY DEF fileVars
<1>1. LogsOK' /\ HardKept /\ OnFileKept /\ KnownKept BY <1>0, LogsSame DEF RedoInv
<1>2. LogTypes' BY <1>0 DEF RedoInv, Types, LogTypes
<1>3. CheckpointTypes' BY <1>0 DEF RedoInv, Types, CheckpointTypes, ckptVars
<1>4. PageTypes' BY <1>0 DEF RedoInv, Types, PageTypes
<1>5. CheckpointsOK' BY <1>0, <1>1, CheckpointsKept DEF RedoInv, Types
<1>6. QuietOK' BY DEF QuietOK
<1>7. BlocksOK'
  <2>1. log' \in Seq(LogRecords) /\ Len(log') >= Len(log) BY LenProperties DEF RedoInv, Types, LogTypes
  <2> QED BY <1>1, <2>1, BlocksKept DEF RedoInv, Types
<1>8. FlushOK' BY <1>0, <1>1, FlushKept DEF RedoInv, Types
<1>9. ImagesOK' BY <1>0, <1>1, ImagesStay, ImagesKept DEF RedoInv, Types
<1>10. TornOK' BY <1>0, TornKept DEF RedoInv
<1> QED BY <1>1, <1>2, <1>3, <1>4, <1>5, <1>6, <1>7, <1>8, <1>9, <1>10 DEF RedoInv, Types

\* A commit that was waited for is hard.
LEMMA AckStep ==
  ASSUME RedoInv, NEW t \in Clients, Ack(t)
  PROVE  RedoInv' /\ Hard(arg[t].lsn - 1) /\ acked' \in Nat /\ Hard(acked')
<1>0. t \in Threads /\ t \notin Others BY ClientsAssumption DEF Threads
<1>1. /\ at[t] = "ack" /\ w[t] = "none" /\ at' = [at EXCEPT ![t] = "idle"]
      /\ arg' = [arg EXCEPT ![t] = NoCall] /\ acked' = Later(acked, arg[t].lsn - 1)
      /\ UNCHANGED <<log, logVars, ckptVars, pool, m_bpages, fileVars, w, phase, crashes, lapses>>
  BY DEF Ack
<1>2. phase = "up" BY <1>0, <1>1 DEF RedoInv, QuietOK
<1>3. Hard(arg[t].lsn - 1) BY <1>0, <1>1 DEF RedoInv, CallsOK, Waiting
<1>4. arg[t].lsn \in Nat /\ acked \in Nat BY <1>0 DEF RedoInv, Types, ThreadTypes, Calls, LsnTypes
<1>5. acked' \in Nat /\ (acked' = acked \/ acked' = arg[t].lsn - 1) BY <1>1, <1>4 DEF Later
<1>6. Hard(acked') BY <1>3, <1>5 DEF RedoInv, LsnsOK
<1>7. LogsOK' /\ HardKept /\ OnFileKept BY <1>1, LogsSame DEF RedoInv, fileVars
<1>8. ThreadTypes' /\ WritersOK' /\ CallsOK' BY <1>0, <1>1, <1>7, ThreadMoved
<1>9. LsnTypes' BY <1>1, <1>5 DEF RedoInv, Types, LsnTypes, logVars
<1>10. LsnsOK'
  <2>1. m_write_lsn - 1 \in Int /\ m_current_flush_lsn - 1 \in Int /\ m_flushed_to_disk_lsn - 1 \in Int
    BY DEF RedoInv, Types, LsnTypes
  <2>2. UNCHANGED <<m_write_lsn, m_current_flush_lsn, m_flushed_to_disk_lsn, w, logfile, logdisk>>
    BY <1>1 DEF logVars, fileVars
  <2>3. OnFile(m_write_lsn - 1)' /\ OnFile(m_current_flush_lsn - 1)'
    BY <2>2 DEF RedoInv, LsnsOK, OnFile
  <2>4. Hard(m_flushed_to_disk_lsn - 1)' BY <2>2 DEF RedoInv, LsnsOK, Hard
  <2>5. (\A u \in Threads : w'[u] # "fsync") => Hard(m_current_flush_lsn - 1)'
    BY <2>2 DEF RedoInv, LsnsOK, Hard
  <2>6. Hard(acked)' BY <1>6, <2>2 DEF Hard
  <2> QED BY <2>3, <2>4, <2>5, <2>6 DEF LsnsOK
<1>11. "flusher" \in Others /\ "checkpointer" \in Others /\ "flusher" \in Threads /\ "checkpointer" \in Threads
  BY DEF Others, Threads
<1>12. /\ at'["flusher"] = at["flusher"] /\ arg'["flusher"] = arg["flusher"]
       /\ at'["checkpointer"] = at["checkpointer"] /\ arg'["checkpointer"] = arg["checkpointer"]
  BY <1>0, <1>1, <1>11 DEF RedoInv, Types, ThreadTypes
<1>13. at'["checkpointer"] = "write" => arg'["checkpointer"].lsn >= 1
  BY <1>12 DEF RedoInv, CheckpointsOK
<1>14. lapses \subseteq lapses' /\ lapses' \subseteq Lapses BY <1>1 DEF RedoInv, Types, LogTypes
<1>15. RedoInv' BY <1>1, <1>2, <1>8, <1>9, <1>10, <1>12, <1>13, <1>14, CallCommon
<1> QED BY <1>3, <1>5, <1>6, <1>15

\* The writes in the background.
LEMMA WriteInBackgroundStep ==
  ASSUME RedoInv, NEW lsn \in Nat, NEW flush \in BOOLEAN, WriteInBackground(lsn, flush)
  PROVE  RedoInv'
<1>0. "background" \in Threads /\ "flusher" \in Threads /\ "checkpointer" \in Threads
  BY DEF Threads, Others
<1>1. /\ w["background"] = "none" /\ phase = "up" /\ Call("background", "idle", lsn, flush, FALSE)
      /\ UNCHANGED <<log, logVars, ckptVars, pool, m_bpages, fileVars, phase, crashes, acked, lapses>>
  BY DEF WriteInBackground, Running
<1>2. HardKept /\ OnFileKept BY <1>1, LogsSame DEF RedoInv, fileVars
<1>3. log' \in Seq(LogRecords) /\ Len(log') >= Len(log)
  BY <1>1, LenProperties DEF RedoInv, Types, LogTypes
<1>4. ThreadTypes' /\ LsnTypes' /\ LsnsOK' /\ WritersOK' /\ CallsOK'
  BY <1>0, <1>1, <1>2, <1>3, CallMade
<1>5. /\ at'["flusher"] = at["flusher"] /\ arg'["flusher"] = arg["flusher"]
      /\ at'["checkpointer"] = at["checkpointer"] /\ arg'["checkpointer"] = arg["checkpointer"]
  BY <1>0, <1>1 DEF RedoInv, Types, ThreadTypes, Call
<1>6. at'["checkpointer"] = "write" => arg'["checkpointer"].lsn >= 1
  BY <1>5 DEF RedoInv, CheckpointsOK
<1>7. lapses \subseteq lapses' /\ lapses' \subseteq Lapses BY <1>1 DEF RedoInv, Types, LogTypes
<1> QED BY <1>1, <1>4, <1>5, <1>6, <1>7, CallCommon

-----------------------------------------------------------------------------
(* Checkpoints.                                                            *)

\* What buf_pool_get_oldest_modification() returns.
LEMMA OldestMeaning ==
  ASSUME RedoInv
  PROVE  /\ buf_pool_get_oldest_modification \in Nat
         /\ buf_pool_get_oldest_modification >= 1 /\ buf_pool_get_oldest_modification <= m_lsn
         /\ \A p \in Pages : pool[p].oldest # Clean =>
              buf_pool_get_oldest_modification <= pool[p].oldest
<1>0. Len(log) \in Nat /\ m_lsn = Len(log) + 1 /\ m_lsn \in Nat
  BY LenProperties DEF RedoInv, Types, LogTypes, m_lsn
<1>1. \A p \in Pages : pool[p].oldest \in Nat BY DEF RedoInv, Types, PageTypes, Blocks
<1> DEFINE D == {pool[p].oldest : p \in Pages} \ {Clean}
<1>2. D \in SUBSET Nat BY <1>1
<1>3. \A n \in D : n >= 1 /\ n <= m_lsn
  <2>1. ASSUME NEW p \in Pages, pool[p].oldest # Clean PROVE pool[p].oldest >= 1 /\ pool[p].oldest <= m_lsn
    <3>1. pool[p].oldest < m_lsn BY <2>1 DEF RedoInv, BlocksOK
    <3> QED BY <1>0, <1>1, <2>1, <3>1 DEF Clean
  <2> QED BY <2>1
<1>4. \A p \in Pages : pool[p].oldest # Clean => pool[p].oldest \in D OBVIOUS
<1>5. buf_pool_get_oldest_modification =
        IF D = {} THEN m_lsn ELSE CHOOSE l \in D : \A k \in D : l <= k
  BY DEF buf_pool_get_oldest_modification
<1> HIDE DEF D
<1>6. CASE D = {} BY <1>0, <1>4, <1>5, <1>6
<1>7. CASE D # {}
  <2>1. \E n \in D : \A m \in D : n <= m BY <1>2, <1>7, LeastExists
  <2>2. PICK o : o = CHOOSE l \in D : \A k \in D : l <= k OBVIOUS
  <2>3. o \in D /\ \A m \in D : o <= m BY <2>1, <2>2
  <2>4. buf_pool_get_oldest_modification = o BY <1>5, <1>7, <2>2
  <2> QED BY <1>2, <1>3, <1>4, <2>3, <2>4
<1> QED BY <1>6, <1>7

\* A checkpoint asks for the log up to what it will skip.
LEMMA CheckpointOldestStep ==
  ASSUME RedoInv, CheckpointOldest
  PROVE  RedoInv'
<1>0. "flusher" \in Threads /\ "checkpointer" \in Threads BY DEF Threads, Others
<1>1. /\ at["checkpointer"] = "oldest"
      /\ Call("checkpointer", "write", buf_pool_get_oldest_modification, TRUE, TRUE)
      /\ UNCHANGED <<log, logVars, ckptVars, pool, m_bpages, fileVars, phase, crashes, acked>>
      /\ lapses' = lapses \cup {l \in {"checkpoint"} : file # disk}
  BY DEF CheckpointOldest
<1>2. phase = "up" BY <1>0, <1>1 DEF RedoInv, QuietOK
<1>3. HardKept /\ OnFileKept BY <1>1, LogsSame DEF RedoInv, fileVars
<1>4. log' \in Seq(LogRecords) /\ Len(log') >= Len(log)
  BY <1>1, LenProperties DEF RedoInv, Types, LogTypes
<1>5. w["checkpointer"] = "none" BY <1>0, <1>1 DEF RedoInv, CallsOK, Waiting
<1>6. PICK o \in Nat : o = buf_pool_get_oldest_modification /\ o >= 1 /\ o <= Len(log') + 1
  BY <1>1, OldestMeaning DEF m_lsn
<1>7. Call("checkpointer", "write", o, TRUE, TRUE) BY <1>1, <1>6
<1>8. ThreadTypes' /\ LsnTypes' /\ LsnsOK' /\ WritersOK' /\ CallsOK'
  BY <1>0, <1>1, <1>3, <1>4, <1>5, <1>6, <1>7, CallMade
<1>9. /\ at'["flusher"] = at["flusher"] /\ arg'["flusher"] = arg["flusher"]
      /\ arg'["checkpointer"].lsn = o
  BY <1>0, <1>7 DEF RedoInv, Types, ThreadTypes, Call
<1>10. lapses \subseteq lapses' /\ lapses' \subseteq Lapses BY <1>1 DEF RedoInv, Types, LogTypes, Lapses
<1> QED BY <1>1, <1>2, <1>6, <1>8, <1>9, <1>10, CallCommon

\* The parts of a step that leaves the threads alone.
LEMMA ThreadsSame ==
  ASSUME RedoInv, HardKept, OnFileKept, log' \in Seq(LogRecords), Len(log') >= Len(log),
         UNCHANGED <<threadVars, logVars, acked>>
  PROVE  ThreadTypes' /\ LsnTypes' /\ LsnsOK' /\ WritersOK' /\ CallsOK'
<1>1. UNCHANGED <<at, w, arg, m_written_to_all_lsn, m_flushed_to_disk_lsn, m_write_lsn, m_current_flush_lsn,
                  m_n_pending_writes, acked>>
  BY DEF threadVars, logVars
<1>2. ThreadTypes' /\ LsnTypes' BY <1>1 DEF RedoInv, Types, ThreadTypes, LsnTypes
<1>3. LsnsOK' BY <1>1, LsnsKept DEF RedoInv, Types
<1>4. WritersOK' BY <1>1 DEF RedoInv, WritersOK
<1>5. CallsOK' BY <1>1, CallsKept DEF RedoInv, Types
<1> QED BY <1>2, <1>3, <1>4, <1>5

\* The parts of a step of a thread that waits for no call.
LEMMA ThreadStep ==
  ASSUME RedoInv, HardKept, OnFileKept, NEW t \in Threads, w[t] = "none",
         NEW x \in {"idle", "dbl_write", "dbl_sync", "wait", "oldest"}, at' = [at EXCEPT ![t] = x],
         arg' = arg \/ arg' = [arg EXCEPT ![t] = NoCall],
         UNCHANGED <<log, logVars, w, acked>>
  PROVE  ThreadTypes' /\ LsnTypes' /\ LsnsOK' /\ WritersOK' /\ CallsOK'
<1>1. ThreadTypes' /\ WritersOK' /\ CallsOK' BY ThreadMoved
<1>2. UNCHANGED <<m_written_to_all_lsn, m_flushed_to_disk_lsn, m_write_lsn, m_current_flush_lsn,
                  m_n_pending_writes>>
  BY DEF logVars
<1>3. LsnTypes' BY <1>2 DEF RedoInv, Types, LsnTypes
<1>4. LsnsOK' BY <1>2, LsnsKept DEF RedoInv, Types
<1> QED BY <1>1, <1>3, <1>4

\* fsync of the data files.
LEMMA FilesSynced ==
  ASSUME RedoInv, phase = "up", SyncFiles, UNCHANGED <<file, dbl, pool, phase>>, ImageKept,
         lapses \subseteq lapses',
         "early_return" \notin lapses' => \A p \in Pages : pool[p].io = "write" => at'["flusher"] = "wait"
  PROVE  ImagesOK' /\ TornOK'
<1>1. disk' = file /\ dbldisk' = dbl BY DEF SyncFiles
<1>2. \A p \in Pages : file[p] \in Images BY DEF RedoInv, Types, PageTypes
<1>3. \A i \in 1 .. DblSize : dbl[i].image \in Images BY DEF RedoInv, Types, PageTypes, Copies
<1>4. ImagesOK' BY <1>1, <1>2, <1>3 DEF RedoInv, ImagesOK, ImageKept
<1>5. TornOK'
  <2> SUFFICES ASSUME "early_return" \notin lapses' PROVE TornOK' BY DEF TornOK
  <2>1. "early_return" \notin lapses OBVIOUS
  <2>2. \A p \in Pages : file[p] # Torn BY <2>1 DEF RedoInv, TornOK
  <2>3. \A p \in Pages : Exposed(p)' => Exposed(p) BY <1>1, <2>2 DEF Exposed
  <2>4. \A p \in Pages : GoodCopy(p) => GoodCopy(p)' BY <1>1 DEF GoodCopy
  <2> QED BY <1>1, <2>1, <2>2, <2>3, <2>4 DEF RedoInv, TornOK, Flusher
<1> QED BY <1>4, <1>5

\* A checkpoint starts with the sync of the data files.
LEMMA CheckpointSyncStep ==
  ASSUME RedoInv, CheckpointSync
  PROVE  RedoInv'
<1>0. "flusher" \in Threads /\ "checkpointer" \in Threads BY DEF Threads, Others
<1>1. /\ phase = "up" /\ at["checkpointer"] = "idle" /\ SyncFiles
      /\ at' = [at EXCEPT !["checkpointer"] = "oldest"]
      /\ UNCHANGED <<log, logVars, ckptVars, pool, m_bpages, logfile, logdisk,
                     file, dbl, slots, w, arg, phase, crashes, acked, lapses>>
  BY DEF CheckpointSync, Running
<1>2. LogsOK' /\ HardKept /\ OnFileKept /\ KnownKept BY <1>1, LogsSame DEF RedoInv
<1>3. LogTypes' BY <1>1 DEF RedoInv, Types, LogTypes
<1>4. w["checkpointer"] = "none" BY <1>0, <1>1 DEF RedoInv, CallsOK, Waiting
<1>5. ThreadTypes' /\ LsnTypes' /\ LsnsOK' /\ WritersOK' /\ CallsOK' BY <1>0, <1>1, <1>2, <1>4, ThreadStep
<1>6. at'["checkpointer"] = "oldest" /\ at'["flusher"] = at["flusher"]
  BY <1>0, <1>1 DEF RedoInv, Types, ThreadTypes
<1>7. CheckpointTypes' BY <1>1 DEF RedoInv, Types, CheckpointTypes, ckptVars
<1>8. PageTypes' BY <1>1 DEF RedoInv, Types, PageTypes, SyncFiles
<1>9. CheckpointsOK' BY <1>1, <1>2, <1>6, CheckpointsKept DEF RedoInv, Types
<1>10. QuietOK' BY <1>1 DEF QuietOK
<1>11. BlocksOK'
  <2>1. log' \in Seq(LogRecords) /\ Len(log') >= Len(log) BY <1>1, LenProperties DEF RedoInv, Types, LogTypes
  <2> QED BY <1>1, <1>2, <2>1, BlocksKept DEF RedoInv, Types
<1>12. FlushOK' BY <1>1, <1>2, <1>6, FlushKept DEF RedoInv, Types
<1>13. ImagesOK' /\ TornOK'
  <2>1. "early_return" \notin lapses' => \A p \in Pages : pool[p].io = "write" => at'["flusher"] = "wait"
    BY <1>1, <1>6 DEF RedoInv, TornOK, Flusher
  <2> QED BY <1>1, <1>2, <2>1, ImagesStay, FilesSynced
<1> QED BY <1>2, <1>3, <1>5, <1>7, <1>8, <1>9, <1>10, <1>11, <1>12, <1>13 DEF RedoInv, Types

\* A checkpoint is written only up to a hard lsn.
LEMMA CheckpointWriteStep ==
  ASSUME RedoInv, CheckpointWrite
  PROVE  RedoInv'
<1>0. "flusher" \in Threads /\ "checkpointer" \in Threads BY DEF Threads, Others
<1> DEFINE l == arg["checkpointer"].lsn
<1>1. /\ at["checkpointer"] = "write" /\ w["checkpointer"] = "none"
      /\ \/ UNCHANGED <<m_next_checkpoint_lsn, m_n_pending_checkpoint_writes>>
         \/ m_next_checkpoint_lsn' = l /\ m_n_pending_checkpoint_writes' = 1
      /\ at' = [at EXCEPT !["checkpointer"] = "idle"]
      /\ arg' = [arg EXCEPT !["checkpointer"] = NoCall]
      /\ UNCHANGED <<log, logVars, m_next_checkpoint_no, m_last_checkpoint_lsn,
                     pool, m_bpages, fileVars, w, phase, crashes, acked, lapses>>
  BY DEF CheckpointWrite
<1>2. phase = "up" BY <1>0, <1>1 DEF RedoInv, QuietOK
<1>3. UNCHANGED <<logfile, logdisk, file, disk, dbl, dbldisk, slots>> BY <1>1 DEF fileVars
<1>4. LogsOK' /\ HardKept /\ OnFileKept /\ KnownKept BY <1>1, <1>3, LogsSame DEF RedoInv
<1>5. LogTypes' BY <1>1, <1>3 DEF RedoInv, Types, LogTypes
<1>6. ThreadTypes' /\ LsnTypes' /\ LsnsOK' /\ WritersOK' /\ CallsOK' BY <1>0, <1>1, <1>4, ThreadStep
<1>7. l \in Nat /\ l - 1 \in Int BY <1>0 DEF RedoInv, Types, ThreadTypes, Calls
<1>8. l >= 1 /\ Hard(l - 1) BY <1>0, <1>1 DEF RedoInv, CheckpointsOK, CallsOK, Waiting
<1>9. /\ at'["checkpointer"] = "idle" /\ at'["flusher"] = at["flusher"]
      /\ arg'["flusher"] = arg["flusher"]
  BY <1>0, <1>1 DEF RedoInv, Types, ThreadTypes
<1>10. CheckpointTypes' BY <1>1, <1>3, <1>7 DEF RedoInv, Types, CheckpointTypes
<1>11. PageTypes' BY <1>1, <1>3 DEF RedoInv, Types, PageTypes
<1>12. CheckpointsOK'
  <2>1. \A i \in {0, 1} : slots[i].lsn - 1 \in Int BY DEF RedoInv, Types, CheckpointTypes
  <2>2. m_next_checkpoint_lsn - 1 \in Int BY DEF RedoInv, Types, CheckpointTypes
  <2>3. \A i \in {0, 1} : slots[i] = BadSlot \/
          /\ slots[i].no \in Nat /\ slots[i].no % 2 = i
          /\ slots[i].lsn >= 1 /\ Hard(slots[i].lsn - 1)'
    BY <1>3, <1>4, <2>1 DEF RedoInv, CheckpointsOK, HardKept
  <2>4. ASSUME m_n_pending_checkpoint_writes' = 1
        PROVE  m_next_checkpoint_lsn' >= 1 /\ Hard(m_next_checkpoint_lsn - 1)'
    <3>1. CASE UNCHANGED <<m_next_checkpoint_lsn, m_n_pending_checkpoint_writes>>
      BY <1>4, <2>2, <2>4, <3>1 DEF RedoInv, CheckpointsOK, HardKept
    <3>2. CASE m_next_checkpoint_lsn' = l
      BY <1>4, <1>7, <1>8, <3>2 DEF HardKept, Hard
    <3> QED BY <1>1, <3>1, <3>2
  <2>5. slots[0] # BadSlot \/ slots[1] # BadSlot BY DEF RedoInv, CheckpointsOK
  <2>6. slots[(m_next_checkpoint_no + 1) % 2] # BadSlot BY <1>2 DEF RedoInv, CheckpointsOK
  <2> QED BY <1>1, <1>2, <1>3, <1>9, <2>3, <2>4, <2>5, <2>6 DEF CheckpointsOK
<1>13. QuietOK' BY <1>1, <1>2 DEF QuietOK
<1>14. BlocksOK'
  <2>1. log' \in Seq(LogRecords) /\ Len(log') >= Len(log) BY <1>1, LenProperties DEF RedoInv, Types, LogTypes
  <2> QED BY <1>1, <1>4, <2>1, BlocksKept DEF RedoInv, Types
<1>15. FlushOK' BY <1>1, <1>3, <1>4, <1>9, FlushKept DEF RedoInv, Types
<1>16. ImagesOK' BY <1>3, <1>4, ImagesStay, ImagesKept DEF RedoInv, Types
<1>17. TornOK' BY <1>1, <1>3, <1>9, TornKept DEF RedoInv
<1> QED BY <1>4, <1>5, <1>6, <1>10, <1>11, <1>12, <1>13, <1>14, <1>15, <1>16, <1>17 DEF RedoInv, Types

\* The place a checkpoint is written to holds no newer one.
LEMMA CheckpointIoCompleteStep ==
  ASSUME RedoInv, CheckpointIoComplete
  PROVE  RedoInv'
<1>1. /\ m_n_pending_checkpoint_writes = 1
      /\ slots' = [slots EXCEPT ![m_next_checkpoint_no % 2] =
                     [no |-> m_next_checkpoint_no, lsn |-> m_next_checkpoint_lsn]]
      /\ logdisk' = logfile /\ m_n_pending_checkpoint_writes' = 0
      /\ m_next_checkpoint_no' = m_next_checkpoint_no + 1
      /\ m_last_checkpoint_lsn' = m_next_checkpoint_lsn
      /\ UNCHANGED <<log, logVars, m_next_checkpoint_lsn, pool, m_bpages, logfile,
                     file, disk, dbl, dbldisk, threadVars, phase, crashes, acked, lapses>>
  BY DEF CheckpointIoComplete, WriteSlot, NewCheckpoint
<1>2. LogsOK' /\ HardKept /\ OnFileKept /\ KnownKept BY <1>1, LogsSynced DEF RedoInv, Types
<1>3. LogTypes' BY <1>1 DEF RedoInv, Types, LogTypes
<1>4. log' \in Seq(LogRecords) /\ Len(log') >= Len(log) BY <1>1, LenProperties DEF RedoInv, Types, LogTypes
<1>5. ThreadTypes' /\ LsnTypes' /\ LsnsOK' /\ WritersOK' /\ CallsOK' BY <1>1, <1>2, <1>4, ThreadsSame
<1>6. UNCHANGED <<at, arg, w>> BY <1>1 DEF threadVars
<1>7. PICK n \in Nat : n = m_next_checkpoint_no BY DEF RedoInv, Types, CheckpointTypes
<1>8. PICK c \in Nat : c = m_next_checkpoint_lsn /\ c >= 1 /\ Hard(c - 1) /\ c - 1 \in Int
  BY <1>1 DEF RedoInv, Types, CheckpointTypes, CheckpointsOK
<1>9. Hard(c - 1)' BY <1>2, <1>8 DEF HardKept
<1>10. n % 2 \in {0, 1} /\ (n + 1) % 2 \in {0, 1} /\ (n + 1) % 2 # n % 2 /\ (n + 1 + 1) % 2 = n % 2
  BY <1>7
<1>11. slots \in [{0, 1} -> [no: Int, lsn: Nat]] BY DEF RedoInv, Types, CheckpointTypes
<1>12. slots' = [slots EXCEPT ![n % 2] = [no |-> n, lsn |-> c]] BY <1>1, <1>7, <1>8
<1>13. slots'[n % 2] = [no |-> n, lsn |-> c] /\ \A i \in {0, 1} : i # n % 2 => slots'[i] = slots[i]
  BY <1>10, <1>11, <1>12
<1>14. CheckpointTypes'
  <2>1. [no |-> n, lsn |-> c] \in [no: Int, lsn: Nat] OBVIOUS
  <2>2. slots' \in [{0, 1} -> [no: Int, lsn: Nat]] BY <1>11, <1>12, <2>1
  <2> QED BY <1>1, <1>7, <1>8, <2>2 DEF RedoInv, Types, CheckpointTypes
<1>15. slots'[n % 2] # BadSlot
  <2>1. BadSlot.no = -1 BY DEF BadSlot
  <2>2. slots'[n % 2].no = n BY <1>13
  <2> QED BY <2>1, <2>2
<1>16. phase \in {"up", "synchronize"} BY <1>1 DEF RedoInv, CheckpointsOK
<1>17. slots'[(n + 1) % 2] # BadSlot
  <2>1. slots[(n + 1) % 2] # BadSlot BY <1>7, <1>16 DEF RedoInv, CheckpointsOK
  <2> QED BY <1>10, <1>13, <2>1
<1>18. CheckpointsOK'
  <2>1. ASSUME NEW i \in {0, 1}
        PROVE  slots'[i] = BadSlot \/ /\ slots'[i].no \in Nat /\ slots'[i].no % 2 = i
                                      /\ slots'[i].lsn >= 1 /\ Hard(slots[i].lsn - 1)'
    <3>1. CASE i = n % 2
      <4>1. slots'[i].no = n /\ slots'[i].lsn = c BY <1>13, <3>1
      <4>2. Hard(slots[i].lsn - 1)' BY <1>9, <4>1 DEF Hard
      <4> QED BY <1>8, <3>1, <4>1, <4>2
    <3>2. CASE i # n % 2
      <4>1. slots'[i] = slots[i] BY <1>13, <3>2
      <4>2. slots[i].lsn - 1 \in Int BY <1>11
      <4>3. slots[i] = BadSlot \/ /\ slots[i].no \in Nat /\ slots[i].no % 2 = i
                                  /\ slots[i].lsn >= 1 /\ Hard(slots[i].lsn - 1)
        BY DEF RedoInv, CheckpointsOK
      <4> QED BY <1>2, <4>1, <4>2, <4>3 DEF HardKept
    <3> QED BY <3>1, <3>2
  <2>2. slots'[0] # BadSlot \/ slots'[1] # BadSlot BY <1>10, <1>15
  <2>3. m_next_checkpoint_no' = n + 1 BY <1>1, <1>7
  <2>4. slots'[(m_next_checkpoint_no' + 1) % 2] # BadSlot BY <1>10, <1>15, <2>3
  <2>5. slots'[m_next_checkpoint_no' % 2] # BadSlot /\ m_next_checkpoint_no' >= 1 BY <1>17, <2>3
  <2>6. at'["checkpointer"] = "write" => arg'["checkpointer"].lsn >= 1
    BY <1>6 DEF RedoInv, CheckpointsOK
  <2>7. m_n_pending_checkpoint_writes' # 1 BY <1>1
  <2> QED BY <2>1, <2>2, <2>4, <2>5, <2>6, <2>7 DEF CheckpointsOK
<1>19. PageTypes' BY <1>1 DEF RedoInv, Types, PageTypes
<1>20. QuietOK' BY <1>1, <1>6 DEF RedoInv, QuietOK, logVars
<1>21. BlocksOK' BY <1>1, <1>2, <1>4, BlocksKept DEF RedoInv, Types
<1>22. FlushOK' BY <1>1, <1>2, <1>6, FlushKept DEF RedoInv, Types
<1>23. ImagesOK' BY <1>1, <1>2, ImagesStay, ImagesKept DEF RedoInv, Types
<1>24. TornOK' BY <1>1, <1>6, TornKept DEF RedoInv
<1> QED BY <1>2, <1>3, <1>5, <1>14, <1>18, <1>19, <1>20, <1>21, <1>22, <1>23, <1>24 DEF RedoInv, Types

-----------------------------------------------------------------------------
(* The flush of pages.                                                     *)

\* The parts around a step of the flush that leaves the log alone.
LEMMA FlushCommon ==
  ASSUME RedoInv, phase = "up", PageTypes', ThreadTypes', LsnTypes', LsnsOK', WritersOK', CallsOK',
         UNCHANGED <<log, ckptVars, logfile, logdisk, slots, phase, crashes>>,
         lapses' \in {lapses, lapses \cup {"early_return"}},
         at'["checkpointer"] = at["checkpointer"], arg'["checkpointer"] = arg["checkpointer"],
         BlocksOK', FlushOK', ImagesOK', TornOK'
  PROVE  RedoInv'
<1>1. LogsOK' /\ HardKept BY LogsSame DEF RedoInv
<1>2. LogTypes' BY DEF RedoInv, Types, LogTypes, Lapses
<1>3. CheckpointTypes' BY DEF RedoInv, Types, CheckpointTypes, ckptVars
<1>4. at'["checkpointer"] = "write" => arg'["checkpointer"].lsn >= 1
  BY DEF RedoInv, CheckpointsOK
<1>5. CheckpointsOK' BY <1>1, <1>4, CheckpointsKept DEF RedoInv, Types
<1>6. QuietOK' BY DEF QuietOK
<1> QED BY <1>1, <1>2, <1>3, <1>5, <1>6 DEF RedoInv, Types

\* What is written of a page in the flush list is covered by the log.
LEMMA FrameImageOK ==
  ASSUME RedoInv, NEW p \in Pages, pool[p].io \in {"posted", "write"}
  PROVE  FrameImage(p) \in Images /\ FrameImage(p) # Torn /\ ImageOK(FrameImage(p))
<1>1. pool[p] \in Blocks /\ pool[p].newest \in Nat /\ pool[p].recs \in Seq(Entries)
  BY DEF RedoInv, Types, PageTypes, Blocks
<1>2. pool[p].oldest # Clean BY DEF RedoInv, BlocksOK
<1>3. pool[p].newest >= 1 /\ \A k \in DOMAIN pool[p].recs :
        Known(pool[p].recs[k]) /\ pool[p].recs[k][1] < pool[p].newest
  BY <1>2 DEF RedoInv, BlocksOK
<1>4. Hard(pool[p].newest - 1) BY DEF RedoInv, FlushOK
<1>5. FrameImage(p) = [lsn |-> pool[p].newest, recs |-> pool[p].recs] BY DEF FrameImage, Image
<1>6. FrameImage(p).lsn = pool[p].newest /\ FrameImage(p).recs = pool[p].recs BY <1>5
<1>7. FrameImage(p) \in Images BY <1>1, <1>5 DEF Images
<1>8. FrameImage(p) # Torn
  <2>1. Torn.lsn = 0 BY DEF Torn
  <2> QED BY <1>1, <1>3, <1>6, <2>1
<1>9. ImageOK(FrameImage(p)) BY <1>3, <1>4, <1>6 DEF ImageOK
<1> QED BY <1>7, <1>8, <1>9

\* Steps that only change what is done with a page.
LEMMA IoChanged ==
  ASSUME RedoInv, NEW ps \in SUBSET Pages, NEW x \in {"none", "fixed", "posted", "write"}, SetIo(ps, x),
         \A p \in ps : pool[p].oldest # Clean, UNCHANGED log
  PROVE  /\ pool' \in [Pages -> Blocks] /\ BlocksOK'
         /\ \A p \in Pages :
              /\ pool'[p].recs = pool[p].recs /\ pool'[p].newest = pool[p].newest
              /\ pool'[p].oldest = pool[p].oldest
              /\ pool'[p].io = IF p \in ps THEN x ELSE pool[p].io
<1>0. pool \in [Pages -> Blocks] BY DEF RedoInv, Types, PageTypes
<1>1. pool' = [p \in Pages |-> IF p \in ps THEN [pool[p] EXCEPT !.io = x] ELSE pool[p]]
  BY DEF SetIo
<1>2. ASSUME NEW p \in Pages
      PROVE  /\ pool'[p] \in Blocks
             /\ pool'[p].recs = pool[p].recs /\ pool'[p].newest = pool[p].newest
             /\ pool'[p].oldest = pool[p].oldest
             /\ pool'[p].io = IF p \in ps THEN x ELSE pool[p].io
  <2>1. pool[p] \in Blocks BY <1>0
  <2>2. CASE p \in ps
    <3>1. pool'[p] = [pool[p] EXCEPT !.io = x] BY <1>1, <2>2
    <3> QED BY <2>1, <2>2, <3>1 DEF Blocks
  <2>3. CASE p \notin ps BY <1>1, <2>1, <2>3
  <2> QED BY <2>2, <2>3
<1>3. pool' \in [Pages -> Blocks]
  <2>1. DOMAIN pool' = Pages /\ pool' = [p \in Pages |-> pool'[p]] BY <1>1
  <2> QED BY <1>2, <2>1
<1>4. \A p \in Pages : \A k \in DOMAIN pool'[p].recs : Known(pool[p].recs[k])'
  BY <1>2 DEF RedoInv, BlocksOK, Known
<1>5. \A p \in Pages : pool'[p].oldest # Clean =>
       /\ pool'[p].newest >= 1 /\ pool'[p].newest <= m_lsn' /\ pool'[p].oldest < m_lsn'
       /\ \A k \in DOMAIN pool'[p].recs : pool'[p].recs[k][1] < pool'[p].newest
  BY <1>2 DEF RedoInv, BlocksOK, m_lsn
<1>6. \A p \in Pages : pool'[p].newest <= m_lsn' BY <1>2 DEF RedoInv, BlocksOK, m_lsn
<1>7. \A p \in Pages : pool'[p].io # "none" => pool'[p].oldest # Clean BY <1>2 DEF RedoInv, BlocksOK
<1>8. BlocksOK' BY <1>4, <1>5, <1>6, <1>7 DEF BlocksOK
<1> QED BY <1>2, <1>3, <1>8

\* Buf_flush::page() asks for the log up to the page's newest modification.
LEMMA FlushPageStep ==
  ASSUME RedoInv, NEW p \in Pages, FlushPage(p)
  PROVE  RedoInv'
<1>0. "flusher" \in Threads /\ "checkpointer" \in Threads BY DEF Threads, Others
<1>1. /\ phase = "up" /\ at["flusher"] = "idle" /\ Len(m_bpages) < DblSize
      /\ pool[p].oldest # Clean /\ pool[p].io = "none" /\ SetIo({p}, "fixed")
      /\ Call("flusher", "post", pool[p].newest, TRUE, TRUE)
      /\ UNCHANGED <<log, logVars, ckptVars, m_bpages, fileVars, phase, crashes, acked, lapses>>
  BY DEF FlushPage, Running
<1>2. UNCHANGED <<logfile, logdisk, file, disk, dbl, dbldisk, slots>> BY <1>1 DEF fileVars
<1>3. LogsOK' /\ HardKept /\ OnFileKept /\ KnownKept BY <1>1, <1>2, LogsSame DEF RedoInv
<1>4. log' \in Seq(LogRecords) /\ Len(log') >= Len(log) BY <1>1, LenProperties DEF RedoInv, Types, LogTypes
<1>5. w["flusher"] = "none" BY <1>0, <1>1 DEF RedoInv, CallsOK, Waiting
<1>6. PICK n \in Nat : n = pool[p].newest /\ n <= Len(log') + 1
  BY <1>1 DEF RedoInv, Types, PageTypes, Blocks, BlocksOK, m_lsn
<1>7. Call("flusher", "post", n, TRUE, TRUE) BY <1>1, <1>6
<1>8. ThreadTypes' /\ LsnTypes' /\ LsnsOK' /\ WritersOK' /\ CallsOK'
  BY <1>0, <1>1, <1>3, <1>4, <1>5, <1>6, <1>7, CallMade
<1>9. /\ at'["flusher"] = "post" /\ arg'["flusher"].lsn = n
      /\ at'["checkpointer"] = at["checkpointer"] /\ arg'["checkpointer"] = arg["checkpointer"]
  BY <1>0, <1>7 DEF RedoInv, Types, ThreadTypes, Call
<1>10. /\ pool' \in [Pages -> Blocks] /\ BlocksOK'
       /\ \A q \in Pages :
            /\ pool'[q].recs = pool[q].recs /\ pool'[q].newest = pool[q].newest
            /\ pool'[q].io = IF q = p THEN "fixed" ELSE pool[q].io
  BY <1>1, IoChanged
<1>11. PageTypes' BY <1>1, <1>2, <1>10 DEF RedoInv, Types, PageTypes
<1>12. FlushOK'
  <2>1. \A q \in Pages : pool[q].io # "fixed" BY <1>1 DEF RedoInv, FlushOK, Flusher
  <2>2. \A q \in Pages : pool'[q].io = "fixed" => q = p BY <1>10, <2>1
  <2>3. \A q \in Pages : pool'[q].io \in {"posted", "write"} => Hard(pool[q].newest - 1)'
    <3> SUFFICES ASSUME NEW q \in Pages, pool'[q].io \in {"posted", "write"} PROVE Hard(pool[q].newest - 1)'
      OBVIOUS
    <3>1. pool[q].newest - 1 \in Int BY DEF RedoInv, Types, PageTypes, Blocks
    <3>2. Hard(pool[q].newest - 1) BY <1>10 DEF RedoInv, FlushOK
    <3> QED BY <1>3, <1>10, <3>1, <3>2 DEF HardKept, Hard
  <2>4. \A q \in Pages : pool'[q].io = "posted" => \E i \in DOMAIN m_bpages : m_bpages[i] = q
    BY <1>10 DEF RedoInv, FlushOK
  <2>6. \A i \in DOMAIN m_bpages : pool'[m_bpages[i]].io = "posted"
    <3>1. \A i \in DOMAIN m_bpages : m_bpages[i] \in Pages BY LenProperties DEF RedoInv, Types, PageTypes
    <3>2. \A i \in DOMAIN m_bpages : pool[m_bpages[i]].io = "posted" BY <1>1 DEF RedoInv, FlushOK, Flusher
    <3> QED BY <1>1, <1>10, <3>1, <3>2
  <2> QED BY <1>1, <1>6, <1>9, <1>10, <2>2, <2>3, <2>4, <2>6 DEF FlushOK, Flusher
<1>13. ImagesOK' BY <1>2, <1>3, ImagesStay, ImagesKept DEF RedoInv, Types
<1>14. TornOK' BY <1>1, <1>2, <1>9, <1>10, TornKept DEF RedoInv
<1> QED BY <1>1, <1>2, <1>8, <1>9, <1>10, <1>11, <1>12, <1>13, <1>14, FlushCommon

\* The page is posted when the log is hard up to its newest modification.
LEMMA PostPageStep ==
  ASSUME RedoInv, NEW p \in Pages, PostPage(p)
  PROVE  RedoInv'
<1>0. "flusher" \in Threads /\ "checkpointer" \in Threads BY DEF Threads, Others
<1>1. /\ at["flusher"] = "post" /\ w["flusher"] = "none" /\ pool[p].io = "fixed"
      /\ m_bpages' = Append(m_bpages, p) /\ SetIo({p}, "posted")
      /\ at' = [at EXCEPT !["flusher"] = IF Len(m_bpages') = DblSize THEN "dbl_write" ELSE "idle"]
      /\ arg' = [arg EXCEPT !["flusher"] = NoCall]
      /\ UNCHANGED <<log, logVars, ckptVars, fileVars, w, phase, crashes, acked, lapses>>
  BY DEF PostPage
<1>2. UNCHANGED <<logfile, logdisk, file, disk, dbl, dbldisk, slots>> BY <1>1 DEF fileVars
<1>3. LogsOK' /\ HardKept /\ OnFileKept /\ KnownKept BY <1>1, <1>2, LogsSame DEF RedoInv
<1>4. phase = "up" BY <1>0, <1>1 DEF RedoInv, QuietOK
<1>5. PICK x \in {"dbl_write", "idle"} : at' = [at EXCEPT !["flusher"] = x] BY <1>1
<1>6. ThreadTypes' /\ LsnTypes' /\ LsnsOK' /\ WritersOK' /\ CallsOK'
  BY <1>0, <1>1, <1>3, <1>5, ThreadStep
<1>7. /\ at'["flusher"] \in {"dbl_write", "idle"}
      /\ at'["checkpointer"] = at["checkpointer"] /\ arg'["checkpointer"] = arg["checkpointer"]
  BY <1>0, <1>1, <1>5 DEF RedoInv, Types, ThreadTypes
<1>8. pool[p].oldest # Clean BY <1>1 DEF RedoInv, BlocksOK
<1>9. /\ pool' \in [Pages -> Blocks] /\ BlocksOK'
      /\ \A q \in Pages :
           /\ pool'[q].recs = pool[q].recs /\ pool'[q].newest = pool[q].newest
           /\ pool'[q].io = IF q = p THEN "posted" ELSE pool[q].io
  BY <1>1, <1>8, IoChanged
<1>10. m_bpages \in Seq(Pages) /\ Len(m_bpages) < DblSize /\ DblSize \in Nat /\ Len(m_bpages) \in Nat
  BY <1>1, DblSizeAssumption, LenProperties DEF RedoInv, Types, PageTypes, FlushOK, Flusher
<1>11. /\ m_bpages' \in Seq(Pages) /\ Len(m_bpages') = Len(m_bpages) + 1
       /\ DOMAIN m_bpages = 1 .. Len(m_bpages) /\ DOMAIN m_bpages' = 1 .. Len(m_bpages) + 1
       /\ \A i \in 1 .. Len(m_bpages) : m_bpages'[i] = m_bpages[i]
       /\ m_bpages'[Len(m_bpages) + 1] = p
  BY <1>1, <1>10, AppendProperties, LenProperties
<1>12. PageTypes' BY <1>2, <1>9, <1>10, <1>11 DEF RedoInv, Types, PageTypes
<1>13. FlushOK'
  <2>1. \A q \in Pages : pool'[q].io # "fixed" BY <1>1, <1>9 DEF RedoInv, FlushOK
  <2>2. ASSUME NEW q \in Pages, pool'[q].io \in {"posted", "write"} PROVE Hard(pool[q].newest - 1)'
    <3>1. pool[q].newest - 1 \in Int BY DEF RedoInv, Types, PageTypes, Blocks
    <3>2. Hard(pool[q].newest - 1)
      <4>1. CASE q = p
        <5>1. arg["flusher"].lsn = pool[p].newest BY <1>1 DEF RedoInv, FlushOK
        <5>2. Hard(arg["flusher"].lsn - 1) BY <1>0, <1>1 DEF RedoInv, CallsOK, Waiting
        <5> QED BY <4>1, <5>1, <5>2
      <4>2. CASE q # p BY <1>9, <2>2, <4>2 DEF RedoInv, FlushOK
      <4> QED BY <4>1, <4>2
    <3> QED BY <1>3, <1>9, <3>1, <3>2 DEF HardKept, Hard
  <2>3. ASSUME NEW q \in Pages, pool'[q].io = "posted" PROVE \E i \in DOMAIN m_bpages' : m_bpages'[i] = q
    <3>1. CASE q = p BY <1>10, <1>11, <3>1
    <3>2. CASE q # p
      <4>1. PICK i \in DOMAIN m_bpages : m_bpages[i] = q BY <1>9, <2>3, <3>2 DEF RedoInv, FlushOK
      <4>2. i \in DOMAIN m_bpages' /\ m_bpages'[i] = q BY <1>10, <1>11, <4>1
      <4> QED BY <4>2
    <3> QED BY <3>1, <3>2
  <2>5. ASSUME NEW i \in DOMAIN m_bpages' PROVE pool'[m_bpages'[i]].io = "posted"
    <3>1. CASE i = Len(m_bpages) + 1 BY <1>9, <1>11, <3>1
    <3>2. CASE i # Len(m_bpages) + 1
      <4>1. i \in DOMAIN m_bpages BY <1>10, <1>11, <3>2
      <4>2. m_bpages[i] \in Pages BY <1>10, <1>11, <4>1
      <4>3. pool[m_bpages[i]].io = "posted" BY <1>1, <4>1 DEF RedoInv, FlushOK, Flusher
      <4> QED BY <1>9, <1>11, <4>1, <4>2, <4>3
    <3> QED BY <3>1, <3>2
  <2>6. at'["flusher"] \notin {"post", "wait", "dbl_sync"} BY <1>7
  <2> QED BY <2>1, <2>2, <2>3, <2>5, <2>6 DEF FlushOK, Flusher
<1>14. ImagesOK' BY <1>2, <1>3, ImagesStay, ImagesKept DEF RedoInv, Types
<1>15. TornOK'
  <2>1. \A q \in Pages : pool'[q].io = "write" => pool[q].io = "write" BY <1>9
  <2> QED BY <1>1, <1>2, <2>1, TornKept DEF RedoInv
<1> QED BY <1>1, <1>2, <1>4, <1>6, <1>7, <1>9, <1>12, <1>13, <1>14, <1>15, FlushCommon

\* Pages are exposed only from the sync of the doublewrite buffer to theirs.
LEMMA NoneExposed ==
  ASSUME RedoInv, phase = "up", at["flusher"] # "wait", "early_return" \notin lapses
  PROVE  file = disk /\ \A p \in Pages : ~Exposed(p) /\ pool[p].io # "write"
<1>1. file = disk /\ \A p \in Pages : file[p] # Torn /\ disk[p] # Torn
  BY DEF RedoInv, TornOK, Flusher
<1>2. \A p \in Pages : pool[p].io # "write" BY DEF RedoInv, TornOK, Flusher
<1> QED BY <1>1, <1>2 DEF Exposed

\* The doublewrite buffer is written.
LEMMA DblWriteStep ==
  ASSUME RedoInv, DblWrite
  PROVE  RedoInv'
<1>0. "flusher" \in Threads /\ "checkpointer" \in Threads BY DEF Threads, Others
<1>1. /\ at["flusher"] \in {"idle", "dbl_write"} /\ m_bpages # <<>>
      /\ dbl' = [i \in 1 .. DblSize |->
           IF i <= Len(m_bpages)
             THEN [page |-> m_bpages[i], image |-> FrameImage(m_bpages[i])]
             ELSE dbl[i]]
      /\ at' = [at EXCEPT !["flusher"] = "dbl_sync"]
      /\ UNCHANGED <<log, logVars, ckptVars, pool, m_bpages, logfile, logdisk,
                     file, disk, dbldisk, slots, w, arg, phase, crashes, acked, lapses>>
  BY DEF DblWrite
<1>2. LogsOK' /\ HardKept /\ OnFileKept /\ KnownKept BY <1>1, LogsSame DEF RedoInv
<1>3. phase = "up" BY <1>1 DEF RedoInv, QuietOK
<1>4. w["flusher"] = "none" BY <1>0, <1>1 DEF RedoInv, CallsOK, Waiting
<1>5. ThreadTypes' /\ LsnTypes' /\ LsnsOK' /\ WritersOK' /\ CallsOK' BY <1>0, <1>1, <1>2, <1>4, ThreadStep
<1>6. at'["flusher"] = "dbl_sync" /\ at'["checkpointer"] = at["checkpointer"]
  BY <1>0, <1>1 DEF RedoInv, Types, ThreadTypes
<1>7. /\ Len(m_bpages) \in Nat /\ DOMAIN m_bpages = 1 .. Len(m_bpages) /\ Len(m_bpages) <= DblSize
      /\ DblSize \in Nat /\ \A i \in DOMAIN m_bpages : m_bpages[i] \in Pages
  BY LenProperties, DblSizeAssumption DEF RedoInv, Types, PageTypes
<1>8. \A i \in DOMAIN m_bpages : pool[m_bpages[i]].io = "posted"
  BY <1>1 DEF RedoInv, FlushOK, Flusher
<1>9. \A i \in DOMAIN m_bpages : FrameImage(m_bpages[i]) \in Images /\ ImageOK(FrameImage(m_bpages[i]))
  BY <1>7, <1>8, FrameImageOK
<1>10. \A i \in DOMAIN m_bpages : /\ i \in 1 .. DblSize
                                  /\ dbl'[i] = [page |-> m_bpages[i], image |-> FrameImage(m_bpages[i])]
  BY <1>1, <1>7
<1>11. \A i \in 1 .. DblSize : i \notin DOMAIN m_bpages => dbl'[i] = dbl[i] BY <1>1, <1>7
<1>12. \A i \in 1 .. DblSize : dbl'[i] \in Copies
  <2>1. ASSUME NEW i \in DOMAIN m_bpages PROVE dbl'[i] \in Copies
    <3>1. PICK e \in Images : e = FrameImage(m_bpages[i]) BY <1>9
    <3>2. PICK q \in Pages : q = m_bpages[i] BY <1>7
    <3>3. dbl'[i] = [page |-> q, image |-> e] BY <1>10, <3>1, <3>2
    <3> QED BY <3>3 DEF Copies
  <2>2. \A i \in 1 .. DblSize : dbl[i] \in Copies BY DEF RedoInv, Types, PageTypes
  <2> QED BY <1>11, <2>1, <2>2
<1>13. PageTypes'
  <2>1. DOMAIN dbl' = 1 .. DblSize /\ dbl' = [i \in 1 .. DblSize |-> dbl'[i]] BY <1>1
  <2>2. dbl' \in [1 .. DblSize -> Copies] BY <1>12, <2>1
  <2> QED BY <1>1, <2>2 DEF RedoInv, Types, PageTypes
<1>14. BlocksOK'
  <2>1. log' \in Seq(LogRecords) /\ Len(log') >= Len(log) BY <1>1, LenProperties DEF RedoInv, Types, LogTypes
  <2> QED BY <1>1, <1>2, <2>1, BlocksKept DEF RedoInv, Types
<1>15. FlushOK'
  <2>1. \A p \in Pages : pool[p].io # "fixed" BY <1>1 DEF RedoInv, FlushOK, Flusher
  <2>2. ASSUME NEW p \in Pages, pool[p].io \in {"posted", "write"} PROVE Hard(pool[p].newest - 1)'
    <3>1. pool[p].newest - 1 \in Int BY DEF RedoInv, Types, PageTypes, Blocks
    <3> QED BY <1>1, <1>2, <2>2, <3>1 DEF RedoInv, FlushOK, HardKept
  <2>3. \A p \in Pages : pool[p].io = "posted" => \E i \in DOMAIN m_bpages : m_bpages[i] = p
    BY DEF RedoInv, FlushOK
  <2>4. \A i \in DOMAIN m_bpages : dbl'[i] = [page |-> m_bpages'[i], image |-> FrameImage(m_bpages[i])']
    BY <1>1, <1>10 DEF FrameImage, Image
  <2> QED BY <1>1, <1>6, <1>8, <2>1, <2>2, <2>3, <2>4 DEF FlushOK, Flusher
<1>16. ImagesOK'
  <2>0. ImageKept BY <1>2, ImagesStay
  <2>1. \A p \in Pages : file[p] \in Images /\ disk[p] \in Images BY DEF RedoInv, Types, PageTypes
  <2>2. \A i \in 1 .. DblSize : dbl[i].image \in Images /\ dbldisk[i].image \in Images
    BY DEF RedoInv, Types, PageTypes, Copies
  <2>3. \A p \in Pages : ImageOK(file[p])' /\ ImageOK(disk[p])'
    BY <1>1, <2>0, <2>1 DEF RedoInv, ImagesOK, ImageKept
  <2>4. \A i \in 1 .. DblSize : ImageOK(dbldisk[i].image)'
    BY <1>1, <2>0, <2>2 DEF RedoInv, ImagesOK, ImageKept
  <2>5. ASSUME NEW i \in 1 .. DblSize PROVE ImageOK(dbl[i].image)'
    <3>1. PICK e : e = dbl'[i].image OBVIOUS
    <3>2. e \in Images /\ ImageOK(e)
      <4>1. CASE i \in DOMAIN m_bpages
        <5>1. PICK f : f = FrameImage(m_bpages[i]) OBVIOUS
        <5>2. f \in Images /\ ImageOK(f) BY <1>9, <4>1, <5>1
        <5>3. dbl'[i] = [page |-> m_bpages[i], image |-> f] BY <1>10, <4>1, <5>1
        <5> QED BY <3>1, <5>2, <5>3
      <4>2. CASE i \notin DOMAIN m_bpages BY <1>11, <2>2, <3>1, <4>2 DEF RedoInv, ImagesOK
      <4> QED BY <4>1, <4>2
    <3>3. ImageOK(e)' BY <2>0, <3>2 DEF ImageKept
    <3> QED BY <3>1, <3>3
  <2> QED BY <2>3, <2>4, <2>5 DEF ImagesOK
<1>17. TornOK'
  <2> SUFFICES ASSUME "early_return" \notin lapses PROVE TornOK' BY <1>1 DEF TornOK
  <2>1. file = disk /\ \A p \in Pages : ~Exposed(p) /\ pool[p].io # "write" BY <1>1, <1>3, NoneExposed
  <2>2. \A p \in Pages : ~Exposed(p)' BY <1>1, <2>1 DEF Exposed
  <2>3. \A p \in Pages : file[p] # Torn /\ disk[p] # Torn BY <2>1 DEF Exposed
  <2> QED BY <1>1, <2>1, <2>2, <2>3 DEF TornOK
<1> QED BY <1>1, <1>3, <1>5, <1>6, <1>13, <1>14, <1>15, <1>16, <1>17, FlushCommon

\* The doublewrite buffer is on disk before a page is written.
LEMMA DblSyncStep ==
  ASSUME RedoInv, DblSync
  PROVE  RedoInv'
<1>0. "flusher" \in Threads /\ "checkpointer" \in Threads BY DEF Threads, Others
<1>1. /\ at["flusher"] = "dbl_sync" /\ dbldisk' = dbl /\ SetIo(WithIo("posted"), "write")
      /\ at' = [at EXCEPT !["flusher"] = "wait"]
      /\ UNCHANGED <<log, logVars, ckptVars, m_bpages, logfile, logdisk, file,
                     disk, dbl, slots, w, arg, phase, crashes, acked, lapses>>
  BY DEF DblSync
<1>2. LogsOK' /\ HardKept /\ OnFileKept /\ KnownKept BY <1>1, LogsSame DEF RedoInv
<1>3. phase = "up" BY <1>0, <1>1 DEF RedoInv, QuietOK
<1>4. w["flusher"] = "none" BY <1>0, <1>1 DEF RedoInv, CallsOK, Waiting
<1>5. ThreadTypes' /\ LsnTypes' /\ LsnsOK' /\ WritersOK' /\ CallsOK' BY <1>0, <1>1, <1>2, <1>4, ThreadStep
<1>6. at'["flusher"] = "wait" /\ at'["checkpointer"] = at["checkpointer"]
  BY <1>0, <1>1 DEF RedoInv, Types, ThreadTypes
<1>7. /\ Len(m_bpages) \in Nat /\ DOMAIN m_bpages = 1 .. Len(m_bpages) /\ Len(m_bpages) <= DblSize
      /\ DblSize \in Nat /\ \A i \in DOMAIN m_bpages : m_bpages[i] \in Pages
  BY LenProperties, DblSizeAssumption DEF RedoInv, Types, PageTypes
<1>8. \A p \in WithIo("posted") : p \in Pages /\ pool[p].oldest # Clean BY DEF WithIo, RedoInv, BlocksOK
<1>9. /\ pool' \in [Pages -> Blocks] /\ BlocksOK'
      /\ \A p \in Pages :
           /\ pool'[p].newest = pool[p].newest
           /\ pool'[p].io = IF p \in WithIo("posted") THEN "write" ELSE pool[p].io
  <2>1. WithIo("posted") \in SUBSET Pages BY DEF WithIo
  <2> QED BY <1>1, <1>8, <2>1, IoChanged
<1>11. \A p \in Pages : pool[p].io # "fixed" BY <1>1 DEF RedoInv, FlushOK, Flusher
<1>12. \A p \in Pages : /\ pool'[p].io = IF pool[p].io = "posted" THEN "write" ELSE pool[p].io
                        /\ pool'[p].io \notin {"fixed", "posted"}
  BY <1>9, <1>11 DEF WithIo
<1>13. PageTypes' BY <1>1, <1>9 DEF RedoInv, Types, PageTypes
<1>14. FlushOK'
  <2>1. ASSUME NEW p \in Pages, pool'[p].io = "write" PROVE Hard(pool[p].newest - 1)'
    <3>1. pool[p].newest - 1 \in Int BY DEF RedoInv, Types, PageTypes, Blocks
    <3>2. Hard(pool[p].newest - 1) BY <1>12, <2>1 DEF RedoInv, FlushOK
    <3> QED BY <1>2, <1>9, <3>1, <3>2 DEF HardKept, Hard
  <2> QED BY <1>6, <1>12, <2>1 DEF FlushOK, Flusher
<1>15. ImagesOK'
  <2>0. ImageKept BY <1>2, ImagesStay
  <2>1. \A p \in Pages : file[p] \in Images /\ disk[p] \in Images BY DEF RedoInv, Types, PageTypes
  <2>2. \A i \in 1 .. DblSize : dbl[i].image \in Images BY DEF RedoInv, Types, PageTypes, Copies
  <2> QED BY <1>1, <2>0, <2>1, <2>2 DEF RedoInv, ImagesOK, ImageKept
<1>16. TornOK'
  <2> SUFFICES ASSUME "early_return" \notin lapses PROVE TornOK' BY <1>1 DEF TornOK
  <2>0. file = disk /\ \A p \in Pages : ~Exposed(p) /\ pool[p].io # "write" BY <1>1, <1>3, NoneExposed
  <2>1. ASSUME NEW p \in Pages, Exposed(p)' PROVE GoodCopy(p)'
    <3>1. pool'[p].io = "write" BY <1>1, <2>0, <2>1 DEF Exposed
    <3>2. pool[p].io = "posted" BY <1>12, <2>0, <3>1
    <3>3. PICK i \in DOMAIN m_bpages : m_bpages[i] = p BY <3>2 DEF RedoInv, FlushOK
    <3>4. \A j \in DOMAIN m_bpages :
            dbl[j] = [page |-> m_bpages[j], image |-> FrameImage(m_bpages[j])] /\ pool[m_bpages[j]].io = "posted"
      BY <1>1 DEF RedoInv, FlushOK, Flusher
    <3>5. ASSUME NEW j \in DOMAIN m_bpages PROVE dbl[j].image # Torn /\ dbl[j].page = m_bpages[j]
      <4>1. PICK f : f = FrameImage(m_bpages[j]) OBVIOUS
      <4>2. f # Torn BY <1>7, <3>4, <4>1, FrameImageOK
      <4>3. dbl[j] = [page |-> m_bpages[j], image |-> f] BY <3>4, <4>1
      <4> QED BY <4>2, <4>3
    <3>6. i \in 1 .. DblSize /\ 1 .. i \subseteq DOMAIN m_bpages BY <1>7
    <3>7. dbl[i].page = p BY <3>3, <3>5
    <3> QED BY <1>1, <3>5, <3>6, <3>7 DEF GoodCopy
  <2>2. \A p \in Pages : file[p] # Torn /\ disk[p] # Torn BY <2>0 DEF Exposed
  <2> QED BY <1>1, <1>6, <2>0, <2>1, <2>2 DEF TornOK, Flusher
<1> QED BY <1>1, <1>3, <1>5, <1>6, <1>9, <1>13, <1>14, <1>15, <1>16, FlushCommon

\* A page is in its file.
LEMMA PageIoCompleteStep ==
  ASSUME RedoInv, NEW p \in Pages, PageIoComplete(p)
  PROVE  RedoInv'
<1>1. /\ pool[p].io = "write" /\ file' = [file EXCEPT ![p] = FrameImage(p)]
      /\ pool' = [pool EXCEPT ![p].io = "none", ![p].oldest = Clean]
      /\ UNCHANGED <<log, logVars, ckptVars, m_bpages, logfile, logdisk, disk, dbl,
                     dbldisk, slots, threadVars, phase, crashes, acked, lapses>>
  BY DEF PageIoComplete
<1>2. LogsOK' /\ HardKept /\ OnFileKept /\ KnownKept BY <1>1, LogsSame DEF RedoInv
<1>3. UNCHANGED <<at, w, arg>> BY <1>1 DEF threadVars
<1>4. log' \in Seq(LogRecords) /\ Len(log') >= Len(log) BY <1>1, LenProperties DEF RedoInv, Types, LogTypes
<1>5. ThreadTypes' /\ LsnTypes' /\ LsnsOK' /\ WritersOK' /\ CallsOK' BY <1>1, <1>2, <1>4, ThreadsSame
<1>6. Block(<<>>).io = "none" BY DEF Block
<1>7. phase = "up" BY <1>1, <1>6 DEF RedoInv, QuietOK
<1>8. FrameImage(p) \in Images /\ FrameImage(p) # Torn /\ ImageOK(FrameImage(p)) BY <1>1, FrameImageOK
<1>9. pool \in [Pages -> Blocks] /\ file \in [Pages -> Images] BY DEF RedoInv, Types, PageTypes
<1>10. /\ pool'[p] \in Blocks /\ pool'[p].recs = pool[p].recs /\ pool'[p].newest = pool[p].newest
       /\ pool'[p].io = "none" /\ pool'[p].oldest = Clean
       /\ \A q \in Pages : q # p => pool'[q] = pool[q]
  <2>1. pool[p] \in Blocks BY <1>9
  <2>2. pool'[p] = [[pool[p] EXCEPT !.io = "none"] EXCEPT !.oldest = Clean] BY <1>1, <1>9
  <2>3. \A q \in Pages : q # p => pool'[q] = pool[q] BY <1>1, <1>9
  <2>4. PICK b \in Blocks : b = pool[p] BY <2>1
  <2>5. b \in [recs: Seq(Entries), newest: Nat, oldest: Nat, io: {"none", "fixed", "posted", "write"}]
    BY DEF Blocks
  <2>6. pool'[p] = [recs |-> b.recs, newest |-> b.newest, oldest |-> Clean, io |-> "none"]
    BY <2>2, <2>4, <2>5
  <2>7. Clean \in Nat BY DEF Clean
  <2>8. pool'[p] \in Blocks BY <2>5, <2>6, <2>7 DEF Blocks
  <2> QED BY <2>3, <2>4, <2>6, <2>8
<1>11. file'[p] = FrameImage(p) /\ \A q \in Pages : q # p => file'[q] = file[q] BY <1>1, <1>9
<1>12. PageTypes'
  <2>1. pool' \in [Pages -> Blocks]
    <3>1. DOMAIN pool' = Pages /\ pool' = [q \in Pages |-> pool'[q]] BY <1>1, <1>9
    <3> QED BY <1>9, <1>10, <3>1
  <2>2. file' \in [Pages -> Images] BY <1>1, <1>8, <1>9
  <2> QED BY <1>1, <2>1, <2>2 DEF RedoInv, Types, PageTypes
<1>13. BlocksOK'
  <2>1. ASSUME NEW q \in Pages
        PROVE  /\ \A k \in DOMAIN pool'[q].recs : Known(pool[q].recs[k])'
               /\ pool'[q].oldest # Clean =>
                    /\ pool'[q].newest >= 1 /\ pool'[q].newest <= m_lsn' /\ pool'[q].oldest < m_lsn'
                    /\ \A k \in DOMAIN pool'[q].recs : pool'[q].recs[k][1] < pool'[q].newest
               /\ pool'[q].newest <= m_lsn'
               /\ pool'[q].io # "none" => pool'[q].oldest # Clean
    <3>0. pool'[q].recs = pool[q].recs /\ pool'[q].newest = pool[q].newest
          /\ (pool'[q].oldest # Clean => pool'[q] = pool[q])
      BY <1>10
    <3>1. \A k \in DOMAIN pool'[q].recs : Known(pool[q].recs[k])'
      BY <1>1, <3>0 DEF RedoInv, BlocksOK, Known
    <3>2. pool'[q].newest <= m_lsn' BY <1>1, <3>0 DEF RedoInv, BlocksOK, m_lsn
    <3>3. pool'[q].io # "none" => pool'[q].oldest # Clean BY <1>10 DEF RedoInv, BlocksOK
    <3>4. pool'[q].oldest # Clean =>
            /\ pool'[q].newest >= 1 /\ pool'[q].newest <= m_lsn' /\ pool'[q].oldest < m_lsn'
            /\ \A k \in DOMAIN pool'[q].recs : pool'[q].recs[k][1] < pool'[q].newest
      BY <1>1, <3>0 DEF RedoInv, BlocksOK, m_lsn
    <3> QED BY <3>1, <3>2, <3>3, <3>4
  <2> QED BY <2>1 DEF BlocksOK
<1>14. FlushOK'
  <2>1. ASSUME NEW q \in Pages, pool'[q].io \in {"posted", "write"} PROVE Hard(pool[q].newest - 1)'
    <3>1. pool[q].newest - 1 \in Int BY <1>9 DEF Blocks
    <3>2. Hard(pool[q].newest - 1) /\ pool'[q] = pool[q] BY <1>10, <2>1 DEF RedoInv, FlushOK
    <3> QED BY <1>2, <3>1, <3>2 DEF HardKept
  <2>2. \A q \in Pages : pool'[q].io # "none" => pool'[q] = pool[q] BY <1>10
  <2>3. ASSUME NEW q \in Pages, pool'[q].io = "fixed"
        PROVE  /\ at'["flusher"] = "post" /\ arg'["flusher"].lsn = pool'[q].newest
               /\ \A r \in Pages : pool'[r].io = "fixed" => r = q
    BY <1>3, <2>2, <2>3 DEF RedoInv, FlushOK, Flusher
  <2>4. ASSUME NEW q \in Pages, pool'[q].io = "posted"
        PROVE  at'["flusher"] # "wait" /\ \E i \in DOMAIN m_bpages' : m_bpages'[i] = q
    BY <1>1, <1>3, <2>2, <2>4 DEF RedoInv, FlushOK, Flusher
  <2>5. at'["flusher"] = "post" => Len(m_bpages') < DblSize BY <1>1, <1>3 DEF RedoInv, FlushOK, Flusher
  <2>6. ASSUME at["flusher"] # "wait", NEW i \in DOMAIN m_bpages
        PROVE  pool'[m_bpages[i]] = pool[m_bpages[i]] /\ pool'[m_bpages[i]].io = "posted"
    <3>1. m_bpages[i] \in Pages BY LenProperties DEF RedoInv, Types, PageTypes
    <3>2. pool[m_bpages[i]].io = "posted" BY <2>6 DEF RedoInv, FlushOK, Flusher
    <3> QED BY <1>1, <1>10, <3>1, <3>2
  <2>7. ASSUME at["flusher"] = "dbl_sync", NEW i \in DOMAIN m_bpages
        PROVE  dbl'[i] = [page |-> m_bpages'[i], image |-> FrameImage(m_bpages[i])']
    <3>1. pool'[m_bpages[i]] = pool[m_bpages[i]] BY <2>6, <2>7
    <3>2. dbl[i] = [page |-> m_bpages[i], image |-> FrameImage(m_bpages[i])]
      BY <2>7 DEF RedoInv, FlushOK, Flusher
    <3> QED BY <1>1, <3>1, <3>2 DEF FrameImage, Image
  <2> QED BY <1>1, <1>3, <2>1, <2>3, <2>4, <2>5, <2>6, <2>7 DEF FlushOK, Flusher
<1>15. ImagesOK'
  <2>0. ImageKept BY <1>2, ImagesStay
  <2>2. \A i \in 1 .. DblSize : dbl[i].image \in Images /\ dbldisk[i].image \in Images
    BY DEF RedoInv, Types, PageTypes, Copies
  <2>3. \A q \in Pages : ImageOK(disk[q])'
    BY <1>1, <2>0 DEF RedoInv, Types, PageTypes, ImagesOK, ImageKept
  <2>4. \A i \in 1 .. DblSize : ImageOK(dbl[i].image)' /\ ImageOK(dbldisk[i].image)'
    BY <1>1, <2>0, <2>2 DEF RedoInv, ImagesOK, ImageKept
  <2>5. ASSUME NEW q \in Pages PROVE ImageOK(file[q])'
    <3>1. PICK e : e = file'[q] OBVIOUS
    <3>2. e \in Images /\ ImageOK(e)
      <4>1. CASE q = p BY <1>8, <1>11, <3>1, <4>1
      <4>2. CASE q # p BY <1>9, <1>11, <3>1, <4>2 DEF RedoInv, ImagesOK
      <4> QED BY <4>1, <4>2
    <3>3. ImageOK(e)' BY <2>0, <3>2 DEF ImageKept
    <3> QED BY <3>1, <3>3
  <2> QED BY <2>3, <2>4, <2>5 DEF ImagesOK
<1>16. TornOK'
  <2> SUFFICES ASSUME "early_return" \notin lapses PROVE TornOK' BY <1>1 DEF TornOK
  <2>0. at["flusher"] = "wait" BY <1>1 DEF RedoInv, TornOK, Flusher
  <2>1. \A q \in Pages : GoodCopy(q) => GoodCopy(q)' BY <1>1 DEF GoodCopy
  <2>2. ASSUME NEW q \in Pages, Exposed(q)' PROVE Exposed(q)
    <3>1. CASE q = p BY <1>1, <3>1 DEF Exposed
    <3>2. CASE q # p BY <1>1, <1>10, <1>11, <2>2, <3>2 DEF Exposed
    <3> QED BY <3>1, <3>2
  <2>3. \A q \in Pages : file'[q] # Torn /\ disk'[q] # Torn
    BY <1>1, <1>7, <1>8, <1>11 DEF RedoInv, TornOK
  <2> QED BY <1>1, <1>3, <2>0, <2>1, <2>2, <2>3 DEF RedoInv, TornOK, Flusher
<1> QED BY <1>1, <1>3, <1>5, <1>7, <1>12, <1>13, <1>14, <1>15, <1>16, FlushCommon

\* The doublewrite buffer is used again when the pages are synced.
LEMMA SyncDatafilesStep ==
  ASSUME RedoInv, SyncDatafiles
  PROVE  RedoInv'
<1>0. "flusher" \in Threads /\ "checkpointer" \in Threads BY DEF Threads, Others
<1>1. /\ at["flusher"] = "wait" /\ SyncFiles /\ m_bpages' = <<>>
      /\ at' = [at EXCEPT !["flusher"] = "idle"]
      /\ UNCHANGED <<log, logVars, ckptVars, pool, logfile, logdisk, file, dbl,
                     slots, w, arg, phase, crashes, acked>>
      /\ lapses' \in {lapses, lapses \cup {"early_return"}}
      /\ "early_return" \notin lapses' => WithIo("write") = {}
  BY DEF SyncDatafiles, WaitForPendingOps
<1>2. LogsOK' /\ HardKept /\ OnFileKept /\ KnownKept BY <1>1, LogsSame DEF RedoInv
<1>3. phase = "up" BY <1>0, <1>1 DEF RedoInv, QuietOK
<1>4. w["flusher"] = "none" BY <1>0, <1>1 DEF RedoInv, CallsOK, Waiting
<1>5. ThreadTypes' /\ LsnTypes' /\ LsnsOK' /\ WritersOK' /\ CallsOK' BY <1>0, <1>1, <1>2, <1>4, ThreadStep
<1>6. at'["flusher"] = "idle" /\ at'["checkpointer"] = at["checkpointer"]
  BY <1>0, <1>1 DEF RedoInv, Types, ThreadTypes
<1>7. \A p \in Pages : pool[p].io \notin {"fixed", "posted"} BY <1>1 DEF RedoInv, FlushOK, Flusher
<1>8. <<>> \in Seq(Pages) /\ Len(<<>>) = 0 /\ DOMAIN <<>> = {} BY EmptySeq
<1>9. PageTypes' BY <1>1, <1>8, DblSizeAssumption DEF RedoInv, Types, PageTypes, SyncFiles
<1>10. BlocksOK'
  <2>1. log' \in Seq(LogRecords) /\ Len(log') >= Len(log) BY <1>1, LenProperties DEF RedoInv, Types, LogTypes
  <2> QED BY <1>1, <1>2, <2>1, BlocksKept DEF RedoInv, Types
<1>11. FlushOK'
  <2>1. ASSUME NEW p \in Pages, pool[p].io = "write" PROVE Hard(pool[p].newest - 1)'
    <3>1. pool[p].newest - 1 \in Int BY DEF RedoInv, Types, PageTypes, Blocks
    <3> QED BY <1>1, <1>2, <2>1, <3>1 DEF RedoInv, FlushOK, HardKept
  <2> QED BY <1>1, <1>6, <1>7, <1>8, <2>1 DEF FlushOK, Flusher
<1>12. ImagesOK' /\ TornOK'
  <2>1. lapses \subseteq lapses' BY <1>1
  <2>2. "early_return" \notin lapses' => \A p \in Pages : pool[p].io # "write" BY <1>1 DEF WithIo
  <2> QED BY <1>1, <1>2, <1>3, <2>1, <2>2, ImagesStay, FilesSynced
<1> QED BY <1>1, <1>3, <1>5, <1>6, <1>9, <1>10, <1>11, <1>12, FlushCommon

-----------------------------------------------------------------------------
(* Crashes.                                                                *)

\* A function of OneOfEach.
LEMMA OneOfEachMeaning ==
  ASSUME NEW o, NEW f \in OneOfEach(o)
  PROVE  DOMAIN f = DOMAIN o /\ f = [i \in DOMAIN o |-> f[i]] /\ \A i \in DOMAIN o : f[i] \in o[i]
BY DEF OneOfEach

\* The checkpoints after a crash: the one not being written is good.
LEMMA SlotsCrashed ==
  ASSUME RedoInv, HardKept, slots' \in CheckpointOutcomes({BadSlot})
  PROVE  /\ slots' \in [{0, 1} -> [no: Int, lsn: Nat]]
         /\ \A i \in {0, 1} : slots'[i] = BadSlot \/
              /\ slots'[i].no \in Nat /\ slots'[i].no % 2 = i
              /\ slots'[i].lsn >= 1 /\ Hard(slots[i].lsn - 1)'
         /\ slots'[0] # BadSlot \/ slots'[1] # BadSlot
<1>0. slots \in [{0, 1} -> [no: Int, lsn: Nat]] BY DEF RedoInv, Types, CheckpointTypes
<1>1. ASSUME NEW i \in {0, 1}, slots'[i] = slots[i]
      PROVE  slots'[i] = BadSlot \/ /\ slots'[i].no \in Nat /\ slots'[i].no % 2 = i
                                    /\ slots'[i].lsn >= 1 /\ Hard(slots[i].lsn - 1)'
  <2>1. slots[i].lsn - 1 \in Int BY <1>0
  <2>2. slots[i] = BadSlot \/ /\ slots[i].no \in Nat /\ slots[i].no % 2 = i
                              /\ slots[i].lsn >= 1 /\ Hard(slots[i].lsn - 1)
    BY DEF RedoInv, CheckpointsOK
  <2> QED BY <1>1, <2>1, <2>2 DEF HardKept
<1>2. CASE slots' = slots BY <1>0, <1>1, <1>2 DEF RedoInv, CheckpointsOK
<1>3. CASE slots' # slots
  <2>1. m_n_pending_checkpoint_writes = 1 BY <1>3 DEF CheckpointOutcomes
  <2>2. PICK n \in Nat : n = m_next_checkpoint_no BY DEF RedoInv, Types, CheckpointTypes
  <2>3. PICK c \in Nat : c = m_next_checkpoint_lsn /\ c >= 1 /\ Hard(c - 1) /\ c - 1 \in Int
    BY <2>1 DEF RedoInv, Types, CheckpointTypes, CheckpointsOK
  <2>4. PICK e \in {[no |-> n, lsn |-> c], BadSlot} : slots' = [slots EXCEPT ![n % 2] = e]
    BY <1>3, <2>1, <2>2, <2>3 DEF CheckpointOutcomes, WriteSlot, NewCheckpoint
  <2>5. n % 2 \in {0, 1} /\ (n + 1) % 2 \in {0, 1} /\ (n + 1) % 2 # n % 2 BY <2>2
  <2>6. slots'[n % 2] = e /\ \A i \in {0, 1} : i # n % 2 => slots'[i] = slots[i] BY <1>0, <2>4, <2>5
  <2>7. slots[(n + 1) % 2] # BadSlot BY <2>1, <2>2 DEF RedoInv, CheckpointsOK
  <2>8. slots'[(n + 1) % 2] # BadSlot BY <2>5, <2>6, <2>7
  <2>9. e \in [no: Int, lsn: Nat] BY DEF BadSlot
  <2>10. slots' \in [{0, 1} -> [no: Int, lsn: Nat]] BY <1>0, <2>4, <2>9
  <2>11. ASSUME NEW i \in {0, 1}
         PROVE  slots'[i] = BadSlot \/ /\ slots'[i].no \in Nat /\ slots'[i].no % 2 = i
                                       /\ slots'[i].lsn >= 1 /\ Hard(slots[i].lsn - 1)'
    <3>1. CASE i # n % 2 BY <1>1, <2>6, <3>1
    <3>2. CASE i = n % 2 /\ e = BadSlot BY <2>6, <3>2
    <3>3. CASE i = n % 2 /\ e = [no |-> n, lsn |-> c]
      <4>1. slots'[i].no = n /\ slots'[i].lsn = c BY <2>6, <3>3
      <4>2. Hard(c - 1)' BY <2>3 DEF HardKept
      <4>3. Hard(slots[i].lsn - 1)' BY <4>1, <4>2 DEF Hard
      <4> QED BY <2>3, <3>3, <4>1, <4>3
    <3> QED BY <3>1, <3>2, <3>3
  <2> QED BY <2>5, <2>8, <2>10, <2>11
<1> QED BY <1>2, <1>3

\* The parts around a crash.
LEMMA CrashCommon ==
  ASSUME RedoInv, crashes < MaxCrashes, Forget, HardKept, LogsOK',
         logfile' \in Seq(LogRecords \cup {EndMark}), logdisk' \in Seq(LogRecords \cup {EndMark}),
         slots' \in CheckpointOutcomes({BadSlot}),
         file' \in [Pages -> Images], disk' \in [Pages -> Images],
         dbl' \in [1 .. DblSize -> Copies], dbldisk' \in [1 .. DblSize -> Copies],
         ImagesOK', TornOK'
  PROVE  RedoInv'
<1>0. /\ m_written_to_all_lsn' = 0 /\ m_flushed_to_disk_lsn' = 0
      /\ m_write_lsn' = 0 /\ m_current_flush_lsn' = 0 /\ m_n_pending_writes' = 0
      /\ m_next_checkpoint_no' = 0 /\ m_next_checkpoint_lsn' = 0
      /\ m_last_checkpoint_lsn' = 0 /\ m_n_pending_checkpoint_writes' = 0
      /\ pool' = [p \in Pages |-> Block(<<>>)] /\ m_bpages' = <<>>
      /\ at' = [t \in Threads |-> "idle"] /\ w' = [t \in Threads |-> "none"]
      /\ arg' = [t \in Threads |-> NoCall]
      /\ phase' = "down" /\ crashes' = crashes + 1 /\ UNCHANGED <<log, acked, lapses>>
  BY DEF Forget
<1>1. <<>> \in Seq(Pages) /\ <<>> \in Seq(Entries) /\ Len(<<>>) = 0 /\ DOMAIN <<>> = {} BY EmptySeq
<1>2. crashes' \in 0 .. MaxCrashes BY <1>0, BoundsAssumption DEF RedoInv, Types, LogTypes
<1>3. LogTypes' BY <1>0, <1>2 DEF RedoInv, Types, LogTypes
<1>4. LsnTypes' BY <1>0 DEF RedoInv, Types, LsnTypes
<1>5. /\ slots' \in [{0, 1} -> [no: Int, lsn: Nat]]
      /\ \A i \in {0, 1} : slots'[i] = BadSlot \/
           /\ slots'[i].no \in Nat /\ slots'[i].no % 2 = i
           /\ slots'[i].lsn >= 1 /\ Hard(slots[i].lsn - 1)'
      /\ slots'[0] # BadSlot \/ slots'[1] # BadSlot
  BY SlotsCrashed
<1>6. CheckpointTypes' BY <1>0, <1>5 DEF CheckpointTypes
<1>7. Block(<<>>) \in Blocks BY <1>1 DEF Block, Blocks, Clean
<1>8. PageTypes' BY <1>0, <1>1, <1>7, DblSizeAssumption DEF PageTypes
<1>9. ThreadTypes' BY <1>0 DEF ThreadTypes, NoCall, Calls
<1>10. LsnsOK'
  <2>1. acked \in Nat /\ acked \in Int /\ Hard(acked) BY DEF RedoInv, Types, LsnTypes, LsnsOK
  <2>2. PICK a \in Nat : a = acked BY <2>1
  <2>3. Hard(a)' BY <2>1, <2>2 DEF HardKept
  <2>4. PICK j \in 0 .. Len(logfile') - 1 : j >= a /\ j < Len(logdisk') /\ (j = 0 \/ logdisk'[j].last)
    BY <2>3 DEF Hard
  <2>5. Len(logfile') \in Nat /\ j >= -1 BY <2>2, <2>4, LenProperties
  <2>6. Hard(acked)' BY <1>0, <2>2, <2>3 DEF Hard
  <2>7. Hard(m_flushed_to_disk_lsn - 1)' /\ Hard(m_current_flush_lsn - 1)'
    <3>1. m_flushed_to_disk_lsn' - 1 = -1 /\ m_current_flush_lsn' - 1 = -1 BY <1>0
    <3> QED BY <2>4, <2>5, <3>1 DEF Hard
  <2>8. OnFile(m_write_lsn - 1)' /\ OnFile(m_current_flush_lsn - 1)'
    <3>1. m_write_lsn' - 1 = -1 /\ m_current_flush_lsn' - 1 = -1 BY <1>0
    <3>2. 0 \in 0 .. Len(logfile') - 1 /\ 0 >= -1 BY <2>4, <2>5
    <3> QED BY <3>1, <3>2 DEF OnFile
  <2> QED BY <2>6, <2>7, <2>8 DEF LsnsOK
<1>11. WritersOK' BY <1>0 DEF WritersOK
<1>12. CallsOK' BY <1>0 DEF CallsOK, Waiting
<1>13. CheckpointsOK'
  <2>1. at'["checkpointer"] = "idle" BY <1>0 DEF Threads, Others
  <2> QED BY <1>0, <1>5, <2>1 DEF CheckpointsOK
<1>14. QuietOK' BY <1>0 DEF QuietOK
<1>15. BlocksOK'
  <2>1. \A p \in Pages : /\ pool'[p].recs = <<>> /\ pool'[p].oldest = Clean
                         /\ pool'[p].newest = 0 /\ pool'[p].io = "none"
    BY <1>0 DEF Block
  <2>2. m_lsn' \in Nat BY <1>0, LenProperties DEF RedoInv, Types, LogTypes, m_lsn
  <2> QED BY <1>1, <2>1, <2>2 DEF BlocksOK
<1>16. FlushOK'
  <2>1. \A p \in Pages : pool'[p].io = "none" BY <1>0 DEF Block
  <2>2. at'["flusher"] = "idle" BY <1>0 DEF Threads, Others
  <2> QED BY <1>0, <1>1, <2>1, <2>2 DEF FlushOK, Flusher
<1> QED BY <1>3, <1>4, <1>6, <1>8, <1>9, <1>10, <1>11, <1>12, <1>13, <1>14, <1>15, <1>16 DEF RedoInv, Types

\* What a crash may leave of a page that was being written.
LEMMA InFileOK ==
  ASSUME RedoInv, NEW p \in Pages, NEW e \in InFile(p)
  PROVE  /\ e \in Images /\ ImageOK(e)
         /\ e = file[p] \/ (Exposed(p) /\ e # Torn)
<1>1. CASE e = file[p] BY <1>1 DEF RedoInv, Types, PageTypes, ImagesOK
<1>2. CASE e # file[p]
  <2>1. pool[p].io = "write" /\ e = FrameImage(p) BY <1>2 DEF InFile
  <2> QED BY <2>1, FrameImageOK DEF Exposed
<1> QED BY <1>1, <1>2

\* The process is killed.
LEMMA KillStep ==
  ASSUME RedoInv, Kill
  PROVE  RedoInv'
<1>1. /\ crashes < MaxCrashes /\ file' \in OneOfEach([p \in Pages |-> InFile(p)])
      /\ slots' \in CheckpointOutcomes({}) /\ UNCHANGED <<logfile, logdisk, disk, dbl, dbldisk>> /\ Forget
  BY DEF Kill, MayCrash
<1>2. log' = log /\ lapses' = lapses /\ phase' = "down" /\ pool' = [p \in Pages |-> Block(<<>>)] BY <1>1 DEF Forget
<1>3. LogsOK' /\ HardKept /\ KnownKept BY <1>1, <1>2, LogsSame DEF RedoInv
<1>4. slots' \in CheckpointOutcomes({BadSlot}) BY <1>1 DEF CheckpointOutcomes
<1>5. /\ DOMAIN file' = Pages /\ file' = [p \in Pages |-> file'[p]]
      /\ \A p \in Pages : file'[p] \in InFile(p)
  BY <1>1, OneOfEachMeaning
<1>6. \A p \in Pages : file'[p] \in Images /\ ImageOK(file'[p])
                       /\ (file'[p] = file[p] \/ (Exposed(p) /\ file'[p] # Torn))
  BY <1>5, InFileOK
<1>7. file' \in [Pages -> Images] BY <1>5, <1>6
<1>8. ImagesOK'
  <2>0. ImageKept BY <1>3, ImagesStay
  <2>1. \A p \in Pages : disk[p] \in Images BY DEF RedoInv, Types, PageTypes
  <2>2. \A i \in 1 .. DblSize : dbl[i].image \in Images /\ dbldisk[i].image \in Images
    BY DEF RedoInv, Types, PageTypes, Copies
  <2>3. \A p \in Pages : ImageOK(disk[p])'
    BY <1>1, <2>0, <2>1 DEF RedoInv, ImagesOK, ImageKept
  <2>4. \A i \in 1 .. DblSize : ImageOK(dbl[i].image)' /\ ImageOK(dbldisk[i].image)'
    BY <1>1, <2>0, <2>2 DEF RedoInv, ImagesOK, ImageKept
  <2>5. ASSUME NEW p \in Pages PROVE ImageOK(file[p])'
    <3>1. PICK e : e = file'[p] OBVIOUS
    <3>2. e \in Images /\ ImageOK(e) BY <1>6, <3>1
    <3>3. ImageOK(e)' BY <2>0, <3>2 DEF ImageKept
    <3> QED BY <3>1, <3>3
  <2> QED BY <2>3, <2>4, <2>5 DEF ImagesOK
<1>9. TornOK'
  <2> SUFFICES ASSUME "early_return" \notin lapses PROVE TornOK' BY <1>2 DEF TornOK
  <2>1. \A p \in Pages : GoodCopy(p) => GoodCopy(p)' BY <1>1 DEF GoodCopy
  <2>2. \A p \in Pages : pool'[p].io = "none" BY <1>2 DEF Block
  <2>3. \A p \in Pages : Exposed(p)' => Exposed(p) BY <1>1, <1>6, <2>2 DEF Exposed
  <2> QED BY <1>2, <2>1, <2>2, <2>3 DEF RedoInv, TornOK
<1> QED BY <1>1, <1>3, <1>4, <1>7, <1>8, <1>9, CrashCommon DEF RedoInv, Types, LogTypes, PageTypes

\* The power fails: a page is torn only where a good copy is on disk.
LEMMA PowerFailureStep ==
  ASSUME RedoInv, PowerFailure
  PROVE  RedoInv'
<1>1. /\ crashes < MaxCrashes
      /\ file' \in OneOfEach([p \in Pages |-> OnDisk(disk[p], InFile(p), Torn)])
      /\ dbl' \in OneOfEach([i \in 1 .. DblSize |->
              OnDisk(dbldisk[i], {dbl[i]}, [dbl[i] EXCEPT !.image = Torn])])
      /\ logdisk' = logfile' /\ disk' = file' /\ dbldisk' = dbl'
      /\ slots' \in CheckpointOutcomes({BadSlot}) /\ Forget
  BY DEF PowerFailure, MayCrash
<1>2. log' = log /\ lapses' = lapses /\ phase' = "down" /\ pool' = [p \in Pages |-> Block(<<>>)] BY <1>1 DEF Forget
<1>3. PICK n \in 0 .. Len(logfile) :
        logfile' = SubSeq(logfile, 1, n) \o SubSeq(logdisk, n + 1, Len(logdisk))
  BY DEF PowerFailure
<1>4. logfile \in Seq(LogRecords \cup {EndMark}) /\ logdisk \in Seq(LogRecords \cup {EndMark})
  BY DEF RedoInv, Types, LogTypes
<1>5. /\ logfile' \in Seq(LogRecords \cup {EndMark})
      /\ Len(logfile') = IF n < Len(logdisk) THEN Len(logdisk) ELSE n
      /\ \A i \in 1 .. Len(logfile') :
           \/ i \in 1 .. Len(logfile) /\ i <= n /\ logfile'[i] = logfile[i]
           \/ i \in 1 .. Len(logdisk) /\ i > n /\ logfile'[i] = logdisk[i]
  <2> DEFINE r == SubSeq(logfile, 1, n) \o SubSeq(logdisk, n + 1, Len(logdisk))
  <2>1. /\ r \in Seq(LogRecords \cup {EndMark})
        /\ Len(r) = IF n < Len(logdisk) THEN Len(logdisk) ELSE n
        /\ \A i \in 1 .. Len(r) :
             \/ i \in 1 .. Len(logfile) /\ i <= n /\ r[i] = logfile[i]
             \/ i \in 1 .. Len(logdisk) /\ i > n /\ r[i] = logdisk[i]
    BY <1>4, MixSeq
  <2>2. logfile' = r BY <1>3
  <2> HIDE DEF r
  <2> QED BY <2>1, <2>2, Zenon
<1>6. LogsOK' /\ HardKept /\ KnownKept BY <1>1, <1>2, <1>5, LogMixed DEF RedoInv, Types
<1>7. /\ DOMAIN file' = Pages /\ file' = [p \in Pages |-> file'[p]]
      /\ \A p \in Pages : file'[p] \in OnDisk(disk[p], InFile(p), Torn)
  BY <1>1, OneOfEachMeaning
<1>8. /\ DOMAIN dbl' = 1 .. DblSize /\ dbl' = [i \in 1 .. DblSize |-> dbl'[i]]
      /\ \A i \in 1 .. DblSize : dbl'[i] \in OnDisk(dbldisk[i], {dbl[i]}, [dbl[i] EXCEPT !.image = Torn])
  <2> DEFINE o == [i \in 1 .. DblSize |-> OnDisk(dbldisk[i], {dbl[i]}, [dbl[i] EXCEPT !.image = Torn])]
  <2>1. DOMAIN o = 1 .. DblSize
        /\ \A i \in 1 .. DblSize : o[i] = OnDisk(dbldisk[i], {dbl[i]}, [dbl[i] EXCEPT !.image = Torn])
    OBVIOUS
  <2>2. dbl' \in OneOfEach(o) BY <1>1
  <2> HIDE DEF o
  <2>3. DOMAIN dbl' = DOMAIN o /\ dbl' = [i \in DOMAIN o |-> dbl'[i]] /\ \A i \in DOMAIN o : dbl'[i] \in o[i]
    BY <2>2, OneOfEachMeaning
  <2> QED BY <2>1, <2>3, Zenon
<1>9. Torn \in Images /\ ImageOK(Torn)
  <2>1. Torn.lsn = 0 /\ Torn.recs = <<>> /\ Torn.lsn - 1 = -1 BY DEF Torn
  <2>2. <<>> \in Seq(Entries) /\ DOMAIN <<>> = {} BY EmptySeq
  <2>3. Hard(-1)
    <3>1. acked \in Nat /\ acked \in Int /\ Hard(acked) BY DEF RedoInv, Types, LsnTypes, LsnsOK
    <3>2. -1 \in Int /\ -1 <= acked BY <3>1
    <3> QED BY <3>1, <3>2, HardBelow DEF RedoInv, Types
  <2> QED BY <2>1, <2>2, <2>3 DEF Torn, Images, ImageOK
<1>10. ASSUME NEW p \in Pages
       PROVE  file'[p] \in Images /\ ImageOK(file'[p]) /\ (file'[p] = Torn => Exposed(p))
  <2>1. CASE file'[p] \in InFile(p) BY <2>1, InFileOK DEF Exposed
  <2>2. CASE file'[p] \notin InFile(p)
    <3>1. file'[p] \in {disk[p], Torn} /\ InFile(p) # {disk[p]} BY <1>7, <2>2 DEF OnDisk
    <3>2. disk[p] \in Images /\ ImageOK(disk[p]) BY DEF RedoInv, Types, PageTypes, ImagesOK
    <3>3. Exposed(p) BY <3>1 DEF InFile, Exposed
    <3> QED BY <1>9, <3>1, <3>2, <3>3
  <2> QED BY <2>1, <2>2
<1>11. ASSUME NEW i \in 1 .. DblSize
       PROVE  /\ dbl'[i] \in Copies /\ ImageOK(dbl'[i].image)
              /\ dbl[i] = dbldisk[i] => dbl'[i] = dbl[i]
  <2>1. dbl[i] \in Copies /\ dbldisk[i] \in Copies /\ ImageOK(dbl[i].image) /\ ImageOK(dbldisk[i].image)
    BY DEF RedoInv, Types, PageTypes, ImagesOK
  <2>2. dbl'[i] \in {dbldisk[i], dbl[i], [dbl[i] EXCEPT !.image = Torn]} BY <1>8 DEF OnDisk
  <2>3. dbl[i] = dbldisk[i] => dbl'[i] = dbl[i] BY <1>8 DEF OnDisk
  <2>4. CASE dbl'[i] = [dbl[i] EXCEPT !.image = Torn]
    <3>1. dbl'[i].image = Torn /\ dbl'[i] \in Copies BY <1>9, <2>1, <2>4 DEF Copies
    <3> QED BY <1>9, <2>3, <3>1
  <2>5. CASE dbl'[i] \in {dbldisk[i], dbl[i]} BY <2>1, <2>3, <2>5
  <2> QED BY <2>2, <2>4, <2>5
<1>12. file' \in [Pages -> Images] BY <1>7, <1>10
<1>13. dbl' \in [1 .. DblSize -> Copies] BY <1>8, <1>11
<1>14. ImagesOK'
  <2>0. ImageKept BY <1>6, ImagesStay
  <2>1. ASSUME NEW p \in Pages PROVE ImageOK(file[p])'
    <3>1. PICK e : e = file'[p] OBVIOUS
    <3>2. e \in Images /\ ImageOK(e) BY <1>10, <3>1
    <3>3. ImageOK(e)' BY <2>0, <3>2 DEF ImageKept
    <3> QED BY <3>1, <3>3
  <2>2. ASSUME NEW i \in 1 .. DblSize PROVE ImageOK(dbl[i].image)'
    <3>1. PICK e : e = dbl'[i].image OBVIOUS
    <3>2. e \in Images /\ ImageOK(e) BY <1>11, <3>1 DEF Copies
    <3>3. ImageOK(e)' BY <2>0, <3>2 DEF ImageKept
    <3> QED BY <3>1, <3>3
  <2> QED BY <1>1, <2>1, <2>2 DEF ImagesOK
<1>15. TornOK'
  <2> SUFFICES ASSUME "early_return" \notin lapses PROVE TornOK' BY <1>2 DEF TornOK
  <2>1. ASSUME NEW p \in Pages, Exposed(p)' PROVE GoodCopy(p)'
    <3>1. pool'[p].io = "none" BY <1>2 DEF Block
    <3>2. file'[p] = Torn BY <1>1, <2>1, <3>1 DEF Exposed
    <3>3. GoodCopy(p) BY <1>10, <3>2 DEF RedoInv, TornOK
    <3>4. PICK i \in 1 .. DblSize :
            /\ dbl[i].page = p
            /\ \A j \in 1 .. i : /\ dbl[j] = dbldisk[j]
                                 /\ dbl[j].page = p => dbl[j].image # Torn
      BY <3>3 DEF GoodCopy
    <3>5. \A j \in 1 .. i : j \in 1 .. DblSize BY DblSizeAssumption
    <3>6. \A j \in 1 .. i : dbl'[j] = dbl[j] BY <1>11, <3>4, <3>5
    <3>7. i \in 1 .. i OBVIOUS
    <3> QED BY <1>1, <3>4, <3>6, <3>7 DEF GoodCopy
  <2>2. \A p \in Pages : pool'[p].io = "none" BY <1>2 DEF Block
  <2> QED BY <1>2, <2>1, <2>2 DEF TornOK
<1> QED BY <1>1, <1>5, <1>6, <1>12, <1>13, <1>14, <1>15, CrashCommon

-----------------------------------------------------------------------------
(* Recovery.                                                               *)

\* What recover_pages() leaves of a page: a torn one only where the doublewrite
\* area was used again under a running write.
LEMMA RestoredOK ==
  ASSUME RedoInv, NEW p \in Pages
  PROVE  /\ Restored(p) \in Images /\ ImageOK(Restored(p))
         /\ "early_return" \notin lapses => Restored(p) # Torn
         /\ \/ Restored(p) = file[p]
            \/ \E i \in 1 .. DblSize :
                 /\ dbl[i].page = p /\ Restored(p) = dbl[i].image
                 /\ \A j \in 1 .. DblSize : dbl[j].page = p => i <= j
<1>1. CASE file[p] # Torn BY <1>1 DEF Restored, RedoInv, Types, PageTypes, ImagesOK
<1>2. CASE file[p] = Torn /\ CopiesOf(p) = {}
  <2>1. Restored(p) = file[p] BY <1>2 DEF Restored
  <2>2. ~GoodCopy(p) BY <1>2 DEF GoodCopy, CopiesOf
  <2>3. "early_return" \in lapses BY <1>2, <2>2 DEF RedoInv, TornOK, Exposed
  <2> QED BY <2>1, <2>3 DEF RedoInv, Types, PageTypes, ImagesOK
<1>3. CASE file[p] = Torn /\ CopiesOf(p) # {}
  <2>3. CopiesOf(p) \in SUBSET Nat BY DblSizeAssumption DEF CopiesOf
  <2>4. \E i \in CopiesOf(p) : \A j \in CopiesOf(p) : i <= j BY <1>3, <2>3, LeastExists
  <2>5. PICK i : i = CHOOSE k \in CopiesOf(p) : \A j \in CopiesOf(p) : k <= j OBVIOUS
  <2>6. i \in CopiesOf(p) /\ \A j \in CopiesOf(p) : i <= j BY <2>4, <2>5
  <2>7. Restored(p) = dbl[i].image BY <1>3, <2>5 DEF Restored
  <2>8. i \in 1 .. DblSize /\ dbl[i].page = p BY <2>6 DEF CopiesOf
  <2>10. ASSUME "early_return" \notin lapses PROVE dbl[i].image # Torn
    <3>1. GoodCopy(p) BY <1>3, <2>10 DEF RedoInv, TornOK, Exposed
    <3>2. PICK g \in 1 .. DblSize :
            /\ dbl[g].page = p
            /\ \A j \in 1 .. g : /\ dbl[j] = dbldisk[j]
                                 /\ dbl[j].page = p => dbl[j].image # Torn
      BY <3>1 DEF GoodCopy
    <3>3. i \in 1 .. g BY <2>6, <2>8, <3>2, DblSizeAssumption DEF CopiesOf
    <3> QED BY <2>8, <3>2, <3>3
  <2>11. dbl[i].image \in Images /\ ImageOK(dbl[i].image)
    BY <2>8 DEF RedoInv, Types, PageTypes, Copies, ImagesOK
  <2>12. \A j \in 1 .. DblSize : dbl[j].page = p => i <= j BY <2>6 DEF CopiesOf
  <2> QED BY <2>7, <2>8, <2>10, <2>11, <2>12
<1> QED BY <1>1, <1>2, <1>3

\* The parts of a step of recovery that concern threads and pages.
LEMMA QuietThreads ==
  ASSUME RedoInv, phase # "up", HardKept, OnFileKept,
         UNCHANGED <<threadVars, m_flushed_to_disk_lsn, m_write_lsn, m_current_flush_lsn,
                     m_n_pending_writes, acked>>, m_written_to_all_lsn' \in Nat
  PROVE  /\ ThreadTypes' /\ LsnTypes' /\ LsnsOK' /\ WritersOK' /\ CallsOK'
         /\ \A t \in Threads : at[t] = "idle" /\ w[t] = "none"
         /\ "flusher" \in Threads /\ "checkpointer" \in Threads
<1>1. \A t \in Threads : at[t] = "idle" /\ w[t] = "none" BY DEF RedoInv, QuietOK
<1>2. UNCHANGED <<at, w, arg>> BY DEF threadVars
<1>3. ThreadTypes' /\ LsnTypes' BY <1>2 DEF RedoInv, Types, ThreadTypes, LsnTypes
<1>4. LsnsOK' BY <1>2, LsnsKept DEF RedoInv, Types
<1>5. WritersOK' BY <1>1, <1>2 DEF WritersOK
<1>6. CallsOK' BY <1>1, <1>2 DEF CallsOK, Waiting
<1>7. "flusher" \in Threads /\ "checkpointer" \in Threads BY DEF Threads, Others
<1> QED BY <1>1, <1>3, <1>4, <1>5, <1>6, <1>7

\* Recovery of the torn pages.
LEMMA RecoverPagesStep ==
  ASSUME RedoInv, RecoverPages
  PROVE  RedoInv' /\ file' = [p \in Pages |-> Restored(p)]
<1>1. /\ phase = "down" /\ file' = [p \in Pages |-> Restored(p)] /\ disk' = file' /\ dbldisk' = dbl
      /\ phase' = IF \E p \in Pages : file'[p] = Torn THEN "fatal" ELSE "scan"
      /\ UNCHANGED <<log, logVars, ckptVars, pool, m_bpages, logfile, logdisk,
                     dbl, slots, threadVars, crashes, acked, lapses>>
  BY DEF RecoverPages
<1>2. \A p \in Pages : /\ file'[p] \in Images /\ ImageOK(file'[p])
                       /\ "early_return" \notin lapses => file'[p] # Torn
  BY <1>1, RestoredOK
<1>3. phase' \in {"scan", "fatal"} /\ (phase' = "fatal" => "early_return" \in lapses) BY <1>1, <1>2
<1>4. LogsOK' /\ HardKept /\ OnFileKept /\ KnownKept BY <1>1, LogsSame DEF RedoInv
<1>5. UNCHANGED <<m_written_to_all_lsn, m_flushed_to_disk_lsn, m_write_lsn, m_current_flush_lsn,
                  m_n_pending_writes>> /\ UNCHANGED <<at, w, arg>>
  BY <1>1 DEF logVars, threadVars
<1>6. /\ ThreadTypes' /\ LsnTypes' /\ LsnsOK' /\ WritersOK' /\ CallsOK'
      /\ \A t \in Threads : at[t] = "idle" /\ w[t] = "none"
      /\ "flusher" \in Threads /\ "checkpointer" \in Threads
  <2>1. m_written_to_all_lsn' \in Nat BY <1>5 DEF RedoInv, Types, LsnTypes
  <2> QED BY <1>1, <1>4, <1>5, <2>1, QuietThreads
<1>7. LogTypes' BY <1>1, <1>3 DEF RedoInv, Types, LogTypes
<1>8. CheckpointTypes' BY <1>1 DEF RedoInv, Types, CheckpointTypes, ckptVars
<1>9. PageTypes'
  <2>1. file' \in [Pages -> Images] BY <1>1, <1>2
  <2> QED BY <1>1, <2>1 DEF RedoInv, Types, PageTypes
<1>10. CheckpointsOK'
  <2>1. \A i \in {0, 1} : slots[i].lsn - 1 \in Int BY DEF RedoInv, Types, CheckpointTypes
  <2>2. \A i \in {0, 1} : slots[i] = BadSlot \/
          /\ slots[i].no \in Nat /\ slots[i].no % 2 = i
          /\ slots[i].lsn >= 1 /\ Hard(slots[i].lsn - 1)'
    BY <1>1, <1>4, <2>1 DEF RedoInv, CheckpointsOK, HardKept
  <2>3. m_n_pending_checkpoint_writes # 1 BY <1>1 DEF RedoInv, CheckpointsOK
  <2>4. slots[0] # BadSlot \/ slots[1] # BadSlot BY DEF RedoInv, CheckpointsOK
  <2> QED BY <1>1, <1>3, <1>5, <1>6, <2>2, <2>3, <2>4 DEF CheckpointsOK, ckptVars
<1>11. QuietOK' BY <1>1, <1>5 DEF RedoInv, QuietOK
<1>12. BlocksOK'
  <2>1. log' \in Seq(LogRecords) /\ Len(log') >= Len(log) BY <1>1, LenProperties DEF RedoInv, Types, LogTypes
  <2> QED BY <1>1, <1>4, <2>1, BlocksKept DEF RedoInv, Types
<1>13. FlushOK' BY <1>1, <1>4, <1>5, FlushKept DEF RedoInv, Types
<1>14. ImagesOK'
  <2>0. ImageKept BY <1>4, ImagesStay
  <2>1. ASSUME NEW p \in Pages PROVE ImageOK(file[p])'
    <3>1. PICK e : e = file'[p] OBVIOUS
    <3>2. e \in Images /\ ImageOK(e) BY <1>2, <3>1
    <3>3. ImageOK(e)' BY <2>0, <3>2 DEF ImageKept
    <3> QED BY <3>1, <3>3
  <2>2. \A i \in 1 .. DblSize : dbl[i].image \in Images BY DEF RedoInv, Types, PageTypes, Copies
  <2>3. \A i \in 1 .. DblSize : ImageOK(dbl[i].image)'
    BY <1>1, <2>0, <2>2 DEF RedoInv, ImagesOK, ImageKept
  <2> QED BY <1>1, <2>1, <2>3 DEF ImagesOK
<1>15. TornOK'
  <2> SUFFICES ASSUME "early_return" \notin lapses PROVE TornOK' BY <1>1 DEF TornOK
  <2>1. \A p \in Pages : pool'[p].io = "none" BY <1>1 DEF RedoInv, QuietOK, Block
  <2>2. \A p \in Pages : ~Exposed(p)' BY <1>1, <1>2, <2>1 DEF Exposed
  <2> QED BY <1>1, <1>2, <2>1, <2>2 DEF TornOK
<1> QED BY <1>1, <1>4, <1>6, <1>7, <1>8, <1>9, <1>10, <1>11, <1>12, <1>13, <1>14, <1>15 DEF RedoInv, Types

\* recv_find_max_checkpoint() finds one, and the log reaches it.
LEMMA MaxCheckpointMeaning ==
  ASSUME RedoInv
  PROVE  /\ Consistent # {} /\ MaxCheckpoint.lsn <= Len(logfile)
         /\ MaxCheckpoint.lsn \in Nat /\ MaxCheckpoint.lsn >= 1 /\ Hard(MaxCheckpoint.lsn - 1)
         /\ MaxCheckpoint.no \in Nat
         /\ \E i \in Consistent : MaxCheckpoint = slots[i] /\ MaxCheckpoint.no % 2 = i
<1>0. slots \in [{0, 1} -> [no: Int, lsn: Nat]] BY DEF RedoInv, Types, CheckpointTypes
<1>1. \A i \in Consistent : i \in {0, 1} /\ slots[i].no \in Nat BY DEF Consistent, RedoInv, CheckpointsOK
<1>2. Consistent # {} BY DEF Consistent, RedoInv, CheckpointsOK
<1>3. \E i \in Consistent : \A j \in Consistent : slots[j].no <= slots[i].no
  <2>1. PICK i \in Consistent : TRUE BY <1>2
  <2>2. CASE \A j \in Consistent : slots[j].no <= slots[i].no BY <2>2
  <2>3. CASE ~\A j \in Consistent : slots[j].no <= slots[i].no
    <3>1. PICK j \in Consistent : ~(slots[j].no <= slots[i].no) BY <2>3
    <3>2. \A k \in Consistent : k = i \/ k = j BY <1>1, <3>1
    <3>3. \A k \in Consistent : slots[k].no <= slots[j].no BY <1>1, <3>1, <3>2
    <3> QED BY <3>3
  <2> QED BY <2>2, <2>3
<1>4. PICK i : i = CHOOSE k \in Consistent : \A j \in Consistent : slots[j].no <= slots[k].no OBVIOUS
<1>5. i \in Consistent BY <1>3, <1>4
<1>6. MaxCheckpoint = slots[i] BY <1>4 DEF MaxCheckpoint
<1>7. slots[i].lsn \in Nat BY <1>0, <1>1, <1>5
<1>8. slots[i].no % 2 = i /\ slots[i].lsn >= 1 /\ Hard(slots[i].lsn - 1)
  BY <1>5 DEF RedoInv, CheckpointsOK, Consistent
<1>9. slots[i].lsn - 1 < Len(logfile)
  <2>1. slots[i].lsn - 1 \in Int BY <1>7
  <2> QED BY <1>8, <2>1, HardBelow DEF RedoInv, Types
<1>10. slots[i].lsn <= Len(logfile)
  <2>1. Len(logfile) \in Nat BY LenProperties DEF RedoInv, Types, LogTypes
  <2> QED BY <1>7, <1>9, <2>1
<1> QED BY <1>1, <1>2, <1>5, <1>6, <1>7, <1>8, <1>10

\* What the scan of the log does.
LEMMA RecvScanEffect ==
  ASSUME RedoInv, RecvScan
  PROVE  /\ phase = "scan" /\ phase' = "synchronize"
         /\ log' = SubSeq(logfile, 1, RecoveredLsn(MaxCheckpoint.lsn) - 1)
         /\ m_next_checkpoint_lsn' = MaxCheckpoint.lsn
         /\ m_next_checkpoint_no' = MaxCheckpoint.no + 1
         /\ m_n_pending_checkpoint_writes' = 1
         /\ UNCHANGED <<m_last_checkpoint_lsn, logVars, pool, m_bpages, fileVars, threadVars,
                        crashes, acked, lapses>>
<1>1. Consistent # {} /\ MaxCheckpoint.lsn <= Len(logfile) /\ MaxCheckpoint.lsn \in Nat
  BY MaxCheckpointMeaning
<1>2. Len(logfile) \in Nat BY LenProperties DEF RedoInv, Types, LogTypes
<1>3. ~(Consistent = {} \/ MaxCheckpoint.lsn > Len(logfile)) BY <1>1, <1>2
<1> QED BY <1>3 DEF RecvScan

\* The log that recovery finds is the log up to a group that is hard.
LEMMA RecvScanLog ==
  ASSUME RedoInv, RecvScan
  PROVE  /\ log' \in Seq(LogRecords) /\ Len(log') <= Len(log)
         /\ log' = SubSeq(log, 1, Len(log'))
         /\ \A i \in 1 .. Len(log') : log'[i] = log[i]
         /\ \A n \in Int : Hard(n) => n <= Len(log')
         /\ LogsOK' /\ HardKept /\ OnFileKept /\ ImageKept
<1>1. PICK c \in Nat : c = MaxCheckpoint.lsn /\ c >= 1 /\ Hard(c - 1) BY MaxCheckpointMeaning
<1>2. log' = SubSeq(logfile, 1, RecoveredLsn(c) - 1) /\ UNCHANGED <<logfile, logdisk>>
  BY <1>1, RecvScanEffect DEF fileVars
<1> QED BY <1>1, <1>2, LogScanned DEF RedoInv, Types

\* The scan of the log.
LEMMA RecvScanStep ==
  ASSUME RedoInv, RecvScan
  PROVE  RedoInv'
<1>1. /\ phase = "scan" /\ phase' = "synchronize"
      /\ m_next_checkpoint_lsn' = MaxCheckpoint.lsn /\ m_next_checkpoint_no' = MaxCheckpoint.no + 1
      /\ m_n_pending_checkpoint_writes' = 1
      /\ UNCHANGED <<m_last_checkpoint_lsn, logVars, pool, m_bpages, fileVars, threadVars,
                     crashes, acked, lapses>>
  BY RecvScanEffect
<1>2. /\ log' \in Seq(LogRecords) /\ Len(log') <= Len(log)
      /\ LogsOK' /\ HardKept /\ OnFileKept /\ ImageKept
  BY RecvScanLog
<1>3. /\ UNCHANGED <<m_written_to_all_lsn, m_flushed_to_disk_lsn, m_write_lsn, m_current_flush_lsn,
                     m_n_pending_writes>> /\ UNCHANGED <<at, w, arg>>
      /\ UNCHANGED <<logfile, logdisk, file, disk, dbl, dbldisk, slots>>
  BY <1>1 DEF logVars, threadVars, fileVars
<1>4. /\ ThreadTypes' /\ LsnTypes' /\ LsnsOK' /\ WritersOK' /\ CallsOK'
      /\ \A t \in Threads : at[t] = "idle" /\ w[t] = "none"
      /\ "flusher" \in Threads /\ "checkpointer" \in Threads
  <2>1. m_written_to_all_lsn' \in Nat BY <1>3 DEF RedoInv, Types, LsnTypes
  <2> QED BY <1>1, <1>2, <1>3, <2>1, QuietThreads
<1>5. LogTypes'
  <2>1. Len(log) \in Nat /\ Len(log') \in Nat /\ Len(log) < MaxLsn /\ MaxLsn \in Nat
    BY <1>2, LenProperties, BoundsAssumption DEF RedoInv, Types, LogTypes
  <2>2. Len(log') < MaxLsn BY <1>2, <2>1
  <2> QED BY <1>1, <1>2, <1>3, <2>2 DEF RedoInv, Types, LogTypes
<1>6. PICK c \in Nat : c = MaxCheckpoint.lsn /\ c >= 1 /\ Hard(c - 1) BY MaxCheckpointMeaning
<1>7. PICK n \in Nat : n = MaxCheckpoint.no /\ n % 2 \in {0, 1} /\ slots[n % 2] # BadSlot
  BY MaxCheckpointMeaning DEF Consistent
<1>8. CheckpointTypes'
  BY <1>1, <1>3, <1>6, <1>7 DEF RedoInv, Types, CheckpointTypes
<1>9. PageTypes' BY <1>1, <1>3 DEF RedoInv, Types, PageTypes
<1>10. CheckpointsOK'
  <2>1. \A i \in {0, 1} : slots[i].lsn - 1 \in Int BY DEF RedoInv, Types, CheckpointTypes
  <2>2. \A i \in {0, 1} : slots[i] = BadSlot \/
          /\ slots[i].no \in Nat /\ slots[i].no % 2 = i
          /\ slots[i].lsn >= 1 /\ Hard(slots[i].lsn - 1)'
    BY <1>2, <1>3, <2>1 DEF RedoInv, CheckpointsOK, HardKept
  <2>3. slots[0] # BadSlot \/ slots[1] # BadSlot BY DEF RedoInv, CheckpointsOK
  <2>4. m_next_checkpoint_lsn' >= 1 /\ Hard(m_next_checkpoint_lsn - 1)'
    <3>1. Hard(c - 1)' BY <1>2, <1>6 DEF HardKept
    <3> QED BY <1>1, <1>6, <3>1 DEF Hard
  <2>5. (n + 1 + 1) % 2 = n % 2 BY <1>7
  <2>6. slots'[(m_next_checkpoint_no' + 1) % 2] # BadSlot BY <1>1, <1>3, <1>7, <2>5
  <2> QED BY <1>1, <1>3, <1>4, <2>2, <2>3, <2>4, <2>6 DEF CheckpointsOK
<1>11. QuietOK' BY <1>1, <1>3 DEF RedoInv, QuietOK
<1>12. pool' = [p \in Pages |-> Block(<<>>)] BY <1>1 DEF RedoInv, QuietOK
<1>13. BlocksOK'
  <2>1. \A p \in Pages : /\ pool'[p].recs = <<>> /\ pool'[p].oldest = Clean
                         /\ pool'[p].newest = 0 /\ pool'[p].io = "none"
    BY <1>12 DEF Block
  <2>2. m_lsn' \in Nat BY <1>2, LenProperties DEF m_lsn
  <2>3. DOMAIN <<>> = {} BY EmptySeq
  <2> QED BY <2>1, <2>2, <2>3 DEF BlocksOK
<1>14. FlushOK' BY <1>1, <1>2, <1>3, FlushKept DEF RedoInv, Types
<1>15. ImagesOK' BY <1>2, <1>3, ImagesKept DEF RedoInv, Types
<1>16. TornOK'
  <2>1. \A p \in Pages : Exposed(p)' => Exposed(p) BY <1>1, <1>3 DEF Exposed
  <2>2. \A p \in Pages : GoodCopy(p) => GoodCopy(p)' BY <1>3 DEF GoodCopy
  <2> QED BY <1>1, <1>3, <2>1, <2>2 DEF RedoInv, TornOK, Flusher
<1> QED BY <1>2, <1>4, <1>5, <1>8, <1>9, <1>10, <1>11, <1>13, <1>14, <1>15, <1>16 DEF RedoInv, Types

\* A record is misread: recovery stops.
LEMMA RecvMisreadStep ==
  ASSUME RedoInv, RecvMisread
  PROVE  RedoInv'
<1>1. /\ phase = "scan" /\ phase' = "fatal" /\ lapses' = lapses \cup {"misread"}
      /\ UNCHANGED <<log, logVars, ckptVars, pool, m_bpages, fileVars, threadVars, crashes, acked>>
  BY DEF RecvMisread
<1>2. UNCHANGED <<logfile, logdisk, file, disk, dbl, dbldisk, slots>> /\ UNCHANGED <<at, w, arg>>
      /\ UNCHANGED <<m_flushed_to_disk_lsn, m_write_lsn, m_current_flush_lsn, m_n_pending_writes>>
  BY <1>1 DEF fileVars, threadVars, logVars
<1>3. LogsOK' /\ HardKept /\ OnFileKept /\ KnownKept BY <1>1, <1>2, LogsSame DEF RedoInv
<1>4. log' \in Seq(LogRecords) /\ Len(log') >= Len(log) BY <1>1, LenProperties DEF RedoInv, Types, LogTypes
<1>5. ThreadTypes' /\ LsnTypes' /\ LsnsOK' /\ WritersOK' /\ CallsOK' BY <1>1, <1>3, <1>4, ThreadsSame
<1>6. LogTypes' BY <1>1, <1>2 DEF RedoInv, Types, LogTypes, Lapses
<1>7. CheckpointTypes' BY <1>1, <1>2 DEF RedoInv, Types, CheckpointTypes, ckptVars
<1>8. PageTypes' BY <1>1, <1>2 DEF RedoInv, Types, PageTypes
<1>9. CheckpointsOK'
  <2>1. \A i \in {0, 1} : slots[i].lsn - 1 \in Int BY DEF RedoInv, Types, CheckpointTypes
  <2>2. \A i \in {0, 1} : slots[i] = BadSlot \/
          /\ slots[i].no \in Nat /\ slots[i].no % 2 = i
          /\ slots[i].lsn >= 1 /\ Hard(slots[i].lsn - 1)'
    BY <1>2, <1>3, <2>1 DEF RedoInv, CheckpointsOK, HardKept
  <2>3. m_n_pending_checkpoint_writes # 1 BY <1>1 DEF RedoInv, CheckpointsOK
  <2>4. slots[0] # BadSlot \/ slots[1] # BadSlot BY DEF RedoInv, CheckpointsOK
  <2>5. at'["checkpointer"] = "write" => arg'["checkpointer"].lsn >= 1 BY <1>2 DEF RedoInv, CheckpointsOK
  <2> QED BY <1>1, <1>2, <2>2, <2>3, <2>4, <2>5 DEF CheckpointsOK, ckptVars
<1>10. QuietOK' BY <1>1, <1>2 DEF RedoInv, QuietOK
<1>11. BlocksOK' BY <1>1, <1>3, <1>4, BlocksKept DEF RedoInv, Types
<1>12. FlushOK' BY <1>1, <1>2, <1>3, FlushKept DEF RedoInv, Types
<1>13. ImagesOK' BY <1>2, <1>3, ImagesStay, ImagesKept DEF RedoInv, Types
<1>14. TornOK'
  <2>1. \A p \in Pages : Exposed(p)' => Exposed(p) BY <1>1, <1>2 DEF Exposed
  <2>2. \A p \in Pages : GoodCopy(p) => GoodCopy(p)' BY <1>2 DEF GoodCopy
  <2> QED BY <1>1, <1>2, <2>1, <2>2 DEF RedoInv, TornOK, Flusher
<1> QED BY <1>3, <1>5, <1>6, <1>7, <1>8, <1>9, <1>10, <1>11, <1>12, <1>13, <1>14 DEF RedoInv, Types

\* The lsns of the records that recovery applies to a page.
ToApply(p) == {i \in DOMAIN log : i >= Later(m_last_checkpoint_lsn, file[p].lsn) /\ log[i].page = p}

\* The page that recv_recover_page() leaves in the buffer pool.
LEMMA RecoveredBlock ==
  ASSUME RedoInv, NEW p \in Pages
  PROVE  /\ Recovered(p) \in Blocks /\ Recovered(p).io = "none"
         /\ Recovered(p).recs = ApplyRecords(file[p].recs, RecordsAt(log, ToApply(p)))
         /\ ToApply(p) = {} => Recovered(p).oldest = Clean /\ Recovered(p).newest = 0
         /\ ToApply(p) # {} => /\ Recovered(p).oldest \in ToApply(p) /\ Recovered(p).newest - 1 \in ToApply(p)
                               /\ \A i \in ToApply(p) : Recovered(p).oldest <= i /\ i < Recovered(p).newest
<1> DEFINE T == ToApply(p)
           todo == RecordsAt(log, T)
<1>0. log \in Seq(LogRecords) /\ T \in SUBSET (DOMAIN log) BY DEF RedoInv, Types, LogTypes, ToApply
<1>1. /\ IsFiniteSet(T) /\ T \in SUBSET Nat /\ Cardinality(T) \in Nat
      /\ todo \in Seq(Entries) /\ Len(todo) = Cardinality(T)
      /\ \A k \in 1 .. Cardinality(T) :
           /\ Nth(T, k) \in T
           /\ todo[k] = <<Nth(T, k), log[Nth(T, k)].inc, log[Nth(T, k)].page>>
  BY <1>0, RecordsAtSeq
<1>2. todo = <<>> <=> T = {} BY <1>0, RecordsAtNone
<1>3. Records(log, p, Later(m_last_checkpoint_lsn, file[p].lsn)) = todo BY DEF Records, ToApply
<1>4. file[p].recs \in Seq(Entries) BY DEF RedoInv, Types, PageTypes, Images
<1>5. CASE T = {}
  <2>1. Recovered(p) = Block(file[p].recs) BY <1>2, <1>3, <1>5 DEF Recovered
  <2>2. Recovered(p) \in Blocks /\ Recovered(p).io = "none" /\ Recovered(p).recs = file[p].recs
        /\ Recovered(p).oldest = Clean /\ Recovered(p).newest = 0
    BY <1>4, <2>1 DEF Block, Blocks, Clean
  <2>3. ApplyRecords(file[p].recs, todo) = file[p].recs
    BY <1>2, <1>4, <1>5, ConcatEmptySeq DEF ApplyRecords
  <2> QED BY <1>5, <2>2, <2>3
<1>6. CASE T # {}
  <2>1. Recovered(p) = [recs |-> ApplyRecords(file[p].recs, todo), newest |-> todo[Len(todo)][1] + 1,
                        oldest |-> todo[1][1], io |-> "none"]
    BY <1>2, <1>3, <1>6 DEF Recovered
  <2>2. ApplyRecords(file[p].recs, todo) \in Seq(Entries) BY <1>0, <1>4, AppliedRecords
  <2> HIDE DEF todo, T
  <2>3. PICK n \in Nat : n = Cardinality(T) BY <1>1
  <2>4. n >= 1
    <3>1. n # 0 BY <1>1, <1>6, <2>3, FS_EmptySet
    <3> QED BY <3>1
  <2>5. 1 \in 1 .. n /\ n \in 1 .. n BY <2>4
  <2>6. /\ Nth(T, 1) \in T /\ Nth(T, n) \in T
        /\ todo[1][1] = Nth(T, 1) /\ todo[Len(todo)][1] = Nth(T, n)
    BY <1>1, <2>3, <2>5
  <2>7. ASSUME NEW i \in T PROVE Nth(T, 1) <= i /\ i <= Nth(T, n)
    <3>1. PICK k \in 1 .. n : Nth(T, k) = i BY <1>1, <2>3, NthMeaning
    <3>2. 1 <= k /\ k <= n OBVIOUS
    <3> QED BY <1>1, <2>3, <2>5, <3>1, <3>2, NthIncreases
  <2>8. Nth(T, 1) \in Nat /\ Nth(T, n) \in Nat /\ \A i \in T : i \in Nat BY <1>1, <2>6
  <2>9. PICK a \in Nat, b \in Nat : a = Nth(T, 1) /\ b = Nth(T, n) BY <2>8
  <2>10. Recovered(p) = [recs |-> ApplyRecords(file[p].recs, todo), newest |-> b + 1,
                         oldest |-> a, io |-> "none"]
    BY <2>1, <2>6, <2>9
  <2>11. /\ Recovered(p) \in Blocks /\ Recovered(p).io = "none"
         /\ Recovered(p).recs = ApplyRecords(file[p].recs, todo)
         /\ Recovered(p).newest = b + 1 /\ Recovered(p).oldest = a
    BY <2>2, <2>10 DEF Blocks
  <2>12. a \in T /\ b + 1 - 1 \in T /\ \A i \in T : a <= i /\ i < b + 1
    <3>1. b + 1 - 1 = b OBVIOUS
    <3> QED BY <2>6, <2>7, <2>8, <2>9, <3>1
  <2> QED BY <1>6, <2>11, <2>12 DEF todo, T
<1> QED BY <1>5, <1>6

\* The records are applied.
LEMMA RecvApplyStep ==
  ASSUME RedoInv, RecvApply
  PROVE  RedoInv'
<1>1. /\ phase = "synchronize" /\ m_n_pending_checkpoint_writes = 0
      /\ m_written_to_all_lsn' = m_lsn /\ m_next_checkpoint_no' = m_next_checkpoint_no - 1
      /\ pool' = [p \in Pages |-> Recovered(p)] /\ phase' = "up"
      /\ UNCHANGED <<log, m_flushed_to_disk_lsn, m_write_lsn, m_current_flush_lsn,
                     m_n_pending_writes, m_next_checkpoint_lsn,
                     m_last_checkpoint_lsn, m_n_pending_checkpoint_writes,
                     m_bpages, fileVars, threadVars, crashes, acked, lapses>>
  BY DEF RecvApply
<1>2. UNCHANGED <<logfile, logdisk, file, disk, dbl, dbldisk, slots>> /\ UNCHANGED <<at, w, arg>>
  BY <1>1 DEF fileVars, threadVars
<1>3. LogsOK' /\ HardKept /\ OnFileKept /\ KnownKept BY <1>1, <1>2, LogsSame DEF RedoInv
<1>4. PICK m \in Nat : m = m_lsn /\ m = Len(log) + 1 /\ Len(log) \in Nat /\ DOMAIN log = 1 .. Len(log)
                       /\ m_lsn' = m
  BY <1>1, LenProperties DEF RedoInv, Types, LogTypes, m_lsn
<1>5. /\ ThreadTypes' /\ LsnTypes' /\ LsnsOK' /\ WritersOK' /\ CallsOK'
      /\ \A t \in Threads : at[t] = "idle" /\ w[t] = "none"
      /\ "flusher" \in Threads /\ "checkpointer" \in Threads
  <2>1. m_written_to_all_lsn' \in Nat BY <1>1, <1>4
  <2> QED BY <1>1, <1>3, <2>1, QuietThreads
<1>6. LogTypes' BY <1>1, <1>2 DEF RedoInv, Types, LogTypes
<1>7. PICK n \in Nat : n = m_next_checkpoint_no /\ n >= 1 /\ slots[n % 2] # BadSlot
  BY <1>1 DEF RedoInv, Types, CheckpointTypes, CheckpointsOK
<1>8. n - 1 \in Nat /\ n - 1 + 1 = n BY <1>7
<1>9. CheckpointTypes' BY <1>1, <1>2, <1>7, <1>8 DEF RedoInv, Types, CheckpointTypes
<1>10. CheckpointsOK'
  <2>1. \A i \in {0, 1} : slots[i].lsn - 1 \in Int BY DEF RedoInv, Types, CheckpointTypes
  <2>2. \A i \in {0, 1} : slots[i] = BadSlot \/
          /\ slots[i].no \in Nat /\ slots[i].no % 2 = i
          /\ slots[i].lsn >= 1 /\ Hard(slots[i].lsn - 1)'
    BY <1>2, <1>3, <2>1 DEF RedoInv, CheckpointsOK, HardKept
  <2>3. slots[0] # BadSlot \/ slots[1] # BadSlot BY DEF RedoInv, CheckpointsOK
  <2>4. slots'[(m_next_checkpoint_no' + 1) % 2] # BadSlot BY <1>1, <1>2, <1>7, <1>8
  <2> QED BY <1>1, <1>2, <1>5, <2>2, <2>3, <2>4 DEF CheckpointsOK
<1>11. QuietOK' BY <1>1 DEF QuietOK
<1>12. \A p \in Pages : pool'[p] \in Blocks /\ pool'[p].io = "none" BY <1>1, RecoveredBlock
<1>13. m_bpages = <<>> BY <1>1 DEF RedoInv, QuietOK
<1>14. PageTypes'
  <2>1. pool' \in [Pages -> Blocks] BY <1>1, <1>12
  <2> QED BY <1>1, <1>2, <2>1 DEF RedoInv, Types, PageTypes
<1>15. BlocksOK'
  <2>1. ASSUME NEW p \in Pages
        PROVE  /\ \A k \in DOMAIN pool'[p].recs : Known(pool[p].recs[k])'
               /\ pool'[p].oldest # Clean =>
                    /\ pool'[p].newest >= 1 /\ pool'[p].newest <= m /\ pool'[p].oldest < m
                    /\ \A k \in DOMAIN pool'[p].recs : pool'[p].recs[k][1] < pool'[p].newest
               /\ pool'[p].newest <= m
    <3> DEFINE T == ToApply(p)
    <3>0. pool'[p] = Recovered(p) BY <1>1
    <3>1. /\ pool'[p] \in Blocks /\ pool'[p].recs = ApplyRecords(file[p].recs, RecordsAt(log, T))
          /\ T = {} => pool'[p].oldest = Clean /\ pool'[p].newest = 0
          /\ T # {} => /\ pool'[p].oldest \in T /\ pool'[p].newest - 1 \in T
                       /\ \A i \in T : pool'[p].oldest <= i /\ i < pool'[p].newest
      BY <3>0, RecoveredBlock
    <3>2. file[p].recs \in Seq(Entries) /\ file[p].lsn \in Nat BY DEF RedoInv, Types, PageTypes, Images
    <3>3. log \in Seq(LogRecords) /\ T \in SUBSET (DOMAIN log) BY DEF RedoInv, Types, LogTypes, ToApply
    <3>4. \A i \in T : i >= file[p].lsn
      <4>1. m_last_checkpoint_lsn \in Nat BY DEF RedoInv, Types, CheckpointTypes
      <4>2. Later(m_last_checkpoint_lsn, file[p].lsn) \in Nat
            /\ Later(m_last_checkpoint_lsn, file[p].lsn) >= file[p].lsn
        BY <3>2, <4>1 DEF Later
      <4>3. \A i \in T : i \in Nat /\ i >= Later(m_last_checkpoint_lsn, file[p].lsn) BY <1>4 DEF ToApply
      <4> QED BY <3>2, <4>2, <4>3
    <3>5. \A k \in DOMAIN file[p].recs : Known(file[p].recs[k]) /\ file[p].recs[k][1] < file[p].lsn
      BY DEF RedoInv, ImagesOK, ImageOK
    <3> HIDE DEF T
    <3>6. PICK a \in Nat, b \in Nat : a = pool'[p].newest /\ b = pool'[p].oldest BY <3>1 DEF Blocks
    <3>7. \A e \in {pool'[p].recs[k] : k \in DOMAIN pool'[p].recs} :
            \/ \E j \in DOMAIN file[p].recs : e = file[p].recs[j]
            \/ \E i \in T : e = <<i, log[i].inc, log[i].page>>
      BY <3>1, <3>2, <3>3, AppliedRecords
    <3>8. ASSUME NEW e \in {pool'[p].recs[k] : k \in DOMAIN pool'[p].recs}
          PROVE  Known(e) /\ (T # {} => e[1] < a)
      <4>1. CASE \E j \in DOMAIN file[p].recs : e = file[p].recs[j]
        <5>1. Known(e) /\ e[1] < file[p].lsn BY <3>5, <4>1
        <5>2. e[1] \in Nat BY <1>4, <5>1 DEF Known
        <5>3. ASSUME T # {} PROVE e[1] < a
          <6>1. PICK i \in T : TRUE BY <5>3
          <6>2. i \in Nat /\ i >= file[p].lsn /\ i < a BY <1>4, <3>1, <3>3, <3>4, <3>6
          <6> QED BY <3>2, <5>1, <5>2, <6>2
        <5> QED BY <5>1, <5>3
      <4>2. CASE \E i \in T : e = <<i, log[i].inc, log[i].page>>
        <5>1. PICK i \in T : e = <<i, log[i].inc, log[i].page>> BY <4>2
        <5>2. e[1] = i /\ i \in DOMAIN log BY <3>3, <5>1
        <5>3. Known(e) BY <5>1, <5>2 DEF Known
        <5> QED BY <3>1, <3>6, <5>2, <5>3
      <4> QED BY <3>7, <4>1, <4>2
    <3>9. \A k \in DOMAIN pool'[p].recs : Known(pool[p].recs[k])' BY <1>1, <3>8 DEF Known
    <3>10. T # {} => a >= 1 /\ a <= m /\ b < m
      <4> SUFFICES ASSUME T # {} PROVE a >= 1 /\ a <= m /\ b < m OBVIOUS
      <4>1. a - 1 \in 1 .. Len(log) /\ b \in 1 .. Len(log) BY <1>4, <3>1, <3>3, <3>6
      <4> QED BY <1>4, <4>1
    <3>11. T = {} => a <= m BY <1>4, <3>1, <3>6
    <3> QED BY <3>1, <3>6, <3>8, <3>9, <3>10, <3>11
  <2> QED BY <1>4, <1>12, <2>1 DEF BlocksOK
<1>16. FlushOK'
  <2>1. DOMAIN m_bpages = {} BY <1>13, EmptySeq
  <2> QED BY <1>1, <1>2, <1>5, <1>12, <2>1 DEF FlushOK, Flusher
<1>17. ImagesOK' BY <1>2, <1>3, ImagesStay, ImagesKept DEF RedoInv, Types
<1>18. TornOK'
  <2> SUFFICES ASSUME "early_return" \notin lapses PROVE TornOK' BY <1>1 DEF TornOK
  <2>1. file = disk /\ \A p \in Pages : file[p] # Torn /\ disk[p] # Torn
    BY <1>1, <1>5 DEF RedoInv, TornOK, Flusher
  <2>2. \A p \in Pages : ~Exposed(p)' BY <1>2, <1>12, <2>1 DEF Exposed
  <2> QED BY <1>2, <1>12, <2>1, <2>2 DEF TornOK
<1> QED BY <1>3, <1>5, <1>6, <1>9, <1>10, <1>11, <1>14, <1>15, <1>16, <1>17, <1>18 DEF RedoInv, Types

-----------------------------------------------------------------------------
(* The specification.                                                      *)

\* A database that was just created.
LEMMA RedoInit ==
  ASSUME Init
  PROVE  RedoInv
<1>1. <<>> \in Seq(Pages) /\ <<>> \in Seq(Entries) /\ <<>> \in Seq(LogRecords)
      /\ Len(<<>>) = 0 /\ DOMAIN <<>> = {}
  BY EmptySeq
<1>2. log = <<>> /\ logfile = <<EndMark>> /\ logdisk = <<EndMark>> /\ phase = "up" BY DEF Init
<1>3. <<EndMark>> \in Seq(LogRecords \cup {EndMark}) /\ Len(<<EndMark>>) = 1 /\ DOMAIN <<EndMark>> = {1}
      /\ <<EndMark>>[1] = EndMark /\ EndMark.last = FALSE
  BY DEF EndMark
<1>4. LogTypes
  <2>1. Len(log) < MaxLsn BY <1>1, <1>2, BoundsAssumption
  <2>2. crashes \in 0 .. MaxCrashes
    <3>1. crashes = 0 /\ MaxCrashes \in Nat BY BoundsAssumption DEF Init
    <3> QED BY <3>1
  <2>5. lapses \subseteq Lapses BY DEF Init
  <2>3. log \in Seq(LogRecords) BY <1>1, <1>2
  <2>4. logfile \in Seq(LogRecords \cup {EndMark}) /\ logdisk \in Seq(LogRecords \cup {EndMark}) BY <1>2, <1>3
  <2> QED BY <1>2, <2>1, <2>2, <2>3, <2>4, <2>5 DEF LogTypes
<1>5. LsnTypes BY DEF LsnTypes, Init
<1>6. CheckpointTypes BY DEF CheckpointTypes, Init
<1>7. PageTypes
  <2>1. Block(<<>>) \in Blocks BY <1>1 DEF Block, Blocks, Clean
  <2>2. Image(1, <<>>) \in Images BY <1>1 DEF Image, Images
  <2>3. [page |-> NoPage, image |-> Torn] \in Copies BY <1>1 DEF Copies, Torn, Images
  <2> QED BY <1>1, <2>1, <2>2, <2>3, DblSizeAssumption DEF PageTypes, Init
<1>8. ThreadTypes BY DEF ThreadTypes, Init, NoCall, Calls
<1>9. LogsOK BY <1>1, <1>2, <1>3 DEF LogsOK, Agrees
<1>10. Hard(0) /\ Hard(-1) /\ OnFile(0)
  <2>1. 0 \in 0 .. Len(logfile) - 1 /\ 0 < Len(logdisk) BY <1>2, <1>3
  <2>2. 0 >= 0 /\ 0 >= -1 OBVIOUS
  <2> QED BY <2>1, <2>2 DEF Hard, OnFile
<1>11. LsnsOK
  <2>1. m_write_lsn - 1 = 0 /\ m_current_flush_lsn - 1 = 0 /\ m_flushed_to_disk_lsn - 1 = 0 /\ acked = 0
    BY DEF Init
  <2> QED BY <1>10, <2>1 DEF LsnsOK
<1>12. WritersOK BY DEF WritersOK, Init
<1>13. CallsOK BY DEF CallsOK, Init, Waiting
<1>14. CheckpointsOK
  <2>1. \A i \in {0, 1} : slots[i].no = i /\ slots[i].lsn = 1 BY DEF Init
  <2>2. \A i \in {0, 1} : slots[i].lsn - 1 = 0 BY <2>1
  <2>3. \A i \in {0, 1} : slots[i] # BadSlot BY <2>1 DEF BadSlot
  <2>4. at["checkpointer"] = "idle" BY DEF Init, Threads, Others
  <2>5. \A i \in {0, 1} : i \in Nat /\ i % 2 = i OBVIOUS
  <2>6. (m_next_checkpoint_no + 1) % 2 \in {0, 1} BY DEF Init
  <2>7. m_n_pending_checkpoint_writes = 0 BY DEF Init
  <2> QED BY <1>2, <1>10, <2>1, <2>2, <2>3, <2>4, <2>5, <2>6, <2>7 DEF CheckpointsOK
<1>15. QuietOK BY <1>2 DEF QuietOK
<1>16. \A p \in Pages : pool[p].recs = <<>> /\ pool[p].newest = 0 /\ pool[p].oldest = Clean /\ pool[p].io = "none"
  BY DEF Init, Block
<1>17. BlocksOK
  <2>1. m_lsn = 1 BY <1>1, <1>2 DEF m_lsn
  <2> QED BY <1>1, <1>16, <2>1 DEF BlocksOK
<1>18. FlushOK
  <2>1. at["flusher"] = "idle" /\ m_bpages = <<>> BY DEF Init, Threads, Others
  <2> QED BY <1>1, <1>16, <2>1 DEF FlushOK, Flusher
<1>19. ImagesOK
  <2>1. \A p \in Pages : file[p].lsn = 1 /\ file[p].recs = <<>> /\ disk[p] = file[p]
    BY DEF Init, Image
  <2>2. \A i \in 1 .. DblSize : /\ dbl[i].image.lsn = 0 /\ dbl[i].image.recs = <<>>
                                /\ dbldisk[i].image = dbl[i].image
    BY DEF Init, Torn
  <2>3. \A p \in Pages : ImageOK(file[p]) /\ ImageOK(disk[p])
    <3>1. \A p \in Pages : file[p].lsn - 1 = 0 BY <2>1
    <3> QED BY <1>1, <1>10, <2>1, <3>1 DEF ImageOK
  <2>4. \A i \in 1 .. DblSize : ImageOK(dbl[i].image) /\ ImageOK(dbldisk[i].image)
    <3>1. \A i \in 1 .. DblSize : dbl[i].image.lsn - 1 = -1 BY <2>2
    <3> QED BY <1>1, <1>10, <2>2, <3>1 DEF ImageOK
  <2> QED BY <2>3, <2>4 DEF ImagesOK
<1>20. TornOK
  <2>1. file = disk /\ \A p \in Pages : file[p].lsn = 1 BY DEF Init, Image
  <2>2. \A p \in Pages : file[p] # Torn /\ disk[p] # Torn BY <2>1 DEF Torn
  <2>3. \A p \in Pages : ~Exposed(p) BY <1>16, <2>1, <2>2 DEF Exposed
  <2> QED BY <1>16, <2>1, <2>2, <2>3 DEF TornOK
<1> QED BY <1>4, <1>5, <1>6, <1>7, <1>8, <1>9, <1>11, <1>12, <1>13, <1>14, <1>15, <1>17, <1>18, <1>19, <1>20
        DEF RedoInv, Types

\* Nothing changes.
LEMMA RedoStutter ==
  ASSUME RedoInv, UNCHANGED vars
  PROVE  RedoInv'
<1>1. UNCHANGED <<log, logVars, ckptVars, pool, m_bpages, fileVars, threadVars, phase, crashes, acked, lapses>>
  BY DEF vars
<1>2. UNCHANGED <<logfile, logdisk, file, disk, dbl, dbldisk, slots>> /\ UNCHANGED <<at, w, arg>>
      /\ UNCHANGED <<m_flushed_to_disk_lsn, m_write_lsn, m_current_flush_lsn, m_n_pending_writes>>
  BY <1>1 DEF fileVars, threadVars, logVars
<1>3. LogsOK' /\ HardKept /\ OnFileKept /\ KnownKept BY <1>1, <1>2, LogsSame DEF RedoInv
<1>4. log' \in Seq(LogRecords) /\ Len(log') >= Len(log) BY <1>1, LenProperties DEF RedoInv, Types, LogTypes
<1>5. ThreadTypes' /\ LsnTypes' /\ LsnsOK' /\ WritersOK' /\ CallsOK' BY <1>1, <1>3, <1>4, ThreadsSame
<1>6. LogTypes' BY <1>1, <1>2 DEF RedoInv, Types, LogTypes
<1>7. CheckpointTypes' BY <1>1, <1>2 DEF RedoInv, Types, CheckpointTypes, ckptVars
<1>8. PageTypes' BY <1>1, <1>2 DEF RedoInv, Types, PageTypes
<1>9. CheckpointsOK'
  <2>1. at'["checkpointer"] = "write" => arg'["checkpointer"].lsn >= 1 BY <1>2 DEF RedoInv, CheckpointsOK
  <2> QED BY <1>1, <1>2, <1>3, <2>1, CheckpointsKept DEF RedoInv, Types
<1>10. QuietOK' BY <1>1, <1>2 DEF RedoInv, QuietOK
<1>11. BlocksOK' BY <1>1, <1>3, <1>4, BlocksKept DEF RedoInv, Types
<1>12. FlushOK' BY <1>1, <1>2, <1>3, FlushKept DEF RedoInv, Types
<1>13. ImagesOK' BY <1>2, <1>3, ImagesStay, ImagesKept DEF RedoInv, Types
<1>14. TornOK' BY <1>1, <1>2, TornKept DEF RedoInv
<1> QED BY <1>3, <1>5, <1>6, <1>7, <1>8, <1>9, <1>10, <1>11, <1>12, <1>13, <1>14 DEF RedoInv, Types

\* Every step keeps the invariant.
LEMMA RedoNext ==
  ASSUME RedoInv, Next
  PROVE  RedoInv'
<1>1. ASSUME NEW t \in Clients, NEW ps \in PageLists, MtrCommit(t, ps) \/ TrxCommit(t, ps) PROVE RedoInv'
  BY <1>1, MtrCommitStep, TrxCommitStep
<1>2. ASSUME NEW t \in Clients, Ack(t) PROVE RedoInv' BY <1>2, AckStep
<1>3. ASSUME NEW l \in GarbageLsns \cup {m_lsn}, NEW flush \in BOOLEAN, WriteInBackground(l, flush)
      PROVE  RedoInv'
  <2>1. m_lsn \in Nat BY LenProperties DEF RedoInv, Types, LogTypes, m_lsn
  <2>2. l \in Nat BY <2>1, BoundsAssumption
  <2> QED BY <1>3, <2>2, WriteInBackgroundStep
<1>4. ASSUME NEW t \in Threads, WriteUpTo(t) PROVE RedoInv' BY <1>4, WriteUpToStep
<1>5. ASSUME NEW p \in Pages, FlushPage(p) \/ PostPage(p) \/ PageIoComplete(p) PROVE RedoInv'
  BY <1>5, FlushPageStep, PostPageStep, PageIoCompleteStep
<1>6. CASE DblWrite \/ DblSync \/ SyncDatafiles BY <1>6, DblWriteStep, DblSyncStep, SyncDatafilesStep
<1>7. CASE CheckpointSync \/ CheckpointOldest \/ CheckpointWrite \/ CheckpointIoComplete
  BY <1>7, CheckpointSyncStep, CheckpointOldestStep, CheckpointWriteStep, CheckpointIoCompleteStep
<1>8. CASE Kill \/ PowerFailure BY <1>8, KillStep, PowerFailureStep
<1>9. CASE RecoverPages \/ RecvScan \/ RecvMisread \/ RecvApply
  BY <1>9, RecoverPagesStep, RecvScanStep, RecvMisreadStep, RecvApplyStep
<1> QED BY <1>1, <1>2, <1>3, <1>4, <1>5, <1>6, <1>7, <1>8, <1>9 DEF Next

(* The invariant holds for any clients, pages, faults, size of the
   doublewrite buffer and bounds of the model. *)
THEOREM RedoInvariant == Spec => []RedoInv
<1>1. Init => RedoInv BY RedoInit
<1>2. RedoInv /\ [Next]_vars => RedoInv' BY RedoNext, RedoStutter
<1> QED BY <1>1, <1>2, PTL DEF Spec

(* The type invariant of the run. *)
THEOREM RedoTypes == Spec => []TypeOK
<1>1. RedoInv => TypeOK
  <2> SUFFICES ASSUME RedoInv PROVE TypeOK OBVIOUS
  <2>1. ASSUME NEW i \in DOMAIN log PROVE log[i].page \in Pages /\ log[i].inc \in 0 .. MaxCrashes
    <3>1. log[i] \in LogRecords BY DEF RedoInv, Types, LogTypes
    <3> QED BY <3>1 DEF LogRecords
  <2>2. ASSUME NEW p \in Pages
        PROVE  /\ pool[p].io \in {"none", "fixed", "posted", "write"}
               /\ pool[p].oldest < MaxLsn /\ pool[p].newest <= MaxLsn
    <3>1. pool[p] \in Blocks BY DEF RedoInv, Types, PageTypes
    <3>2. pool[p].io \in {"none", "fixed", "posted", "write"} /\ pool[p].oldest \in Nat /\ pool[p].newest \in Nat
      BY <3>1 DEF Blocks
    <3>3. Len(log) \in Nat /\ Len(log) < MaxLsn /\ MaxLsn \in Nat /\ MaxLsn >= 1
      BY LenProperties, BoundsAssumption DEF RedoInv, Types, LogTypes
    <3>4. pool[p].newest <= Len(log) + 1 /\ (pool[p].oldest # Clean => pool[p].oldest < Len(log) + 1)
      BY DEF RedoInv, BlocksOK, m_lsn
    <3> QED BY <3>2, <3>3, <3>4 DEF Clean
  <2>3. m_n_pending_writes \in {0, 1} /\ m_n_pending_checkpoint_writes \in {0, 1} /\ Len(m_bpages) <= DblSize
    BY DEF RedoInv, Types, LsnTypes, CheckpointTypes, PageTypes
  <2>4. \A t \in Threads : w[t] \in {"none", "enter", "fsync", "complete", "joined", "asleep"}
    BY DEF RedoInv, Types, ThreadTypes
  <2>5. phase \in {"up", "down", "scan", "synchronize", "fatal"} BY DEF RedoInv, Types, LogTypes
  <2>6. lapses \subseteq Lapses BY DEF RedoInv, Types, LogTypes
  <2> QED BY <2>1, <2>2, <2>3, <2>4, <2>5, <2>6 DEF TypeOK
<1> QED BY <1>1, RedoInvariant, PTL

(* In a history in which wait_for_pending_ops() never returned with a page
   write running, and no record was taken for another one, recovery never
   finds a torn page without a good copy, a header without a checkpoint, or a
   log that ends before the checkpoint: recover_pages() and
   recv_recovery_from_checkpoint_start() do not give up. *)
THEOREM RecoveryIsPossible == Spec => []RecoveryPossible
<1>1. RedoInv => RecoveryPossible BY DEF RedoInv, Types, LogTypes, RecoveryPossible
<1> QED BY <1>1, RedoInvariant, PTL

(* Write-ahead logging: Buf_flush::write_block_low() flushes the log before a
   page, so that no image in a data file or in the doublewrite area has a
   record that the log on disk has not. *)
THEOREM WriteAheadHolds == Spec => []WriteAhead
<1>1. RedoInv => WriteAhead
  <2> SUFFICES ASSUME RedoInv PROVE WriteAhead OBVIOUS
  <2>1. ASSUME NEW image \in Images, ImageOK(image) PROVE OnLogDisk(image)
    <3> SUFFICES ASSUME NEW i \in DOMAIN image.recs
                 PROVE  /\ image.recs[i][1] <= Len(logdisk) /\ logdisk[image.recs[i][1]] # EndMark
                        /\ logdisk[image.recs[i][1]].inc = image.recs[i][2]
                        /\ logdisk[image.recs[i][1]].page = image.recs[i][3]
      BY DEF OnLogDisk
    <3>0. image.lsn \in Nat /\ image.lsn - 1 \in Int BY DEF Images
    <3>1. Hard(image.lsn - 1) /\ Known(image.recs[i]) /\ image.recs[i][1] < image.lsn BY <2>1 DEF ImageOK
    <3>2. PICK j \in Nat : /\ j >= image.lsn - 1 /\ j < Len(logdisk) /\ j <= Len(log)
                           /\ \A k \in 1 .. j : logdisk[k] = log[k]
      BY <3>0, <3>1, HardMeaning DEF RedoInv, Types
    <3>3. PICK n \in 1 .. Len(log) : n = image.recs[i][1]
      BY <3>1, LenProperties DEF Known, RedoInv, Types, LogTypes
    <3>4. Len(log) \in Nat /\ Len(logdisk) \in Nat BY LenProperties DEF RedoInv, Types, LogTypes
    <3>5. n \in 1 .. j /\ n <= Len(logdisk) BY <3>0, <3>1, <3>2, <3>3, <3>4
    <3>6. logdisk[n] = log[n] /\ log[n] # EndMark BY <3>2, <3>5, NotEndMark DEF RedoInv, Types
    <3>7. image.recs[i] = <<n, log[n].inc, log[n].page>> BY <3>1, <3>3 DEF Known
    <3>8. image.recs[i][2] = log[n].inc /\ image.recs[i][3] = log[n].page BY <3>7
    <3> QED BY <3>3, <3>5, <3>6, <3>8
  <2>2. \A p \in Pages : file[p] \in Images /\ disk[p] \in Images BY DEF RedoInv, Types, PageTypes
  <2>3. \A i \in 1 .. DblSize : dbl[i].image \in Images /\ dbldisk[i].image \in Images
    BY DEF RedoInv, Types, PageTypes, Copies
  <2> QED BY <2>1, <2>2, <2>3 DEF RedoInv, ImagesOK, WriteAhead
<1> QED BY <1>1, RedoInvariant, PTL

-----------------------------------------------------------------------------
(* The abstract log.                                                       *)

\* A mini-transaction adds a whole group.
LEMMA CommitExtends ==
  ASSUME RedoInv, NEW t, NEW ps \in PageLists, mtr_commit(t, ps),
         UNCHANGED <<fileVars, phase, crashes, lapses, acked>>
  PROVE  Durable!Extend
<1>0. Len(log) \in Nat /\ log \in Seq(LogRecords) BY LenProperties DEF RedoInv, Types, LogTypes
<1>1. /\ log' \in Seq(LogRecords) /\ Len(log') = Len(log) + Len(ps)
      /\ Len(ps) \in Nat /\ Len(ps) >= 1
      /\ \A i \in 1 .. Len(log) : log'[i] = log[i]
  BY CommitLog
<1>2. /\ Group(ps) \in Seq(LogRecords) /\ Len(Group(ps)) = Len(ps)
      /\ \A i \in 1 .. Len(ps) : Group(ps)[i].last <=> i = Len(ps)
  BY GroupSeq DEF RedoInv, Types
<1>3. log' = log \o Group(ps) BY DEF mtr_commit, write_low
<1>4. \A i \in 1 .. Len(log) + Len(ps) : i > Len(log) => log'[i] = Group(ps)[i - Len(log)]
  <2>1. \A i \in 1 .. Len(log) + Len(Group(ps)) : (log \o Group(ps))[i] =
          IF i <= Len(log) THEN log[i] ELSE Group(ps)[i - Len(log)]
    BY <1>0, <1>2, ConcatProperties
  <2> QED BY <1>0, <1>2, <1>3, <2>1
<1>5. ASSUME NEW i \in Len(log) + 1 .. Len(log') PROVE log'[i].last <=> i = Len(log')
  <2>0. i - Len(log) \in 1 .. Len(ps) BY <1>0, <1>1
  <2>1. PICK k \in 1 .. Len(ps) : k = i - Len(log) BY <2>0
  <2>2. i = Len(log) + k /\ i \in 1 .. Len(log) + Len(ps) /\ i > Len(log) BY <1>0, <1>1, <2>1
  <2>3. log'[i] = Group(ps)[k] BY <1>4, <2>1, <2>2
  <2>4. i = Len(log') <=> k = Len(ps) BY <1>0, <1>1, <2>2
  <2> QED BY <1>2, <2>3, <2>4
<1>6. SubSeq(log', 1, Len(log)) = log
  <2> DEFINE s == SubSeq(log', 1, Len(log))
  <2>0. \A i \in 1 .. Len(log) : log'[i] \in LogRecords BY <1>0, <1>1
  <2>1. /\ s \in Seq(LogRecords)
        /\ Len(s) = IF 1 <= Len(log) THEN Len(log) - 1 + 1 ELSE 0
        /\ \A i \in 1 .. Len(log) - 1 + 1 : s[i] = log'[1 + i - 1]
    BY <1>0, <1>1, <2>0, SubSeqProperties
  <2>2. Len(s) = Len(log) /\ \A i \in 1 .. Len(log) : s[i] = log[i] BY <1>0, <1>1, <2>1
  <2> HIDE DEF s
  <2> QED BY <1>0, <2>1, <2>2, SeqEqual DEF s
<1>7. Len(log') > Len(log) BY <1>0, <1>1
<1> QED BY <1>5, <1>6, <1>7 DEF Durable!Extend

\* Every step is a step of the abstract log or leaves it alone.
LEMMA RedoImplements ==
  ASSUME RedoInv, Next
  PROVE  Durable!Next \/ UNCHANGED <<log, acked>>
<1>1. ASSUME NEW t \in Clients, NEW ps \in PageLists, MtrCommit(t, ps) \/ TrxCommit(t, ps)
      PROVE  Durable!Extend
  BY <1>1, CommitExtends DEF MtrCommit, TrxCommit
<1>2. ASSUME NEW t \in Clients, Ack(t) PROVE Durable!Acknowledge
  <2>0. t \in Threads BY DEF Threads
  <2>1. acked' \in Nat /\ Hard(acked') BY <1>2, AckStep
  <2>2. PICK a \in Nat : a = acked' BY <2>1
  <2>3. a \in Int /\ Hard(a) BY <2>1, <2>2
  <2>4. a <= Len(log) BY <2>3, HardBelow DEF RedoInv, Types
  <2>5. acked \in Nat /\ arg[t].lsn \in Nat /\ Len(log) \in Nat
    BY <2>0, LenProperties DEF RedoInv, Types, LsnTypes, LogTypes, ThreadTypes, Calls
  <2>6. acked' = Later(acked, arg[t].lsn - 1) /\ log' = log BY <1>2 DEF Ack
  <2>7. a >= acked BY <2>2, <2>5, <2>6 DEF Later
  <2> QED BY <2>2, <2>4, <2>5, <2>6, <2>7 DEF Durable!Acknowledge
<1>3. ASSUME RecvScan PROVE Durable!Recover
  <2>1. /\ log' \in Seq(LogRecords) /\ Len(log') <= Len(log) /\ log' = SubSeq(log, 1, Len(log'))
        /\ \A n \in Int : Hard(n) => n <= Len(log')
        /\ LogsOK'
    BY <1>3, RecvScanLog
  <2>2. acked \in Nat /\ acked \in Int /\ Hard(acked) BY DEF RedoInv, Types, LsnTypes, LsnsOK
  <2>3. acked <= Len(log') BY <2>1, <2>2
  <2>4. PICK n \in Nat : n = Len(log') BY <2>1, LenProperties
  <2>5. n \in acked .. Len(log) /\ log' = SubSeq(log, 1, n)
    <3>1. Len(log) \in Nat BY LenProperties DEF RedoInv, Types, LogTypes
    <3>2. n <= Len(log) /\ acked <= n BY <2>1, <2>3, <2>4
    <3>3. n \in acked .. Len(log) BY <2>2, <2>4, <3>1, <3>2
    <3> QED BY <2>1, <2>4, <3>3, Zenon
  <2>6. log' = <<>> \/ log'[Len(log')].last BY <2>1 DEF LogsOK
  <2>7. acked' = acked BY <1>3 DEF RecvScan
  <2> QED BY <2>5, <2>6, <2>7, Zenon DEF Durable!Recover, Durable!Whole
<1>4. ASSUME NEW l, NEW flush, WriteInBackground(l, flush) PROVE UNCHANGED <<log, acked>>
  BY <1>4 DEF WriteInBackground
<1>5. ASSUME NEW t \in Threads, WriteUpTo(t) PROVE UNCHANGED <<log, acked>>
  <2>1. CASE WriteEnough(t) BY <2>1 DEF WriteEnough
  <2>2. CASE WriteJoin(t) BY <2>2 DEF WriteJoin
  <2>3. CASE WriteRetry(t) BY <2>3 DEF WriteRetry
  <2>4. CASE WriteNothing(t) BY <2>4 DEF WriteNothing
  <2>5. CASE WriteStart(t) BY <2>5 DEF WriteStart
  <2>6. CASE WriteFsync(t) BY <2>6 DEF WriteFsync
  <2>7. CASE WriteComplete(t) BY <2>7 DEF WriteComplete
  <2> QED BY <1>5, <2>1, <2>2, <2>3, <2>4, <2>5, <2>6, <2>7 DEF WriteUpTo
<1>6. ASSUME NEW p \in Pages, FlushPage(p) \/ PostPage(p) \/ PageIoComplete(p) PROVE UNCHANGED <<log, acked>>
  BY <1>6 DEF FlushPage, PostPage, PageIoComplete
<1>7. CASE DblWrite \/ DblSync \/ SyncDatafiles BY <1>7 DEF DblWrite, DblSync, SyncDatafiles
<1>8. CASE CheckpointSync \/ CheckpointOldest \/ CheckpointWrite \/ CheckpointIoComplete
  BY <1>8 DEF CheckpointSync, CheckpointOldest, CheckpointWrite, CheckpointIoComplete
<1>9. CASE Kill \/ PowerFailure BY <1>9 DEF Kill, PowerFailure, Forget
<1>10. CASE RecoverPages \/ RecvMisread \/ RecvApply BY <1>10 DEF RecoverPages, RecvMisread, RecvApply
<1> QED BY <1>1, <1>2, <1>3, <1>4, <1>5, <1>6, <1>7, <1>8, <1>9, <1>10 DEF Next, Durable!Next

(* The redo log keeps what Trx::commit_off_kernel() acknowledged, through any
   crashes, and loses whole mini-transactions only: Redo implements
   DurableLog. *)
THEOREM LogDurability == Spec => LogIsDurable
<1>1. Init => Durable!Init BY DEF Init, Durable!Init
<1>2. RedoInv /\ [Next]_vars => [Durable!Next]_<<log, acked>> BY RedoImplements DEF vars
<1> QED BY <1>1, <1>2, RedoInvariant, PTL DEF Spec, LogIsDurable, Durable!Spec

-----------------------------------------------------------------------------
(* Every page has every record: the invariant MatchOK, in the histories    *)
(* without a lapse.                                                        *)

FitsKept == \A p \in Pages : \A e \in Images : ImageOK(e) /\ Fits(p, e) => Fits(p, e)'

\* The images still fit when no checkpoint is new and the log is the same.
LEMMA FitsStay ==
  ASSUME UNCHANGED log, Starts' \subseteq Starts
  PROVE  FitsKept
BY DEF FitsKept, Fits, LsnsOf, LsnsBelow

\* The images that are known to be in the log.
LEMMA ImagesKnown ==
  ASSUME RedoInv
  PROVE  /\ \A p \in Pages : /\ file[p] \in Images /\ ImageOK(file[p])
                             /\ disk[p] \in Images /\ ImageOK(disk[p])
         /\ \A i \in 1 .. DblSize : dbl[i].image \in Images /\ ImageOK(dbl[i].image)
BY DEF RedoInv, Types, PageTypes, ImagesOK, Copies

\* The files fit if they are the same.
LEMMA FilesFitStay ==
  ASSUME RedoInv, FitsKept, FilesFit, UNCHANGED <<file, disk>>
  PROVE  FilesFit'
BY ImagesKnown DEF FilesFit, FitsKept

\* A copy stays fit when the doublewrite area is the same or synced.
LEMMA CopyStays ==
  ASSUME RedoInv, FitsKept, NEW p \in Pages, FitCopy(p), UNCHANGED dbl,
         dbldisk' = dbldisk \/ dbldisk' = dbl,
         pool'[p].io = "write" => pool[p].io = "write" /\ pool'[p].newest = pool[p].newest
  PROVE  FitCopy(p)'
<1>1. PICK i \in 1 .. DblSize :
        /\ dbl[i].page = p
        /\ \A j \in 1 .. i : /\ dbl[j] = dbldisk[j]
                             /\ dbl[j].page = p =>
                                  /\ Fits(p, dbl[j].image)
                                  /\ pool[p].io = "write" => dbl[j].image.lsn = pool[p].newest
  BY DEF FitCopy
<1>2. \A j \in 1 .. i : j \in 1 .. DblSize BY DblSizeAssumption
<1>3. \A j \in 1 .. i : dbl'[j] = dbldisk'[j] BY <1>1
<1>4. ASSUME NEW j \in 1 .. i, dbl[j].page = p PROVE Fits(p, dbl[j].image)'
  <2>1. dbl[j].image \in Images /\ ImageOK(dbl[j].image) BY <1>2, ImagesKnown
  <2>2. Fits(p, dbl[j].image) BY <1>1, <1>4
  <2>3. PICK e : e = dbl[j].image OBVIOUS
  <2>4. Fits(p, e)' BY <2>1, <2>2, <2>3 DEF FitsKept
  <2> QED BY <2>3, <2>4
<1>5. ASSUME NEW j \in 1 .. i, dbl[j].page = p, pool'[p].io = "write"
      PROVE  dbl'[j].image.lsn = pool'[p].newest
  BY <1>1, <1>5
<1> QED BY <1>1, <1>3, <1>4, <1>5 DEF FitCopy

\* A step that leaves the data files alone.
LEMMA MatchKept ==
  ASSUME RedoInv, MatchOK, FitsKept, UNCHANGED <<file, disk, dbl, lapses>>,
         dbldisk' = dbldisk \/ dbldisk' = dbl,
         lapses = {} /\ phase' = "up" => \A p \in Pages : BlockMatches(p)',
         \A p \in Pages : pool'[p].io = "write" =>
           pool[p].io = "write" /\ pool'[p].newest = pool[p].newest
  PROVE  MatchOK'
<1> SUFFICES ASSUME lapses = {} PROVE MatchOK' BY DEF MatchOK
<1>1. FilesFit /\ CopiesFit BY DEF MatchOK
<1>2. FilesFit' BY <1>1, FilesFitStay
<1>3. ASSUME NEW p \in Pages, Exposed(p)' PROVE FitCopy(p)'
  <2>1. Exposed(p) BY <1>3 DEF Exposed
  <2> QED BY <1>1, <2>1, CopyStays DEF CopiesFit
<1> QED BY <1>2, <1>3 DEF MatchOK, CopiesFit

\* A step that leaves the log and the pages alone, but for their io_fix.
LEMMA MatchSame ==
  ASSUME RedoInv, MatchOK, Starts' \subseteq Starts,
         UNCHANGED <<log, file, disk, dbl, lapses>>,
         dbldisk' = dbldisk \/ dbldisk' = dbl, phase' = "up" => phase = "up",
         \A p \in Pages : /\ pool'[p].recs = pool[p].recs /\ pool'[p].newest = pool[p].newest
                          /\ pool'[p].oldest = pool[p].oldest
                          /\ pool'[p].io = "write" => pool[p].io = "write"
  PROVE  MatchOK'
<1>1. FitsKept BY FitsStay
<1>2. ASSUME lapses = {}, phase' = "up", NEW p \in Pages PROVE BlockMatches(p)'
  <2>1. BlockMatches(p) BY <1>2 DEF MatchOK
  <2> QED BY <2>1 DEF BlockMatches, LsnsOf
<1> QED BY <1>1, <1>2, MatchKept

\* No checkpoint is new when the checkpointer does not move.
LEMMA StartsSame ==
  ASSUME UNCHANGED <<slots, ckptVars, phase>>,
         at'["checkpointer"] = "write" =>
           at["checkpointer"] = "write" /\ arg'["checkpointer"] = arg["checkpointer"]
  PROVE  Starts' \subseteq Starts
BY DEF Starts, Consistent, ckptVars

\* Acknowledgement, the background writer and write_up_to() leave the pages
\* alone.
LEMMA MatchWriteUpTo ==
  ASSUME RedoInv, MatchOK, NEW t \in Threads, WriteUpTo(t)
  PROVE  MatchOK'
<1>1. /\ UNCHANGED <<log, ckptVars, pool, file, disk, dbl, dbldisk, slots, at, phase, lapses>>
      /\ \A u \in Threads : at[u] # "idle" => arg'[u] = arg[u]
  <2>1. ASSUME Return(t) PROVE \A u \in Threads : at[u] # "idle" => arg'[u] = arg[u]
    BY <2>1 DEF Return, RedoInv, Types, ThreadTypes
  <2>2. CASE WriteEnough(t) \/ WriteNothing(t)
    BY <2>1, <2>2 DEF WriteEnough, WriteNothing, fileVars
  <2>3. CASE WriteJoin(t) \/ WriteRetry(t)
    BY <2>1, <2>3 DEF WriteJoin, WriteRetry, Go, fileVars
  <2>4. CASE WriteStart(t) \/ WriteFsync(t)
    BY <2>4 DEF WriteStart, WriteFsync, Go
  <2>5. CASE WriteComplete(t)
    BY <2>5 DEF WriteComplete, fileVars
  <2> QED BY <2>2, <2>3, <2>4, <2>5 DEF WriteUpTo
<1>2. Starts' \subseteq Starts BY <1>1, StartsSame DEF Threads, Others
<1> QED BY <1>1, <1>2, MatchSame

\* The same for the calls of write_up_to().
LEMMA MatchCalls ==
  ASSUME RedoInv, MatchOK,
         \/ \E t \in Clients : Ack(t)
         \/ \E lsn \in GarbageLsns \cup {m_lsn}, flush \in BOOLEAN : WriteInBackground(lsn, flush)
  PROVE  MatchOK'
<1>0. \A t \in Clients : t # "checkpointer" BY ClientsAssumption DEF Others
<1>1. /\ UNCHANGED <<log, ckptVars, pool, file, disk, dbl, dbldisk, slots, phase, lapses>>
      /\ at'["checkpointer"] = at["checkpointer"] /\ arg'["checkpointer"] = arg["checkpointer"]
  <2>1. CASE \E t \in Clients : Ack(t)
    BY <1>0, <2>1 DEF Ack, fileVars, RedoInv, Types, ThreadTypes, Threads, Others
  <2>2. CASE \E lsn \in GarbageLsns \cup {m_lsn}, flush \in BOOLEAN : WriteInBackground(lsn, flush)
    BY <2>2 DEF WriteInBackground, Call, fileVars, RedoInv, Types, ThreadTypes, Threads, Others
  <2> QED BY <2>1, <2>2
<1>2. Starts' \subseteq Starts BY <1>1, StartsSame
<1> QED BY <1>1, <1>2, MatchSame

\* A page is fixed for the flush, or posted.
LEMMA MatchFix ==
  ASSUME RedoInv, MatchOK, NEW p \in Pages, FlushPage(p) \/ PostPage(p)
  PROVE  MatchOK'
<1>1. /\ UNCHANGED <<log, ckptVars, file, disk, dbl, dbldisk, slots, phase, lapses>>
      /\ at'["checkpointer"] = at["checkpointer"] /\ arg'["checkpointer"] = arg["checkpointer"]
      /\ \E x \in {"fixed", "posted"} : SetIo({p}, x)
      /\ pool[p].oldest # Clean
  <2>1. CASE FlushPage(p)
    BY <2>1 DEF FlushPage, Call, fileVars, RedoInv, Types, ThreadTypes, Threads, Others
  <2>2. CASE PostPage(p)
    BY <2>2 DEF PostPage, fileVars, RedoInv, Types, ThreadTypes, Threads, Others, BlocksOK
  <2> QED BY <2>1, <2>2
<1>2. PICK x \in {"fixed", "posted"} : SetIo({p}, x) BY <1>1
<1>3. \A q \in Pages :
        /\ pool'[q].recs = pool[q].recs /\ pool'[q].newest = pool[q].newest
        /\ pool'[q].oldest = pool[q].oldest
        /\ pool'[q].io = IF q \in {p} THEN x ELSE pool[q].io
  BY <1>1, <1>2, IoChanged
<1>4. Starts' \subseteq Starts BY <1>1, StartsSame
<1> QED BY <1>1, <1>3, <1>4, MatchSame

\* The data files are synced.
LEMMA MatchSynced ==
  ASSUME RedoInv, MatchOK, Starts' \subseteq Starts, SyncFiles, phase = "up",
         UNCHANGED <<log, file, dbl, pool, phase, lapses>>
  PROVE  MatchOK'
<1> SUFFICES ASSUME lapses = {} PROVE MatchOK' BY DEF MatchOK
<1>1. FitsKept BY FitsStay
<1>2. disk' = file /\ dbldisk' = dbl BY DEF SyncFiles
<1>3. FilesFit /\ CopiesFit BY DEF MatchOK
<1>4. \A p \in Pages : file[p] # Torn => Fits(p, file[p])'
  BY <1>1, <1>3, ImagesKnown DEF FilesFit, FitsKept
<1>5. FilesFit' BY <1>2, <1>4 DEF FilesFit
<1>6. ASSUME NEW p \in Pages, Exposed(p)' PROVE FitCopy(p)'
  <2>1. Exposed(p) BY <1>2, <1>6 DEF Exposed
  <2> QED BY <1>1, <1>2, <1>3, <2>1, CopyStays DEF CopiesFit
<1>7. ASSUME NEW p \in Pages PROVE BlockMatches(p)'
  <2>1. BlockMatches(p) BY DEF MatchOK
  <2> QED BY <2>1 DEF BlockMatches, LsnsOf
<1> QED BY <1>5, <1>6, <1>7 DEF MatchOK, CopiesFit

\* sync_datafiles() and the first step of checkpoint().
LEMMA MatchSyncs ==
  ASSUME RedoInv, MatchOK, SyncDatafiles \/ CheckpointSync
  PROVE  MatchOK'
<1> SUFFICES ASSUME lapses' = lapses PROVE MatchOK'
  BY DEF MatchOK, SyncDatafiles, CheckpointSync, WaitForPendingOps
<1>1. /\ UNCHANGED <<log, ckptVars, pool, file, dbl, slots, phase, lapses, arg>> /\ SyncFiles
      /\ at'["checkpointer"] = "write" => at["checkpointer"] = "write"
  <2>1. CASE SyncDatafiles
    BY <2>1 DEF SyncDatafiles, RedoInv, Types, ThreadTypes, Threads, Others
  <2>2. CASE CheckpointSync
    BY <2>2 DEF CheckpointSync, RedoInv, Types, ThreadTypes, Threads, Others
  <2> QED BY <2>1, <2>2
<1>2. phase = "up"
  <2>1. CASE SyncDatafiles BY <2>1 DEF SyncDatafiles, RedoInv, QuietOK, Threads, Others
  <2>2. CASE CheckpointSync BY <2>2 DEF CheckpointSync, Running
  <2> QED BY <2>1, <2>2
<1>3. Starts' \subseteq Starts BY <1>1, StartsSame
<1> QED BY <1>1, <1>2, <1>3, MatchSynced

\* The doublewrite buffer is written: no page is exposed.
LEMMA MatchDblWrite ==
  ASSUME RedoInv, MatchOK, DblWrite
  PROVE  MatchOK'
<1> SUFFICES ASSUME lapses = {} PROVE MatchOK' BY DEF MatchOK, DblWrite
<1>1. /\ UNCHANGED <<log, ckptVars, pool, file, disk, slots, phase, lapses, arg>>
      /\ at'["checkpointer"] = at["checkpointer"] /\ at["flusher"] # "wait"
  BY DEF DblWrite, RedoInv, Types, ThreadTypes, Threads, Others
<1>2. phase = "up" BY DEF DblWrite, RedoInv, QuietOK
<1>3. Starts' \subseteq Starts BY <1>1, StartsSame
<1>4. FitsKept BY <1>1, <1>3, FitsStay
<1>5. FilesFit' BY <1>1, <1>4, FilesFitStay DEF MatchOK
<1>6. \A p \in Pages : ~Exposed(p)' 
  <2>1. file = disk /\ \A p \in Pages : ~Exposed(p) /\ pool[p].io # "write" BY <1>1, <1>2, NoneExposed
  <2> QED BY <1>1, <2>1 DEF Exposed
<1>7. ASSUME NEW p \in Pages PROVE BlockMatches(p)'
  <2>1. BlockMatches(p) BY <1>2 DEF MatchOK
  <2> QED BY <1>1, <2>1 DEF BlockMatches, LsnsOf
<1> QED BY <1>5, <1>6, <1>7 DEF MatchOK, CopiesFit

\* The image of a modified page has every record of the page below its lsn,
\* and there are no others.
LEMMA FrameFits ==
  ASSUME RedoInv, MatchOK, lapses = {}, phase = "up", NEW p \in Pages, pool[p].oldest # Clean
  PROVE  Fits(p, FrameImage(p)) /\ \A i \in LsnsOf(p) : ~(i >= pool[p].newest)
<1>1. BlockMatches(p) BY DEF MatchOK
<1>2. pool[p].newest \in Nat BY DEF RedoInv, Types, PageTypes, Blocks
<1>3. \A i \in LsnsOf(p) : i \in Nat BY LenProperties DEF LsnsOf, RedoInv, Types, LogTypes
<1>4. \A i \in LsnsOf(p) : i < pool[p].newest /\ ~(i >= pool[p].newest)
  BY <1>1, <1>2, <1>3 DEF BlockMatches
<1>5. LsnsBelow(p, pool[p].newest) = LsnsOf(p) BY <1>4 DEF LsnsBelow
<1>6. FrameImage(p).lsn = pool[p].newest /\ FrameImage(p).recs = pool[p].recs
  BY DEF FrameImage, Image
<1> QED BY <1>1, <1>4, <1>5, <1>6 DEF Fits, BlockMatches

\* The doublewrite area is synced, the pages are written: the copies are
\* those of the pages.
LEMMA MatchDblSync ==
  ASSUME RedoInv, MatchOK, DblSync
  PROVE  MatchOK'
<1> SUFFICES ASSUME lapses = {} PROVE MatchOK' BY DEF MatchOK, DblSync
<1>1. /\ UNCHANGED <<log, ckptVars, file, disk, dbl, slots, phase, lapses, arg>>
      /\ dbldisk' = dbl /\ SetIo(WithIo("posted"), "write")
      /\ at'["checkpointer"] = at["checkpointer"] /\ at["flusher"] = "dbl_sync"
  BY DEF DblSync, RedoInv, Types, ThreadTypes, Threads, Others
<1>2. phase = "up" BY <1>1 DEF RedoInv, QuietOK, Threads, Others
<1>3. Starts' \subseteq Starts BY <1>1, StartsSame
<1>4. FitsKept BY <1>1, <1>3, FitsStay
<1>5. FilesFit' BY <1>1, <1>4, FilesFitStay DEF MatchOK
<1>6. \A p \in WithIo("posted") : p \in Pages /\ pool[p].io = "posted" /\ pool[p].oldest # Clean
  BY DEF WithIo, RedoInv, BlocksOK
<1>7. \A p \in Pages :
        /\ pool'[p].recs = pool[p].recs /\ pool'[p].newest = pool[p].newest
        /\ pool'[p].oldest = pool[p].oldest
        /\ pool'[p].io = IF p \in WithIo("posted") THEN "write" ELSE pool[p].io
  BY <1>1, <1>6, IoChanged DEF WithIo
<1>8. ASSUME NEW p \in Pages PROVE BlockMatches(p)'
  <2>1. BlockMatches(p) BY <1>2 DEF MatchOK
  <2> QED BY <1>1, <1>7, <2>1 DEF BlockMatches, LsnsOf
<1>9. ASSUME NEW p \in Pages, Exposed(p)' PROVE FitCopy(p)'
  <2>1. file = disk /\ ~Exposed(p) /\ pool[p].io # "write" BY <1>1, <1>2, NoneExposed
  <2>2. pool'[p].io = "write" BY <1>1, <1>9, <2>1 DEF Exposed
  <2>3. pool[p].io = "posted" /\ pool[p].oldest # Clean BY <1>6, <1>7, <2>1, <2>2
  <2>4. Fits(p, FrameImage(p)) /\ ImageOK(FrameImage(p)) /\ FrameImage(p) \in Images
    BY <1>2, <2>3, FrameFits, FrameImageOK
  <2>5. PICK i \in DOMAIN m_bpages : m_bpages[i] = p BY <2>3 DEF RedoInv, FlushOK
  <2>6. \A j \in DOMAIN m_bpages : dbl[j] = [page |-> m_bpages[j], image |-> FrameImage(m_bpages[j])]
    BY <1>1 DEF RedoInv, FlushOK, Flusher
  <2>7. DOMAIN m_bpages = 1 .. Len(m_bpages) /\ Len(m_bpages) \in Nat /\ Len(m_bpages) <= DblSize
    BY LenProperties DEF RedoInv, Types, PageTypes
  <2>8. i \in 1 .. DblSize /\ \A j \in 1 .. i : j \in DOMAIN m_bpages
    BY <2>5, <2>7, DblSizeAssumption
  <2>9. ASSUME NEW j \in 1 .. i, dbl[j].page = p PROVE dbl[j].image = FrameImage(p)
    <3>1. dbl[j] = [page |-> m_bpages[j], image |-> FrameImage(m_bpages[j])] BY <2>6, <2>8
    <3>2. dbl[j].page = m_bpages[j] /\ dbl[j].image = FrameImage(m_bpages[j]) BY <3>1
    <3>3. m_bpages[j] = p BY <2>9, <3>2
    <3> QED BY <3>2, <3>3, Zenon
  <2>10. dbl[i].page = p
    <3>1. dbl[i] = [page |-> m_bpages[i], image |-> FrameImage(m_bpages[i])] BY <2>5, <2>6
    <3> QED BY <2>5, <3>1
  <2>11. PICK e : e = FrameImage(p) OBVIOUS
  <2>12. Fits(p, e)' BY <1>4, <2>4, <2>11 DEF FitsKept
  <2>13. e.lsn = pool'[p].newest BY <1>7, <2>11 DEF FrameImage, Image
  <2>14. \A j \in 1 .. i : dbl'[j].page = p => dbl'[j].image = e BY <1>1, <2>9, <2>11
  <2>15. \A j \in 1 .. i : dbl'[j] = dbldisk'[j] BY <1>1
  <2> QED BY <1>1, <2>8, <2>10, <2>12, <2>13, <2>14, <2>15 DEF FitCopy
<1> QED BY <1>5, <1>8, <1>9 DEF MatchOK, CopiesFit

\* A page is written: the file has every record of it.
LEMMA MatchPageIoComplete ==
  ASSUME RedoInv, MatchOK, NEW p \in Pages, PageIoComplete(p)
  PROVE  MatchOK'
<1> SUFFICES ASSUME lapses = {} PROVE MatchOK' BY DEF MatchOK, PageIoComplete
<1>1. /\ UNCHANGED <<log, ckptVars, disk, dbl, dbldisk, slots, phase, lapses, arg, at>>
      /\ pool[p].io = "write" /\ file' = [file EXCEPT ![p] = FrameImage(p)]
      /\ pool' = [pool EXCEPT ![p].io = "none", ![p].oldest = Clean]
  BY DEF PageIoComplete, threadVars
<1>2. phase = "up"
  <2>1. Block(<<>>).io = "none" BY DEF Block
  <2> QED BY <1>1, <2>1 DEF RedoInv, QuietOK
<1>3. Starts' \subseteq Starts BY <1>1, StartsSame
<1>4. FitsKept BY <1>1, <1>3, FitsStay
<1>5. FilesFit /\ CopiesFit BY DEF MatchOK
<1>6. pool[p].oldest # Clean BY <1>1 DEF RedoInv, BlocksOK
<1>7. Fits(p, FrameImage(p)) /\ ImageOK(FrameImage(p)) /\ FrameImage(p) \in Images
  BY <1>1, <1>2, <1>6, FrameFits, FrameImageOK
<1>8. /\ pool \in [Pages -> Blocks] /\ file \in [Pages -> Images]
  BY DEF RedoInv, Types, PageTypes
<1>9. /\ file'[p] = FrameImage(p)
      /\ \A q \in Pages : q # p => file'[q] = file[q] /\ pool'[q] = pool[q]
      /\ pool'[p].recs = pool[p].recs /\ pool'[p].io = "none" /\ pool'[p].oldest = Clean
  BY <1>1, <1>8 DEF Blocks
<1>10. FilesFit'
  <2>1. ASSUME NEW q \in Pages, file'[q] # Torn PROVE Fits(q, file[q])'
    <3>1. PICK e : e = file'[q] OBVIOUS
    <3>2. e \in Images /\ ImageOK(e) /\ Fits(q, e)
      <4>1. CASE q = p BY <1>7, <1>9, <3>1, <4>1
      <4>2. CASE q # p BY <1>5, <1>9, <2>1, <3>1, <4>2, ImagesKnown DEF FilesFit
      <4> QED BY <4>1, <4>2
    <3>3. Fits(q, e)' BY <1>4, <3>2 DEF FitsKept
    <3> QED BY <3>1, <3>3
  <2>2. \A q \in Pages : disk'[q] # Torn => Fits(q, disk[q])'
    BY <1>1, <1>4, <1>5, ImagesKnown DEF FilesFit, FitsKept
  <2> QED BY <2>1, <2>2 DEF FilesFit
<1>11. ASSUME NEW q \in Pages PROVE BlockMatches(q)'
  <2>1. BlockMatches(q) BY <1>2 DEF MatchOK
  <2>2. CASE q # p BY <1>1, <1>9, <2>1, <2>2 DEF BlockMatches, LsnsOf
  <2>3. CASE q = p
    <3>1. file'[p].lsn = pool[p].newest BY <1>9 DEF FrameImage, Image
    <3>2. \A i \in LsnsOf(p) : ~(i >= file'[p].lsn) BY <1>2, <1>6, <3>1, FrameFits
    <3>3. LsnsOf(p)' = LsnsOf(p) BY <1>1 DEF LsnsOf
    <3> QED BY <1>1, <1>9, <2>1, <2>3, <3>2, <3>3 DEF BlockMatches
  <2> QED BY <2>2, <2>3
<1>12. ASSUME NEW q \in Pages, Exposed(q)' PROVE FitCopy(q)'
  <2>1. Exposed(q)
    <3>1. CASE q = p BY <1>1, <3>1 DEF Exposed
    <3>2. CASE q # p BY <1>1, <1>9, <1>12, <3>2 DEF Exposed
    <3> QED BY <3>1, <3>2
  <2>2. FitCopy(q) BY <1>5, <2>1 DEF CopiesFit
  <2>3. pool'[q].io = "write" => pool[q].io = "write" /\ pool'[q].newest = pool[q].newest
    BY <1>9
  <2> QED BY <1>1, <1>4, <2>2, <2>3, CopyStays
<1> QED BY <1>10, <1>11, <1>12 DEF MatchOK, CopiesFit

\* Log::checkpoint() takes the oldest modification: what a file lacks is not
\* older.
LEMMA MatchCheckpointOldest ==
  ASSUME RedoInv, MatchOK, CheckpointOldest
  PROVE  MatchOK'
<1>1. /\ UNCHANGED <<log, ckptVars, pool, file, disk, dbl, dbldisk, slots, phase>>
      /\ lapses' = lapses \cup {l \in {"checkpoint"} : file # disk} /\ at["checkpointer"] = "oldest"
      /\ Call("checkpointer", "write", buf_pool_get_oldest_modification, TRUE, TRUE)
  BY DEF CheckpointOldest, fileVars
<1> SUFFICES ASSUME lapses = {}, file = disk PROVE MatchOK' BY <1>1 DEF MatchOK
<1>2. phase = "up" BY <1>1 DEF RedoInv, QuietOK, Threads, Others
<1>3. FilesFit /\ CopiesFit /\ \A p \in Pages : BlockMatches(p) BY <1>2 DEF MatchOK
<1>4. PICK o : o = buf_pool_get_oldest_modification OBVIOUS
<1>5. o \in Nat /\ \A p \in Pages : pool[p].oldest # Clean => o <= pool[p].oldest
  BY <1>4, OldestMeaning
<1>6. arg'["checkpointer"].lsn = o
  BY <1>1, <1>4 DEF Call, RedoInv, Types, ThreadTypes, Threads, Others
<1>7. Starts' \subseteq Starts \cup {o} BY <1>1, <1>6 DEF Starts, Consistent, ckptVars
<1>8. ASSUME NEW p \in Pages, NEW e, Fits(p, e), \A i \in LsnsOf(p) : i >= e.lsn => i >= o
      PROVE  Fits(p, e)'
  BY <1>1, <1>7, <1>8 DEF Fits, LsnsOf, LsnsBelow
<1>9. ASSUME NEW p \in Pages, NEW i \in LsnsOf(p), i >= file[p].lsn PROVE i >= o
  <2>1. pool[p].oldest # Clean /\ i >= pool[p].oldest BY <1>3, <1>9 DEF BlockMatches
  <2>2. i \in Nat /\ pool[p].oldest \in Nat
    BY LenProperties DEF LsnsOf, RedoInv, Types, LogTypes, PageTypes, Blocks
  <2>3. o <= pool[p].oldest BY <1>5, <2>1
  <2> QED BY <1>5, <2>1, <2>2, <2>3
<1>10. ASSUME NEW p \in Pages, file[p] # Torn PROVE Fits(p, file[p])'
  <2>1. PICK e : e = file[p] OBVIOUS
  <2>2. Fits(p, e) BY <1>3, <1>10, <2>1 DEF FilesFit
  <2>3. Fits(p, e)' BY <1>8, <1>9, <2>1, <2>2
  <2> QED BY <1>1, <2>1, <2>3
<1>11. FilesFit' BY <1>1, <1>10 DEF FilesFit
<1>12. ASSUME NEW p \in Pages PROVE BlockMatches(p)'
  BY <1>1, <1>3 DEF BlockMatches, LsnsOf
<1>13. ASSUME NEW p \in Pages, Exposed(p)' PROVE FitCopy(p)'
  <2>1. pool[p].io = "write" BY <1>1, <1>2, <1>13 DEF Exposed, RedoInv, TornOK
  <2>2. pool[p].oldest # Clean BY <2>1 DEF RedoInv, BlocksOK
  <2>3. \A i \in LsnsOf(p) : ~(i >= pool[p].newest) BY <1>2, <2>2, FrameFits
  <2>4. Exposed(p) BY <2>1 DEF Exposed
  <2>5. PICK i \in 1 .. DblSize :
          /\ dbl[i].page = p
          /\ \A j \in 1 .. i : /\ dbl[j] = dbldisk[j]
                               /\ dbl[j].page = p =>
                                    /\ Fits(p, dbl[j].image)
                                    /\ pool[p].io = "write" => dbl[j].image.lsn = pool[p].newest
    BY <1>3, <2>4 DEF CopiesFit, FitCopy
  <2>6. ASSUME NEW j \in 1 .. i, dbl[j].page = p PROVE Fits(p, dbl[j].image)'
    <3>1. PICK e : e = dbl[j].image OBVIOUS
    <3>2. Fits(p, e) /\ e.lsn = pool[p].newest BY <2>1, <2>5, <2>6, <3>1
    <3>3. Fits(p, e)' BY <1>8, <2>3, <3>2
    <3> QED BY <1>1, <3>1, <3>3
  <2> QED BY <1>1, <2>5, <2>6 DEF FitCopy
<1> QED BY <1>11, <1>12, <1>13 DEF MatchOK, CopiesFit

\* The checkpoint is handed to the log file, then written.
LEMMA MatchCheckpointWrite ==
  ASSUME RedoInv, MatchOK, CheckpointWrite \/ CheckpointIoComplete
  PROVE  MatchOK'
<1>1. UNCHANGED <<log, pool, file, disk, dbl, dbldisk, phase, lapses>>
  BY DEF CheckpointWrite, CheckpointIoComplete, fileVars
<1>2. Starts' \subseteq Starts
  <2>1. CASE CheckpointWrite
    <3>1. /\ at["checkpointer"] = "write" /\ UNCHANGED <<slots, m_last_checkpoint_lsn, phase>>
          /\ at'["checkpointer"] = "idle"
          /\ \/ UNCHANGED <<m_next_checkpoint_lsn, m_n_pending_checkpoint_writes>>
             \/ /\ m_next_checkpoint_lsn' = arg["checkpointer"].lsn
                /\ m_n_pending_checkpoint_writes' = 1
      BY <2>1 DEF CheckpointWrite, fileVars, RedoInv, Types, ThreadTypes, Threads, Others
    <3> QED BY <3>1 DEF Starts, Consistent
  <2>2. CASE CheckpointIoComplete
    <3>1. /\ m_n_pending_checkpoint_writes = 1 /\ m_n_pending_checkpoint_writes' = 0
          /\ slots' = WriteSlot(NewCheckpoint) /\ m_last_checkpoint_lsn' = m_next_checkpoint_lsn
          /\ UNCHANGED <<at, arg, phase>>
      BY <2>2 DEF CheckpointIoComplete, threadVars
    <3>2. \A i \in {0, 1} : slots'[i] = slots[i] \/ slots'[i].lsn = m_next_checkpoint_lsn
      BY <3>1 DEF WriteSlot, NewCheckpoint, RedoInv, Types, CheckpointTypes
    <3>3. \A i \in Consistent' : slots'[i].lsn \in Starts
      BY <3>1, <3>2 DEF Starts, Consistent
    <3> QED BY <3>1, <3>3 DEF Starts
  <2> QED BY <2>1, <2>2
<1> QED BY <1>1, <1>2, MatchSame

\* A crash leaves no checkpoint that was not being made.
LEMMA StartsCrashed ==
  ASSUME RedoInv, Forget, slots' \in CheckpointOutcomes({BadSlot})
  PROVE  FitsKept
<1>1. /\ log' = log /\ phase' = "down" /\ m_n_pending_checkpoint_writes' = 0
      /\ at'["checkpointer"] = "idle"
  BY DEF Forget, Threads, Others
<1>2. ASSUME NEW i \in {0, 1}, slots'[i] # BadSlot PROVE slots'[i].lsn \in Starts
  <2>1. CASE slots' = slots BY <1>2, <2>1 DEF Starts, Consistent
  <2>2. CASE slots' # slots
    <3>1. PICK info \in {NewCheckpoint, BadSlot} : slots' = WriteSlot(info)
      BY <2>2 DEF CheckpointOutcomes
    <3>2. m_n_pending_checkpoint_writes = 1 BY <2>2 DEF CheckpointOutcomes
    <3>3. slots'[i] = slots[i] \/ slots'[i] = info
      BY <3>1 DEF WriteSlot, RedoInv, Types, CheckpointTypes
    <3>4. CASE slots'[i] = slots[i] BY <1>2, <3>4 DEF Starts, Consistent
    <3>5. CASE slots'[i] = info
      <4>1. slots'[i] = NewCheckpoint BY <1>2, <3>1, <3>5
      <4>2. slots'[i].lsn = m_next_checkpoint_lsn BY <4>1 DEF NewCheckpoint
      <4> QED BY <3>2, <4>2 DEF Starts
    <3> QED BY <3>3, <3>4, <3>5
  <2> QED BY <2>1, <2>2
<1>3. Starts' \subseteq Starts BY <1>1, <1>2 DEF Starts, Consistent
<1> QED BY <1>1, <1>3, FitsStay

\* What may be in the file of a page when the process ends fits.
LEMMA InFileFits ==
  ASSUME RedoInv, MatchOK, lapses = {}, NEW p \in Pages, NEW e \in InFile(p), e # Torn
  PROVE  Fits(p, e)
<1>1. CASE e = file[p] BY <1>1 DEF MatchOK, FilesFit
<1>2. CASE e # file[p]
  <2>1. pool[p].io = "write" /\ e = FrameImage(p) BY <1>2 DEF InFile
  <2>2. pool[p].oldest # Clean BY <2>1 DEF RedoInv, BlocksOK
  <2>3. Block(<<>>).io = "none" BY DEF Block
  <2>4. phase = "up" BY <2>1, <2>3 DEF RedoInv, QuietOK
  <2> QED BY <2>1, <2>2, <2>4, FrameFits
<1> QED BY <1>1, <1>2

\* The process is killed.
LEMMA MatchKill ==
  ASSUME RedoInv, MatchOK, Kill
  PROVE  MatchOK'
<1>1. /\ file' \in OneOfEach([p \in Pages |-> InFile(p)])
      /\ slots' \in CheckpointOutcomes({}) /\ UNCHANGED <<disk, dbl, dbldisk>> /\ Forget
  BY DEF Kill
<1>2. /\ log' = log /\ phase' = "down" /\ pool' = [p \in Pages |-> Block(<<>>)] /\ lapses' = lapses
  BY <1>1 DEF Forget
<1> SUFFICES ASSUME lapses = {} PROVE MatchOK' BY <1>2 DEF MatchOK
<1>3. slots' \in CheckpointOutcomes({BadSlot}) BY <1>1 DEF CheckpointOutcomes
<1>4. FitsKept BY <1>1, <1>3, StartsCrashed
<1>5. \A p \in Pages : file'[p] \in InFile(p) BY <1>1, OneOfEachMeaning
<1>6. FilesFit /\ CopiesFit BY DEF MatchOK
<1>7. ASSUME NEW p \in Pages, file'[p] # Torn PROVE Fits(p, file[p])'
  <2>1. PICK e : e = file'[p] OBVIOUS
  <2>2. e \in InFile(p) /\ e # Torn BY <1>5, <1>7, <2>1
  <2>3. e \in Images /\ ImageOK(e) /\ Fits(p, e) BY <2>2, InFileOK, InFileFits
  <2>4. Fits(p, e)' BY <1>4, <2>3 DEF FitsKept
  <2> QED BY <2>1, <2>4
<1>8. \A p \in Pages : disk'[p] # Torn => Fits(p, disk[p])'
  BY <1>1, <1>4, <1>6, ImagesKnown DEF FilesFit, FitsKept
<1>9. ASSUME NEW p \in Pages, Exposed(p)' PROVE FitCopy(p)'
  <2>1. pool'[p].io = "none" BY <1>2 DEF Block
  <2>2. file'[p] = file[p] \/ (Exposed(p) /\ file'[p] # Torn) BY <1>5, InFileOK
  <2>3. Exposed(p) BY <1>1, <1>9, <2>1, <2>2 DEF Exposed
  <2>4. FitCopy(p) BY <1>6, <2>3 DEF CopiesFit
  <2> QED BY <1>1, <1>4, <2>1, <2>4, CopyStays
<1> QED BY <1>2, <1>7, <1>8, <1>9 DEF MatchOK, FilesFit, CopiesFit

\* The power fails: a torn page has a fit copy on disk.
LEMMA MatchPowerFailure ==
  ASSUME RedoInv, MatchOK, PowerFailure
  PROVE  MatchOK'
<1>1. /\ file' \in OneOfEach([p \in Pages |-> OnDisk(disk[p], InFile(p), Torn)])
      /\ dbl' \in OneOfEach([i \in 1 .. DblSize |->
              OnDisk(dbldisk[i], {dbl[i]}, [dbl[i] EXCEPT !.image = Torn])])
      /\ disk' = file' /\ dbldisk' = dbl'
      /\ slots' \in CheckpointOutcomes({BadSlot}) /\ Forget
  BY DEF PowerFailure
<1>2. /\ log' = log /\ phase' = "down" /\ pool' = [p \in Pages |-> Block(<<>>)] /\ lapses' = lapses
  BY <1>1 DEF Forget
<1> SUFFICES ASSUME lapses = {} PROVE MatchOK' BY <1>2 DEF MatchOK
<1>3. FitsKept BY <1>1, StartsCrashed
<1>4. \A p \in Pages : file'[p] \in OnDisk(disk[p], InFile(p), Torn) BY <1>1, OneOfEachMeaning
<1>5. \A i \in 1 .. DblSize : dbl'[i] \in OnDisk(dbldisk[i], {dbl[i]}, [dbl[i] EXCEPT !.image = Torn])
  <2> DEFINE o == [i \in 1 .. DblSize |-> OnDisk(dbldisk[i], {dbl[i]}, [dbl[i] EXCEPT !.image = Torn])]
  <2>1. DOMAIN o = 1 .. DblSize
        /\ \A i \in 1 .. DblSize : o[i] = OnDisk(dbldisk[i], {dbl[i]}, [dbl[i] EXCEPT !.image = Torn])
    OBVIOUS
  <2>2. dbl' \in OneOfEach(o) BY <1>1
  <2> HIDE DEF o
  <2>3. DOMAIN dbl' = DOMAIN o /\ \A i \in DOMAIN o : dbl'[i] \in o[i] BY <2>2, OneOfEachMeaning
  <2> QED BY <2>1, <2>3, Zenon
<1>6. FilesFit /\ CopiesFit BY DEF MatchOK
<1>7. ASSUME NEW p \in Pages PROVE /\ file'[p] # Torn => Fits(p, file[p])'
                                   /\ file'[p] = Torn => Exposed(p)
  <2>1. PICK e : e = file'[p] OBVIOUS
  <2>2. CASE e \in InFile(p)
    <3>1. e \in Images /\ ImageOK(e) /\ (e = file[p] \/ e # Torn) /\ (e # Torn => Fits(p, e))
      BY <2>2, InFileOK, InFileFits
    <3>2. e # Torn => Fits(p, e)' BY <1>3, <3>1 DEF FitsKept
    <3> QED BY <2>1, <3>1, <3>2 DEF Exposed
  <2>3. CASE e \notin InFile(p)
    <3>1. e \in {disk[p], Torn} /\ InFile(p) # {disk[p]} BY <1>4, <2>1, <2>3 DEF OnDisk
    <3>2. disk[p] \in Images /\ ImageOK(disk[p]) BY ImagesKnown
    <3>3. e # Torn => Fits(p, e) BY <1>6, <3>1 DEF FilesFit
    <3>4. e # Torn => Fits(p, e)' BY <1>3, <3>1, <3>2, <3>3 DEF FitsKept
    <3>5. Exposed(p) BY <3>1 DEF InFile, Exposed
    <3> QED BY <2>1, <3>4, <3>5
  <2> QED BY <2>2, <2>3
<1>8. ASSUME NEW p \in Pages, Exposed(p)' PROVE FitCopy(p)'
  <2>1. pool'[p].io = "none" BY <1>2 DEF Block
  <2>2. file'[p] = Torn BY <1>1, <1>8, <2>1 DEF Exposed
  <2>3. FitCopy(p) BY <1>6, <1>7, <2>2 DEF CopiesFit
  <2>4. PICK i \in 1 .. DblSize :
          /\ dbl[i].page = p
          /\ \A j \in 1 .. i : dbl[j] = dbldisk[j] /\ (dbl[j].page = p => Fits(p, dbl[j].image))
    BY <2>3 DEF FitCopy
  <2>5. \A j \in 1 .. i : j \in 1 .. DblSize BY DblSizeAssumption
  <2>6. \A j \in 1 .. i : dbl'[j] = dbl[j] BY <1>5, <2>4, <2>5 DEF OnDisk
  <2>7. i \in 1 .. i OBVIOUS
  <2>8. ASSUME NEW j \in 1 .. i, dbl'[j].page = p PROVE Fits(p, dbl[j].image)'
    <3>1. PICK e : e = dbl[j].image OBVIOUS
    <3>2. e \in Images /\ ImageOK(e) /\ Fits(p, e) BY <2>4, <2>5, <2>6, <2>8, <3>1, ImagesKnown
    <3>3. Fits(p, e)' BY <1>3, <3>2 DEF FitsKept
    <3> QED BY <2>6, <3>1, <3>3
  <2> QED BY <1>1, <2>1, <2>4, <2>6, <2>7, <2>8 DEF FitCopy
<1> QED BY <1>1, <1>2, <1>7, <1>8 DEF MatchOK, FilesFit, CopiesFit

\* DBLWR::recover_pages() restores a page from its first copy, which fits.
LEMMA MatchRecoverPages ==
  ASSUME RedoInv, MatchOK, RecoverPages
  PROVE  MatchOK'
<1>1. /\ UNCHANGED <<log, ckptVars, pool, dbl, slots, at, arg, lapses>> /\ phase = "down"
      /\ disk' = file' /\ file' = [p \in Pages |-> Restored(p)]
  BY DEF RecoverPages, threadVars
<1> SUFFICES ASSUME lapses = {} PROVE MatchOK' BY <1>1 DEF MatchOK
<1>2. phase' \in {"scan", "fatal"} BY DEF RecoverPages
<1>3. pool = [p \in Pages |-> Block(<<>>)] BY <1>1 DEF RedoInv, QuietOK
<1>4. Starts' \subseteq Starts BY <1>1, <1>2 DEF Starts, Consistent, ckptVars
<1>5. FitsKept BY <1>1, <1>4, FitsStay
<1>6. FilesFit /\ CopiesFit BY DEF MatchOK
<1>7. ASSUME NEW p \in Pages PROVE file'[p] # Torn /\ Fits(p, file[p])'
  <2>1. PICK e : e = file'[p] OBVIOUS
  <2>2. e = Restored(p) BY <1>1, <2>1
  <2>3. e \in Images /\ ImageOK(e) /\ e # Torn
        /\ \/ e = file[p]
           \/ \E i \in 1 .. DblSize :
                /\ dbl[i].page = p /\ e = dbl[i].image
                /\ \A j \in 1 .. DblSize : dbl[j].page = p => i <= j
    BY <2>2, RestoredOK
  <2>4. Fits(p, e)
    <3>1. CASE file[p] # Torn
      <4>1. e = file[p] BY <2>2, <3>1 DEF Restored
      <4> QED BY <1>6, <3>1, <4>1 DEF FilesFit
    <3>2. CASE file[p] = Torn
      <4>1. PICK i \in 1 .. DblSize :
              /\ dbl[i].page = p /\ e = dbl[i].image
              /\ \A j \in 1 .. DblSize : dbl[j].page = p => i <= j
        BY <2>3, <3>2
      <4>2. FitCopy(p) BY <1>6, <3>2 DEF CopiesFit, Exposed
      <4>3. PICK k \in 1 .. DblSize :
              /\ dbl[k].page = p
              /\ \A j \in 1 .. k : dbl[j].page = p => Fits(p, dbl[j].image)
        BY <4>2 DEF FitCopy
      <4>4. i \in 1 .. k BY <4>1, <4>3, DblSizeAssumption
      <4> QED BY <4>1, <4>3, <4>4
    <3> QED BY <3>1, <3>2
  <2>5. Fits(p, e)' BY <1>5, <2>3, <2>4 DEF FitsKept
  <2> QED BY <2>1, <2>3, <2>5
<1>8. \A p \in Pages : ~Exposed(p)'
  <2>1. \A p \in Pages : pool'[p].io = "none" BY <1>1, <1>3 DEF Block
  <2> QED BY <1>1, <1>7, <2>1 DEF Exposed
<1> QED BY <1>1, <1>2, <1>7, <1>8 DEF MatchOK, FilesFit, CopiesFit

\* The images fit also when recovery drops the end of the log.
LEMMA MatchRecvScan ==
  ASSUME RedoInv, MatchOK, RecvScan
  PROVE  MatchOK'
<1>1. /\ phase = "scan" /\ phase' = "synchronize" /\ m_next_checkpoint_lsn' = MaxCheckpoint.lsn
      /\ m_n_pending_checkpoint_writes' = 1
      /\ UNCHANGED <<pool, file, disk, dbl, dbldisk, slots, at, arg, lapses>>
  BY RecvScanEffect DEF fileVars, threadVars
<1>2. /\ log' \in Seq(LogRecords) /\ Len(log') <= Len(log) /\ log \in Seq(LogRecords)
      /\ \A i \in 1 .. Len(log') : log'[i] = log[i]
      /\ \A n \in Int : Hard(n) => n <= Len(log')
  BY RecvScanLog DEF RedoInv, Types, LogTypes
<1>3. /\ DOMAIN log = 1 .. Len(log) /\ DOMAIN log' = 1 .. Len(log')
      /\ Len(log) \in Nat /\ Len(log') \in Nat
  BY <1>2, LenProperties
<1>4. \A p \in Pages : LsnsOf(p)' = {i \in LsnsOf(p) : i <= Len(log')}
  BY <1>2, <1>3 DEF LsnsOf
<1>5. Starts' \subseteq Starts
  <2>1. PICK k \in Consistent : MaxCheckpoint = slots[k] BY MaxCheckpointMeaning
  <2>2. MaxCheckpoint.lsn \in Starts BY <2>1 DEF Starts
  <2>3. at["checkpointer"] # "write" BY <1>1 DEF RedoInv, QuietOK, Threads, Others
  <2> QED BY <1>1, <2>2, <2>3 DEF Starts, Consistent
<1>6. ASSUME NEW p \in Pages, NEW e \in Images, ImageOK(e), Fits(p, e) PROVE Fits(p, e)'
  <2>1. e.lsn \in Nat BY DEF Images
  <2>2. e.lsn - 1 <= Len(log') BY <1>2, <1>6, <2>1 DEF ImageOK
  <2>3. LsnsBelow(p, e.lsn) \subseteq DOMAIN log BY DEF LsnsBelow, LsnsOf
  <2>4. \A i \in LsnsBelow(p, e.lsn) : i \in 1 .. Len(log') BY <1>3, <2>1, <2>2, <2>3 DEF LsnsBelow
  <2>5. LsnsBelow(p, e.lsn)' = LsnsBelow(p, e.lsn) BY <1>3, <1>4, <2>4 DEF LsnsBelow
  <2>6. RecordsAt(log, LsnsBelow(p, e.lsn)) = RecordsAt(log', LsnsBelow(p, e.lsn))
    BY <1>2, <1>3, <2>3, <2>4, RecordsAtSame
  <2>7. e.recs = RecordsAt(log, LsnsBelow(p, e.lsn))'
    BY <1>6, <2>5, <2>6 DEF Fits
  <2>8. \A i \in LsnsOf(p)', c \in Starts' : i >= e.lsn => i >= c
    BY <1>4, <1>5, <1>6 DEF Fits
  <2> QED BY <2>7, <2>8 DEF Fits
<1>7. FitsKept BY <1>6 DEF FitsKept
<1> QED BY <1>1, <1>7, MatchKept

\* Recovery applies to a page what the file lacks: nothing else is missing.
LEMMA MatchRecvApply ==
  ASSUME RedoInv, MatchOK, RecvApply
  PROVE  MatchOK'
<1>1. /\ phase = "synchronize" /\ m_n_pending_checkpoint_writes = 0 /\ phase' = "up"
      /\ pool' = [p \in Pages |-> Recovered(p)]
      /\ UNCHANGED <<log, m_n_pending_checkpoint_writes, file, disk, dbl, dbldisk, slots, at, arg, lapses>>
  BY DEF RecvApply, fileVars, threadVars
<1>2. Starts' \subseteq Starts BY <1>1 DEF Starts, Consistent
<1>3. FitsKept BY <1>1, <1>2, FitsStay
<1>4. ASSUME lapses = {}, NEW p \in Pages PROVE BlockMatches(p)'
  <2>1. file[p] # Torn BY <1>1, <1>4 DEF RedoInv, TornOK
  <2>2. Fits(p, file[p]) BY <1>4, <2>1 DEF MatchOK, FilesFit
  <2>3. m_last_checkpoint_lsn \in Starts BY <1>1 DEF Starts
  <2>4. /\ m_last_checkpoint_lsn \in Nat /\ file[p].lsn \in Nat /\ file[p].recs \in Seq(Entries)
        /\ log \in Seq(LogRecords)
    BY DEF RedoInv, Types, CheckpointTypes, PageTypes, LogTypes, Images
  <2>5. DOMAIN log = 1 .. Len(log) /\ Len(log) \in Nat BY <2>4, LenProperties
  <2>6. ToApply(p) = {i \in LsnsOf(p) : i >= file[p].lsn}
    <3>1. \A i \in LsnsOf(p) : i >= file[p].lsn => i >= m_last_checkpoint_lsn
      BY <2>2, <2>3 DEF Fits
    <3>2. \A i \in DOMAIN log :
            i >= Later(m_last_checkpoint_lsn, file[p].lsn) <=>
              (i >= m_last_checkpoint_lsn /\ i >= file[p].lsn)
      BY <2>4, <2>5 DEF Later
    <3> QED BY <3>1, <3>2 DEF ToApply, LsnsOf
  <2>7. /\ LsnsBelow(p, file[p].lsn) \in SUBSET (DOMAIN log) /\ ToApply(p) \in SUBSET (DOMAIN log)
        /\ \A i \in LsnsOf(p) : i \in 1 .. Len(log)
    BY <2>5, <2>6 DEF LsnsBelow, LsnsOf
  <2>8. \A i \in LsnsBelow(p, file[p].lsn), k \in ToApply(p) : i < k
    BY <2>4, <2>5, <2>6, <2>7 DEF LsnsBelow
  <2>9. LsnsOf(p) = LsnsBelow(p, file[p].lsn) \cup ToApply(p)
    BY <2>4, <2>6, <2>7 DEF LsnsBelow
  <2>10. RecordsAt(log, LsnsOf(p)) =
           RecordsAt(log, LsnsBelow(p, file[p].lsn)) \o RecordsAt(log, ToApply(p))
    <3>1. PICK S : S = LsnsBelow(p, file[p].lsn) OBVIOUS
    <3>2. PICK T : T = ToApply(p) OBVIOUS
    <3>3. RecordsAt(log, S \cup T) = RecordsAt(log, S) \o RecordsAt(log, T)
      BY <2>4, <2>7, <2>8, <3>1, <3>2, RecordsAtSplit
    <3> QED BY <2>9, <3>1, <3>2, <3>3, Zenon
  <2>11. pool'[p] = Recovered(p) BY <1>1
  <2>12. /\ pool'[p].recs = ApplyRecords(file[p].recs, RecordsAt(log, ToApply(p)))
         /\ ToApply(p) = {} => pool'[p].oldest = Clean
         /\ ToApply(p) # {} => /\ pool'[p].oldest \in ToApply(p) /\ pool'[p].newest - 1 \in ToApply(p)
                               /\ \A i \in ToApply(p) : pool'[p].oldest <= i /\ i < pool'[p].newest
         /\ pool'[p].newest \in Nat
    BY <2>11, RecoveredBlock DEF Blocks
  <2>13. pool'[p].recs = RecordsAt(log, LsnsOf(p))
    BY <2>2, <2>10, <2>12 DEF Fits, ApplyRecords
  <2>14. ASSUME pool'[p].oldest # Clean, NEW i \in LsnsOf(p) PROVE i < pool'[p].newest
    <3>1. ToApply(p) # {} BY <2>12, <2>14
    <3>2. CASE i \in ToApply(p) BY <2>12, <3>1, <3>2
    <3>3. CASE i \notin ToApply(p)
      <4>1. i \in LsnsBelow(p, file[p].lsn) BY <2>9, <3>3
      <4>2. i < pool'[p].newest - 1 BY <2>8, <2>12, <3>1, <4>1
      <4> QED BY <2>7, <2>12, <4>2
    <3> QED BY <3>2, <3>3
  <2>15. ASSUME NEW i \in LsnsOf(p), i >= file[p].lsn
         PROVE  pool'[p].oldest # Clean /\ i >= pool'[p].oldest
    <3>1. i \in ToApply(p) BY <2>6, <2>15
    <3>2. pool'[p].oldest \in ToApply(p) /\ pool'[p].oldest <= i BY <2>12, <3>1
    <3>3. pool'[p].oldest \in 1 .. Len(log) BY <2>5, <2>7, <3>2
    <3> QED BY <2>5, <2>7, <3>2, <3>3 DEF Clean
  <2>16. LsnsOf(p)' = LsnsOf(p) BY <1>1 DEF LsnsOf
  <2> QED BY <1>1, <2>13, <2>14, <2>15, <2>16 DEF BlockMatches
<1>5. \A p \in Pages : pool'[p].io # "write" BY <1>1, RecoveredBlock
<1> QED BY <1>1, <1>3, <1>4, <1>5, MatchKept

\* Recovery starts in the log.
LEMMA StartsBelow ==
  ASSUME RedoInv, phase = "up"
  PROVE  \A c \in Starts : c \in Nat /\ c <= Len(log) + 1
<1>0. Len(log) \in Nat BY LenProperties DEF RedoInv, Types, LogTypes
<1>1. \A n \in Nat : Hard(n - 1) => n <= Len(log) + 1
  <2>1. \A n \in Nat : n - 1 \in Int OBVIOUS
  <2>2. \A n \in Nat : Hard(n - 1) => n - 1 <= Len(log) BY <2>1, HardBelow DEF RedoInv, Types
  <2> QED BY <1>0, <2>2
<1>2. \A i \in Consistent : slots[i].lsn \in Nat /\ Hard(slots[i].lsn - 1)
  BY DEF Consistent, RedoInv, CheckpointsOK, Types, CheckpointTypes
<1>3. m_n_pending_checkpoint_writes = 1 =>
        m_next_checkpoint_lsn \in Nat /\ Hard(m_next_checkpoint_lsn - 1)
  BY DEF RedoInv, CheckpointsOK, Types, CheckpointTypes
<1>4. at["checkpointer"] = "write" =>
        arg["checkpointer"].lsn \in Nat /\ arg["checkpointer"].lsn <= Len(log) + 1
  BY DEF RedoInv, CallsOK, Waiting, m_lsn, Types, ThreadTypes, Calls, Threads, Others
<1> QED BY <1>1, <1>2, <1>3, <1>4 DEF Starts

\* A mini-transaction commits: its pages get its records, behind all others.
LEMMA MatchCommit ==
  ASSUME RedoInv, MatchOK, NEW t \in Clients, NEW ps \in PageLists,
         MtrCommit(t, ps) \/ TrxCommit(t, ps)
  PROVE  MatchOK'
<1>1. /\ mtr_commit(t, ps) /\ phase = "up"
      /\ UNCHANGED <<ckptVars, m_bpages, fileVars, phase, crashes, lapses>>
      /\ at'["checkpointer"] = at["checkpointer"] /\ arg'["checkpointer"] = arg["checkpointer"]
  <2>1. t # "checkpointer" BY ClientsAssumption DEF Others
  <2>2. CASE MtrCommit(t, ps) BY <2>2 DEF MtrCommit, mtr_commit, Running, threadVars
  <2>3. CASE TrxCommit(t, ps)
    BY <2>1, <2>3 DEF TrxCommit, mtr_commit, Running, Call, RedoInv, Types, ThreadTypes, Threads, Others
  <2> QED BY <2>2, <2>3
<1>2. UNCHANGED <<file, disk, dbl, dbldisk, slots>> BY <1>1 DEF fileVars
<1>3. /\ log' \in Seq(LogRecords) /\ log \in Seq(LogRecords) /\ Len(log') = Len(log) + Len(ps)
      /\ Len(ps) \in Nat /\ Len(ps) >= 1
      /\ \A i \in 1 .. Len(log) : log'[i] = log[i]
  BY <1>1, CommitLog DEF RedoInv, Types, LogTypes
<1>4. /\ DOMAIN log = 1 .. Len(log) /\ DOMAIN log' = 1 .. Len(log')
      /\ Len(log) \in Nat /\ Len(log') \in Nat /\ m_lsn = Len(log) + 1
  BY <1>3, LenProperties DEF m_lsn
<1> DEFINE Added(p) == {i \in DOMAIN log' : i >= m_lsn /\ log'[i].page = p}
           Touched(p) == \E i \in DOMAIN Group(ps) : Group(ps)[i].page = p
<1>5. ASSUME NEW p \in Pages
      PROVE  /\ LsnsOf(p)' = LsnsOf(p) \cup Added(p)
             /\ LsnsOf(p) \in SUBSET (DOMAIN log) /\ LsnsOf(p) \in SUBSET (DOMAIN log')
             /\ Added(p) \in SUBSET (DOMAIN log')
             /\ \A i \in LsnsOf(p) : i \in Nat /\ i <= Len(log)
             /\ \A i \in Added(p) : i \in Nat /\ i >= Len(log) + 1 /\ i <= Len(log')
  BY <1>3, <1>4 DEF LsnsOf
<1>6. Starts' \subseteq Starts BY <1>1, <1>2, StartsSame
<1>7. ASSUME NEW p \in Pages, NEW e \in Images, ImageOK(e), Fits(p, e) PROVE Fits(p, e)'
  <2>1. e.lsn \in Nat /\ e.lsn - 1 \in Int BY DEF Images
  <2>2. e.lsn - 1 <= Len(log) BY <1>7, <2>1, HardBelow DEF ImageOK, RedoInv, Types
  <2>3. LsnsBelow(p, e.lsn)' = LsnsBelow(p, e.lsn) BY <1>4, <1>5, <2>1, <2>2 DEF LsnsBelow
  <2>4. PICK S : S = LsnsBelow(p, e.lsn) OBVIOUS
  <2>5. S \in SUBSET (DOMAIN log) /\ S \subseteq DOMAIN log' BY <1>5, <2>4 DEF LsnsBelow
  <2>6. RecordsAt(log, S) = RecordsAt(log', S) BY <1>3, <1>4, <2>5, RecordsAtSame
  <2>7. e.recs = RecordsAt(log, LsnsBelow(p, e.lsn))' BY <1>7, <2>3, <2>4, <2>6 DEF Fits
  <2>8. \A i \in LsnsOf(p)', c \in Starts' : i >= e.lsn => i >= c
    <3>1. \A i \in LsnsOf(p), c \in Starts : i >= e.lsn => i >= c BY <1>7 DEF Fits
    <3>2. \A c \in Starts : c \in Nat /\ c <= Len(log) + 1 BY <1>1, StartsBelow
    <3>3. \A i \in Added(p), c \in Starts : i >= c BY <1>4, <1>5, <3>2
    <3> QED BY <1>5, <1>6, <3>1, <3>3
  <2> QED BY <2>7, <2>8 DEF Fits
<1>8. FitsKept BY <1>7 DEF FitsKept
<1>9. log' = log \o Group(ps) BY <1>1 DEF mtr_commit, write_low
<1>10. /\ DOMAIN Group(ps) = 1 .. Len(ps) /\ Len(Group(ps)) = Len(ps)
       /\ Group(ps) \in Seq(LogRecords)
  BY GroupSeq DEF RedoInv, Types
<1>11. pool' = [p \in Pages |->
         IF Touched(p)
           THEN [recs   |-> ApplyRecords(pool[p].recs, RecordsAt(log', Added(p))),
                 newest |-> m_lsn + Len(Group(ps)),
                 oldest |-> IF pool[p].oldest = Clean THEN m_lsn ELSE pool[p].oldest,
                 io     |-> "none"]
           ELSE pool[p]]
  BY <1>1, <1>9 DEF mtr_commit, NoteModification, Records
<1>12. ASSUME NEW p \in Pages, ~Touched(p) PROVE Added(p) = {}
  <2>1. ASSUME NEW i \in Added(p) PROVE FALSE
    <3>1. i - Len(log) \in 1 .. Len(ps) BY <1>3, <1>4, <1>5
    <3>2. log'[i] = Group(ps)[i - Len(log)]
      <4>1. \A k \in 1 .. Len(Group(ps)) : log'[Len(log) + k] = Group(ps)[k]
        BY <1>3, <1>4, <1>9, <1>10, ConcatProperties
      <4>2. Len(log) + (i - Len(log)) = i BY <1>4, <1>5
      <4> QED BY <1>10, <3>1, <4>1, <4>2
    <3>3. log'[i].page = p OBVIOUS
    <3> QED BY <1>10, <1>12, <3>1, <3>2, <3>3
  <2> QED BY <2>1
<1> HIDE DEF Added, Touched
<1>13. ASSUME lapses = {}, NEW p \in Pages PROVE BlockMatches(p)'
  <2>1. BlockMatches(p) BY <1>1, <1>13 DEF MatchOK
  <2>2. RecordsAt(log, LsnsOf(p)) = RecordsAt(log', LsnsOf(p))
    <3>1. PICK S : S = LsnsOf(p) OBVIOUS
    <3>2. RecordsAt(log, S) = RecordsAt(log', S) BY <1>3, <1>4, <1>5, <3>1, RecordsAtSame
    <3> QED BY <3>1, <3>2
  <2>3. pool[p].oldest \in Nat /\ file[p].lsn \in Nat /\ pool[p].newest \in Nat
    BY DEF RedoInv, Types, PageTypes, Blocks, Images
  <2>4. CASE ~Touched(p)
    <3>1. pool'[p] = pool[p] BY <1>11, <2>4
    <3>2. LsnsOf(p)' = LsnsOf(p) BY <1>5, <1>12, <2>4
    <3> QED BY <1>2, <2>1, <2>2, <3>1, <3>2 DEF BlockMatches
  <2>5. CASE Touched(p)
    <3>1. /\ pool'[p].recs = pool[p].recs \o RecordsAt(log', Added(p))
          /\ pool'[p].newest = Len(log') + 1
          /\ pool'[p].oldest = IF pool[p].oldest = Clean THEN m_lsn ELSE pool[p].oldest
      <4>1. pool'[p] = [recs   |-> ApplyRecords(pool[p].recs, RecordsAt(log', Added(p))),
                        newest |-> m_lsn + Len(Group(ps)),
                        oldest |-> IF pool[p].oldest = Clean THEN m_lsn ELSE pool[p].oldest,
                        io     |-> "none"]
        BY <1>11, <2>5
      <4>2. m_lsn + Len(Group(ps)) = Len(log') + 1 BY <1>3, <1>4, <1>10
      <4> QED BY <4>1, <4>2 DEF ApplyRecords
    <3>2. pool'[p].recs = RecordsAt(log', LsnsOf(p)')
      <4>1. PICK S : S = LsnsOf(p) OBVIOUS
      <4>2. PICK T : T = Added(p) OBVIOUS
      <4>3. \A i \in S, k \in T : i < k BY <1>4, <1>5, <4>1, <4>2
      <4>4. RecordsAt(log', S \cup T) = RecordsAt(log', S) \o RecordsAt(log', T)
        BY <1>3, <1>5, <4>1, <4>2, <4>3, RecordsAtSplit
      <4>5. pool'[p].recs = RecordsAt(log', S) \o RecordsAt(log', T)
        BY <2>1, <2>2, <3>1, <4>1, <4>2 DEF BlockMatches
      <4>6. LsnsOf(p)' = S \cup T BY <1>5, <4>1, <4>2
      <4> QED BY <4>4, <4>5, <4>6, Zenon
    <3>3. \A i \in LsnsOf(p)' : i < pool'[p].newest BY <1>3, <1>4, <1>5, <3>1
    <3>4. ASSUME NEW i \in LsnsOf(p)', i >= file[p].lsn
          PROVE  pool'[p].oldest # Clean /\ i >= pool'[p].oldest
      <4>1. CASE pool[p].oldest = Clean
        <5>1. i \in Added(p) BY <1>5, <2>1, <3>4, <4>1 DEF BlockMatches
        <5>2. pool'[p].oldest = Len(log) + 1 BY <1>4, <3>1, <4>1
        <5> QED BY <1>4, <1>5, <5>1, <5>2 DEF Clean
      <4>2. CASE pool[p].oldest # Clean
        <5>1. pool'[p].oldest = pool[p].oldest /\ pool[p].oldest < Len(log) + 1
          BY <1>4, <3>1, <4>2 DEF RedoInv, BlocksOK
        <5>2. CASE i \in LsnsOf(p) BY <2>1, <3>4, <4>2, <5>1, <5>2 DEF BlockMatches
        <5>3. CASE i \in Added(p)
          <6>1. i \in Nat /\ i >= Len(log) + 1 BY <1>5, <5>3
          <6> QED BY <1>4, <2>3, <4>2, <5>1, <6>1
        <5> QED BY <1>5, <5>2, <5>3
      <4> QED BY <4>1, <4>2
    <3> QED BY <1>2, <3>2, <3>3, <3>4 DEF BlockMatches
  <2> QED BY <2>4, <2>5
<1>14. \A p \in Pages : pool'[p].io = "write" => pool[p].io = "write" /\ pool'[p].newest = pool[p].newest
  <2>1. \A p \in Pages : /\ pool'[p].io = pool[p].io
                         /\ pool[p].io # "none" => pool'[p] = pool[p]
    BY <1>1, CommitPool
  <2> QED BY <2>1
<1> QED BY <1>1, <1>2, <1>8, <1>13, <1>14, MatchKept

\* The database that was created has no records.
LEMMA MatchInit ==
  ASSUME Init
  PROVE  MatchOK
<1>1. /\ log = <<>> /\ pool = [p \in Pages |-> Block(<<>>)] /\ disk = file
      /\ file = [p \in Pages |-> Image(1, <<>>)]
  BY DEF Init
<1>2. \A p \in Pages : LsnsOf(p) = {} BY <1>1 DEF LsnsOf
<1>3. RecordsAt(log, {}) = <<>>
  <2>1. <<>> \in Seq(LogRecords) /\ {} \in SUBSET (DOMAIN <<>>) OBVIOUS
  <2> QED BY <1>1, <2>1, RecordsAtNone
<1>4. \A p \in Pages : /\ pool[p].recs = <<>> /\ pool[p].io = "none"
                       /\ file[p].recs = <<>> /\ file[p].lsn = 1
  BY <1>1 DEF Block, Image
<1>5. \A p \in Pages : file[p] # Torn BY <1>4 DEF Torn
<1>6. \A p \in Pages : ~Exposed(p) BY <1>1, <1>4, <1>5 DEF Exposed
<1>7. \A p \in Pages : BlockMatches(p) BY <1>2, <1>3, <1>4 DEF BlockMatches
<1>8. \A p \in Pages : Fits(p, file[p])
  <2>1. \A p \in Pages : LsnsBelow(p, file[p].lsn) = {} BY <1>2 DEF LsnsBelow
  <2> QED BY <1>2, <1>3, <1>4, <2>1 DEF Fits
<1> QED BY <1>1, <1>6, <1>7, <1>8 DEF MatchOK, FilesFit, CopiesFit

\* Every step keeps MatchOK.
LEMMA MatchNext ==
  ASSUME RedoInv, MatchOK, Next
  PROVE  MatchOK'
<1>1. CASE \E t \in Clients, ps \in PageLists : MtrCommit(t, ps) \/ TrxCommit(t, ps)
  BY <1>1, MatchCommit
<1>2. CASE \/ \E t \in Clients : Ack(t)
           \/ \E l \in GarbageLsns \cup {m_lsn}, flush \in BOOLEAN : WriteInBackground(l, flush)
  BY <1>2, MatchCalls
<1>3. CASE \E t \in Threads : WriteUpTo(t) BY <1>3, MatchWriteUpTo
<1>4. CASE \E p \in Pages : FlushPage(p) \/ PostPage(p) \/ PageIoComplete(p)
  BY <1>4, MatchFix, MatchPageIoComplete
<1>5. CASE DblWrite \/ DblSync \/ SyncDatafiles \/ CheckpointSync
  BY <1>5, MatchDblWrite, MatchDblSync, MatchSyncs
<1>6. CASE CheckpointOldest \/ CheckpointWrite \/ CheckpointIoComplete
  BY <1>6, MatchCheckpointOldest, MatchCheckpointWrite
<1>7. CASE Kill \/ PowerFailure BY <1>7, MatchKill, MatchPowerFailure
<1>8. CASE RecoverPages \/ RecvScan \/ RecvMisread \/ RecvApply
  BY <1>8, MatchRecoverPages, MatchRecvScan, MatchRecvApply DEF MatchOK, RecvMisread
<1> QED BY <1>1, <1>2, <1>3, <1>4, <1>5, <1>6, <1>7, <1>8 DEF Next

\* Nor does a step that changes nothing disturb it.
LEMMA MatchStutter ==
  ASSUME RedoInv, MatchOK, UNCHANGED vars
  PROVE  MatchOK'
<1>1. UNCHANGED <<log, ckptVars, pool, file, disk, dbl, dbldisk, slots, at, arg, phase, lapses>>
  BY DEF vars, fileVars, threadVars
<1>2. Starts' \subseteq Starts BY <1>1, StartsSame
<1> QED BY <1>1, <1>2, MatchSame

(* The database is what its log says, also after any crashes and recoveries:
   every page has every record of the log, once and in order, in every
   history without a lapse: no checkpoint read the flush list while a page
   that had left it was not synced to disk, wait_for_pending_ops() never
   returned with a page write running, and no record was misread. *)
THEOREM PagesMatchLogHolds == Spec => []PagesMatchLog
<1>1. Init => RedoInv /\ MatchOK BY RedoInit, MatchInit
<1>2. (RedoInv /\ MatchOK) /\ [Next]_vars => (RedoInv /\ MatchOK)'
  BY RedoNext, RedoStutter, MatchNext, MatchStutter
<1>3. RedoInv /\ MatchOK => PagesMatchLog
  <2> SUFFICES ASSUME RedoInv, MatchOK, phase = "up", lapses = {}, NEW p \in Pages
               PROVE  pool[p].recs = Records(log, p, 1)
    BY DEF PagesMatchLog
  <2>1. pool[p].recs = RecordsAt(log, LsnsOf(p)) BY DEF MatchOK, BlockMatches
  <2>2. DOMAIN log = 1 .. Len(log) /\ Len(log) \in Nat
    BY LenProperties DEF RedoInv, Types, LogTypes
  <2>3. LsnsOf(p) = {i \in DOMAIN log : i >= 1 /\ log[i].page = p} BY <2>2 DEF LsnsOf
  <2> QED BY <2>1, <2>3 DEF Records
<1> QED BY <1>1, <1>2, <1>3, PTL DEF Spec
=============================================================================
