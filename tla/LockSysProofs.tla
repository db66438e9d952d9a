--------------------------- MODULE LockSysProofs ---------------------------
(***************************************************************************)
(* LockInv is an inductive invariant of the lock manager, for any number   *)
(* of transactions, tables, pages and records.  RULE 3 (granted locks do   *)
(* not conflict), the queue order and RULE 1 (an implicit lock excludes    *)
(* everybody else) follow from it.                                         *)
(*                                                                         *)
(* The first part is about the operators that change the lock queues: they *)
(* keep the type of the queue, the queue order (NoOvertakingIn), the one   *)
(* bit of a waiting record lock (OneBitIn), and explicit exclusive locks   *)
(* (HoldsX).  The second part puts them together, action by action.        *)
(***************************************************************************)
EXTENDS LockSysInv, SequenceTheorems, FiniteSetTheorems, WellFoundedInduction, TLAPS

\* A function on 1..n is a sequence of length n.
LEMMA SeqOfFcn ==
  ASSUME NEW S, NEW n \in Nat, NEW f \in [1..n -> S]
  PROVE  f \in Seq(S) /\ Len(f) = n /\ DOMAIN f = 1..n
BY SMT

\* A sequence is a function on 1..Len into its elements.
LEMMA SeqIsFcn ==
  ASSUME NEW S, NEW s \in Seq(S)
  PROVE  /\ Len(s) \in Nat /\ DOMAIN s = 1..Len(s)
         /\ \A i \in DOMAIN s : s[i] \in S
BY SMT

\* The elements of a concatenation.
LEMMA ConcatIs ==
  ASSUME NEW S, NEW a \in Seq(S), NEW b \in Seq(S)
  PROVE  /\ a \o b \in Seq(S) /\ Len(a \o b) = Len(a) + Len(b)
         /\ \A i \in 1..Len(a) + Len(b) : (a \o b)[i] = IF i <= Len(a) THEN a[i] ELSE b[i - Len(a)]
BY ConcatProperties

\* type_mode arguments of record lock requests.
Requests == [mode : RecModes, gap : GapModes, ins : BOOLEAN]

\* Taking a struct out of the queue shifts the ones behind it.
LEMMA RemoveType ==
  ASSUME NEW ls \in Seq(Lock), NEW i \in DOMAIN ls
  PROVE  /\ Remove(ls, i) \in Seq(Lock)
         /\ Len(Remove(ls, i)) = Len(ls) - 1
         /\ \A j \in DOMAIN Remove(ls, i) : Remove(ls, i)[j] = ls[IF j < i THEN j ELSE j + 1]
<1> DEFINE n == Len(ls) - 1
<1>1. n \in Nat /\ DOMAIN ls = 1..Len(ls) BY SMT
<1>2. Remove(ls, i) \in [1..n -> Lock] BY <1>1 DEF Remove
<1> QED BY <1>1, <1>2, SeqOfFcn DEF Remove

\* Granting changes wait flags only.
LEMMA GrantType ==
  ASSUME NEW ls \in Seq(Lock), NEW who
  PROVE  /\ Grant(ls, who) \in Seq(Lock)
         /\ Len(Grant(ls, who)) = Len(ls)
         /\ DOMAIN Grant(ls, who) = DOMAIN ls
<1>1. Len(ls) \in Nat /\ DOMAIN ls = 1..Len(ls) /\ \A i \in DOMAIN ls : ls[i] \in Lock BY SeqIsFcn
<1>2. Grant(ls, who) \in [1..Len(ls) -> Lock]
  <2> SUFFICES ASSUME NEW i \in 1..Len(ls) PROVE Grant(ls, who)[i] \in Lock
    BY <1>1 DEF Grant
  <2> QED BY <1>1 DEF Grant, Lock
<1> QED BY <1>1, <1>2, SeqOfFcn

\* rec_create_low builds a Lock.
LEMMA NewRecLockType ==
  ASSUME NEW t \in Trx, NEW p \in Pages, NEW req \in Requests, NEW h \in HeapNos, NEW w \in BOOLEAN
  PROVE  NewRecLock(t, p, req, h, w) \in Lock
BY DEF NewRecLock, Lock, StoredGap, Requests, GapModes, RecModes, TableModes

\* The requests of the callers.
LEMMA RequestType ==
  /\ \A mode \in RecModes, gap \in GapModes, ins \in BOOLEAN : Request(mode, gap, ins) \in Requests
  /\ Request("X", "REC_NOT_GAP", FALSE) \in Requests
  /\ Request("X", "GAP", TRUE) \in Requests
BY DEF Request, Requests, RecModes, GapModes

\* Setting a bit changes one struct.
LEMMA SetBitType ==
  ASSUME NEW ls \in Seq(Lock), NEW i \in DOMAIN ls, NEW h \in HeapNos
  PROVE  /\ SetBit(ls, i, h) \in Seq(Lock)
         /\ DOMAIN SetBit(ls, i, h) = DOMAIN ls
         /\ SetBit(ls, i, h)[i] = [ls[i] EXCEPT !.bits = @ \cup {h}]
         /\ \A j \in DOMAIN ls : j # i => SetBit(ls, i, h)[j] = ls[j]
<1>1. Len(ls) \in Nat /\ DOMAIN ls = 1..Len(ls) /\ \A j \in DOMAIN ls : ls[j] \in Lock BY SeqIsFcn
<1>2. [ls[i] EXCEPT !.bits = @ \cup {h}] \in Lock BY <1>1 DEF Lock
<1>3. SetBit(ls, i, h) \in [1..Len(ls) -> Lock] BY <1>1, <1>2 DEF SetBit
<1> QED BY <1>1, <1>3, SeqOfFcn DEF SetBit

\* A new struct goes to the end of the queue.
LEMMA AppendType ==
  ASSUME NEW ls \in Seq(Lock), NEW l \in Lock
  PROVE  /\ Append(ls, l) \in Seq(Lock)
         /\ DOMAIN Append(ls, l) = 1..(Len(ls) + 1)
         /\ DOMAIN ls = 1..Len(ls) /\ Len(ls) \in Nat
         /\ \A i \in 1..Len(ls) : Append(ls, l)[i] = ls[i]
         /\ Append(ls, l)[Len(ls) + 1] = l
BY SMT

\* rec_add_to_queue appends a granted struct or sets a bit of one like it, and
\* the latter only when nobody waits for the record.
LEMMA AddToQueue ==
  ASSUME NEW ls \in Seq(Lock), NEW t \in Trx, NEW p \in Pages, NEW req \in Requests, NEW h \in HeapNos
  PROVE  /\ rec_add_to_queue(ls, t, p, req, h) \in Seq(Lock)
         /\ \/ rec_add_to_queue(ls, t, p, req, h) = Append(ls, NewRecLock(t, p, req, h, FALSE))
            \/ \E i \in Similar(ls, t, p, req, h) :
                 ~RecHasWaiter(ls, p, h) /\ rec_add_to_queue(ls, t, p, req, h) = SetBit(ls, i, h)
<1> DEFINE similar == rec_find_similar_on_page(ls, t, p, req, h)
<1>1. NewRecLock(t, p, req, h, FALSE) \in Lock BY NewRecLockType
<1>2. CASE RecHasWaiter(ls, p, h) \/ similar = {}
  <2>1. rec_add_to_queue(ls, t, p, req, h) = Append(ls, NewRecLock(t, p, req, h, FALSE))
    BY <1>2 DEF rec_add_to_queue, rec_create_low
  <2> QED BY <2>1, <1>1, AppendType, Zenon
<1>3. CASE ~(RecHasWaiter(ls, p, h) \/ similar = {})
  <2>1. PICK i \in similar : rec_add_to_queue(ls, t, p, req, h) = SetBit(ls, i, h)
    BY <1>3 DEF rec_add_to_queue
  <2>2. i \in Similar(ls, t, p, req, h) BY <2>1 DEF rec_find_similar_on_page
  <2>3. i \in DOMAIN ls BY <2>2 DEF Similar
  <2>4. SetBit(ls, i, h) \in Seq(Lock) BY <2>3, SetBitType
  <2> QED BY <1>3, <2>1, <2>2, <2>4, Zenon
<1> QED BY <1>2, <1>3

\* A struct that InheritTo creates or reuses for the record heir of page p: it
\* locks the gap before heir and no record.
GapStruct(l, p, heir) ==
  /\ l \in Lock /\ l.type = "REC" /\ l.on = p /\ ~l.wait /\ ~l.ins
  /\ l.gap = IF heir = PAGE_HEAP_NO_SUPREMUM THEN "ORDINARY" ELSE "GAP"

\* The inheritance loops leave every old struct as it was or, if nobody waits for
\* heir, add the bit of heir to a gap struct; they put the new structs behind all
\* others, for the owner and in the mode of a lock on the page.
Inherited(ls, r, p, heir) ==
  /\ r \in Seq(Lock)
  /\ Len(r) \in Nat /\ Len(ls) \in Nat /\ Len(ls) <= Len(r)
  /\ DOMAIN r = 1..Len(r) /\ DOMAIN ls = 1..Len(ls)
  /\ \A i \in 1..Len(ls) :
       \/ r[i] = ls[i]
       \/ /\ GapStruct(ls[i], p, heir) /\ r[i] = [ls[i] EXCEPT !.bits = @ \cup {heir}]
          /\ ~RecHasWaiter(ls, p, heir)
  /\ \A i \in DOMAIN r : i > Len(ls) =>
       /\ GapStruct(r[i], p, heir) /\ r[i].bits = {heir} /\ r[i].mode \in RecModes
       /\ \E q \in DOMAIN ls : /\ ls[q].type = "REC" /\ ls[q].on = p
                                /\ ls[q].trx = r[i].trx /\ ls[q].mode = r[i].mode

\* InheritTo returns such a queue.
LEMMA InheritResult ==
  ASSUME NEW ls \in Seq(Lock), NEW Q \in SUBSET DOMAIN ls, NEW p \in Pages, NEW heir \in HeapNos,
         \A i \in Q : ls[i].type = "REC" /\ ls[i].on = p /\ ls[i].mode \in RecModes,
         NEW r \in InheritTo(ls, Q, p, heir)
  PROVE  Inherited(ls, r, p, heir)
<1> DEFINE similar(i) == rec_find_similar_on_page(ls, ls[i].trx, p, GapRequest(ls[i]), heir)
           reused == IF RecHasWaiter(ls, p, heir) THEN {} ELSE UNION {similar(i) : i \in Q}
           fresh == IF RecHasWaiter(ls, p, heir) THEN Q
                    ELSE {i \in Q : similar(i) = {} /\ ~\E j \in Q :
                            j < i /\ ls[j].trx = ls[i].trx /\ ls[j].mode = ls[i].mode}
           old == [i \in DOMAIN ls |->
                     IF i \in reused THEN [ls[i] EXCEPT !.bits = @ \cup {heir}] ELSE ls[i]]
           new(f) == [m \in DOMAIN f |->
                     NewRecLock(ls[f[m]].trx, p, GapRequest(ls[f[m]]), heir, FALSE)]
<1>1. PICK f \in Orders(fresh) : r = old \o new(f)
  BY DEF InheritTo
<1>2. Len(ls) \in Nat /\ DOMAIN ls = 1..Len(ls) /\ \A i \in DOMAIN ls : ls[i] \in Lock
  BY SeqIsFcn
<1>3. fresh \subseteq Q
  OBVIOUS
<1>4. \A i \in reused : i \in DOMAIN ls /\ GapStruct(ls[i], p, heir) /\ ~RecHasWaiter(ls, p, heir)
  <2> SUFFICES ASSUME NEW i \in reused
               PROVE  i \in DOMAIN ls /\ GapStruct(ls[i], p, heir) /\ ~RecHasWaiter(ls, p, heir)
    OBVIOUS
  <2>1. PICK q \in Q : i \in similar(q)
    OBVIOUS
  <2>2. i \in Similar(ls, ls[q].trx, p, GapRequest(ls[q]), heir)
    BY <2>1 DEF rec_find_similar_on_page
  <2> QED BY <1>2, <2>2 DEF Similar, GapRequest, Request, StoredGap, GapStruct
<1>5. old \in [1..Len(ls) -> Lock]
  <2> SUFFICES ASSUME NEW i \in 1..Len(ls) PROVE old[i] \in Lock
    BY <1>2
  <2> QED BY <1>2 DEF Lock
<1>6. IsFiniteSet(fresh)
  <2>1. IsFiniteSet(1..Len(ls)) BY <1>2, FS_Interval
  <2> QED BY <1>2, <1>3, <2>1, FS_Subset
<1> DEFINE n == Cardinality(fresh)
<1>7. n \in Nat /\ f \in [1..n -> fresh]
  BY <1>1, <1>6, FS_CardinalityType DEF Orders
<1>8. \A m \in 1..n : /\ new(f)[m] \in Lock /\ new(f)[m].bits = {heir}
                      /\ new(f)[m].mode \in RecModes /\ GapStruct(new(f)[m], p, heir)
                      /\ \E q \in DOMAIN ls : /\ ls[q].type = "REC" /\ ls[q].on = p
                                               /\ ls[q].trx = new(f)[m].trx /\ ls[q].mode = new(f)[m].mode
  <2> SUFFICES ASSUME NEW m \in 1..n
               PROVE  /\ new(f)[m] \in Lock /\ new(f)[m].bits = {heir}
                      /\ new(f)[m].mode \in RecModes /\ GapStruct(new(f)[m], p, heir)
                      /\ \E q \in DOMAIN ls : /\ ls[q].type = "REC" /\ ls[q].on = p
                                               /\ ls[q].trx = new(f)[m].trx /\ ls[q].mode = new(f)[m].mode
    OBVIOUS
  <2>1. f[m] \in Q BY <1>3, <1>7
  <2>2. ls[f[m]] \in Lock /\ ls[f[m]].mode \in RecModes BY <2>1, <1>2
  <2>3. GapRequest(ls[f[m]]) \in Requests
    BY <2>2 DEF GapRequest, Request, Requests, GapModes
  <2>4. new(f)[m] = NewRecLock(ls[f[m]].trx, p, GapRequest(ls[f[m]]), heir, FALSE)
    BY <1>7
  <2>5. ls[f[m]].trx \in Trx BY <2>2 DEF Lock
  <2> HIDE DEF new, fresh
  <2>6. NewRecLock(ls[f[m]].trx, p, GapRequest(ls[f[m]]), heir, FALSE) \in Lock
    BY <2>3, <2>5, NewRecLockType
  <2>7. GapStruct(NewRecLock(ls[f[m]].trx, p, GapRequest(ls[f[m]]), heir, FALSE), p, heir)
    BY <2>6 DEF GapStruct, NewRecLock, GapRequest, Request, StoredGap
  <2>8. /\ NewRecLock(ls[f[m]].trx, p, GapRequest(ls[f[m]]), heir, FALSE).bits = {heir}
        /\ NewRecLock(ls[f[m]].trx, p, GapRequest(ls[f[m]]), heir, FALSE).mode \in RecModes
    BY <2>2 DEF NewRecLock, GapRequest, Request
  <2>9. /\ NewRecLock(ls[f[m]].trx, p, GapRequest(ls[f[m]]), heir, FALSE).trx = ls[f[m]].trx
        /\ NewRecLock(ls[f[m]].trx, p, GapRequest(ls[f[m]]), heir, FALSE).mode = ls[f[m]].mode
    BY DEF NewRecLock, GapRequest, Request
  <2>10. f[m] \in DOMAIN ls /\ ls[f[m]].type = "REC" /\ ls[f[m]].on = p BY <2>1
  <2> QED BY <2>4, <2>6, <2>7, <2>8, <2>9, <2>10
<1>9. new(f) \in [1..n -> Lock]
  BY <1>7, <1>8
<1>r. r = old \o new(f) BY <1>1
<1> HIDE DEF old, new, n
<1>10. /\ old \in Seq(Lock) /\ Len(old) = Len(ls)
       /\ new(f) \in Seq(Lock) /\ Len(new(f)) = n
  BY <1>2, <1>5, <1>7, <1>9, SeqOfFcn
<1>11. /\ r \in Seq(Lock) /\ Len(r) = Len(ls) + n
       /\ \A i \in 1..Len(r) : r[i] = IF i <= Len(ls) THEN old[i] ELSE new(f)[i - Len(ls)]
  <2>1. /\ old \o new(f) \in Seq(Lock) /\ Len(old \o new(f)) = Len(old) + Len(new(f))
        /\ \A i \in 1..Len(old) + Len(new(f)) : (old \o new(f))[i] =
             IF i <= Len(old) THEN old[i] ELSE new(f)[i - Len(old)]
    <3>1. \A a, b \in Seq(Lock) :
            /\ a \o b \in Seq(Lock) /\ Len(a \o b) = Len(a) + Len(b)
            /\ \A i \in 1..Len(a) + Len(b) : (a \o b)[i] = IF i <= Len(a) THEN a[i] ELSE b[i - Len(a)]
      BY ConcatIs
    <3> QED BY <1>10, <3>1, Zenon
  <2> QED BY <1>r, <1>10, <2>1
<1>12. ASSUME NEW i \in 1..Len(ls)
       PROVE  \/ r[i] = ls[i]
              \/ /\ GapStruct(ls[i], p, heir) /\ r[i] = [ls[i] EXCEPT !.bits = @ \cup {heir}]
                 /\ ~RecHasWaiter(ls, p, heir)
  <2>1. r[i] = old[i] BY <1>2, <1>7, <1>11
  <2> QED BY <1>2, <1>4, <2>1, Zenon DEF old
<1>13. ASSUME NEW i \in DOMAIN r, i > Len(ls)
       PROVE  /\ GapStruct(r[i], p, heir) /\ r[i].bits = {heir} /\ r[i].mode \in RecModes
              /\ \E q \in DOMAIN ls : /\ ls[q].type = "REC" /\ ls[q].on = p
                                       /\ ls[q].trx = r[i].trx /\ ls[q].mode = r[i].mode
  <2>1. i \in 1..Len(r) /\ i - Len(ls) \in 1..n BY <1>2, <1>7, <1>11, <1>13, SeqIsFcn
  <2>2. r[i] = new(f)[i - Len(ls)] BY <1>2, <1>11, <1>13, <2>1
  <2> QED BY <1>8, <2>1, <2>2
<1>14. Len(r) \in Nat /\ Len(ls) <= Len(r) /\ DOMAIN r = 1..Len(r)
  BY <1>2, <1>7, <1>11, SeqIsFcn
<1> QED BY <1>2, <1>11, <1>12, <1>13, <1>14 DEF Inherited

-----------------------------------------------------------------------------
(* The wait rule and RULE 3.                                               *)

\* The compatibility matrix is symmetric.
LEMMA CompatSym ==
  \A a, b : mode_compatible(a, b) => mode_compatible(b, a)
BY DEF mode_compatible, Lock_compatibility_matrix

\* rec_blocks on a record itself is the incompatibility of the modes.
LEMMA BlocksRecord ==
  ASSUME NEW lock \in Lock, NEW t, NEW req, NEW k \in Keys,
         t # lock.trx, ~mode_compatible(req.mode, lock.mode),
         lock.gap # "GAP", ~lock.ins, req.gap # "GAP", req.ins = FALSE
  PROVE  rec_blocks(lock, t, req, k)
BY ConstantsAssumption DEF rec_blocks, Keys, PAGE_HEAP_NO_SUPREMUM

\* Locks that clash wait for each other: the wait rule covers RULE 3.
LEMMA ClashWaits ==
  ASSUME NEW a \in Lock, NEW b \in Lock, Clash(a, b)
  PROVE  has_to_wait_for(b, a) /\ Clash(b, a)
<1>1. ~mode_compatible(b.mode, a.mode) /\ a.trx # b.trx BY CompatSym DEF Clash
<1>2. Clash(b, a) BY <1>1 DEF Clash
<1>3. CASE a.type = "TABLE" /\ b.type = "TABLE" /\ a.on = b.on
  BY <1>1, <1>2, <1>3 DEF has_to_wait_for
<1>4. ASSUME NEW p \in Pages, NEW k \in Keys, OnRec(a, p, k), OnRec(b, p, k),
             LocksRecord(a, k), LocksRecord(b, k)
      PROVE  has_to_wait_for(b, a)
  <2>1. b.ins = FALSE BY <1>4 DEF LocksRecord, Lock
  <2>2. rec_blocks(a, b.trx, b, k) BY <1>1, <1>4, <2>1, BlocksRecord DEF LocksRecord
  <2> QED BY <1>1, <1>4, <2>2 DEF has_to_wait_for, OnRec
<1> QED BY <1>2, <1>3, <1>4 DEF Clash

-----------------------------------------------------------------------------
(* Queue order.                                                            *)

\* Removing a struct keeps the order of the others.
LEMMA RemoveOrder ==
  ASSUME NEW ls \in Seq(Lock), NEW i \in DOMAIN ls, NoOvertakingIn(ls), OneBitIn(ls)
  PROVE  NoOvertakingIn(Remove(ls, i)) /\ OneBitIn(Remove(ls, i))
<1> DEFINE r == Remove(ls, i)
           at(j) == IF j < i THEN j ELSE j + 1
<1>1. /\ r \in Seq(Lock) /\ Len(r) = Len(ls) - 1 /\ i \in 1..Len(ls) /\ Len(ls) \in Nat
      /\ DOMAIN ls = 1..Len(ls) /\ DOMAIN r = 1..(Len(ls) - 1)
      /\ \A j \in DOMAIN r : r[j] = ls[at(j)]
  BY RemoveType, SeqIsFcn
<1> HIDE DEF r
<1>2. \A j, k \in DOMAIN r : at(j) \in DOMAIN ls /\ (j < k => at(j) < at(k))
  BY <1>1
<1>3. NoOvertakingIn(r)
  BY <1>1, <1>2 DEF NoOvertakingIn
<1>4. OneBitIn(r)
  BY <1>1, <1>2 DEF OneBitIn
<1> QED BY <1>3, <1>4 DEF r

\* grant lets through only locks with nothing conflicting ahead of them.
LEMMA GrantOrder ==
  ASSUME NEW ls \in Seq(Lock), NEW who, NoOvertakingIn(ls), OneBitIn(ls)
  PROVE  NoOvertakingIn(Grant(ls, who)) /\ OneBitIn(Grant(ls, who))
<1> DEFINE g == Grant(ls, who)
<1>1. /\ g \in Seq(Lock) /\ DOMAIN g = DOMAIN ls /\ Len(ls) \in Nat /\ DOMAIN ls = 1..Len(ls)
      /\ \A j \in DOMAIN ls : ls[j] \in Lock
  BY GrantType, SeqIsFcn
<1>2. \A j \in DOMAIN ls :
        /\ g[j].trx = ls[j].trx /\ g[j].type = ls[j].type /\ g[j].on = ls[j].on
        /\ g[j].mode = ls[j].mode /\ g[j].gap = ls[j].gap /\ g[j].ins = ls[j].ins
        /\ g[j].bits = ls[j].bits
        /\ g[j].wait => ls[j].wait
        /\ (~g[j].wait /\ ls[j].wait) => ~has_to_wait_in_queue(ls, j)
  BY <1>1 DEF Grant, Grantable, Lock
<1> HIDE DEF g
<1>3. ASSUME NEW i \in DOMAIN ls, NEW j \in DOMAIN ls, i < j, ~g[j].wait, Clash(g[i], g[j])
      PROVE  FALSE
  <2>1. Clash(ls[i], ls[j]) BY <1>2, <1>3 DEF Clash, OnRec, LocksRecord
  <2>2. ls[j].wait BY <2>1, <1>3 DEF NoOvertakingIn
  <2>3. has_to_wait_for(ls[j], ls[i]) BY <1>1, <2>1, ClashWaits
  <2>4. i \in 1..(j-1) BY <1>1, <1>3
  <2> QED BY <1>2, <1>3, <2>2, <2>3, <2>4 DEF has_to_wait_in_queue
<1>4. NoOvertakingIn(g) BY <1>1, <1>3 DEF NoOvertakingIn
<1>5. OneBitIn(g) BY <1>1, <1>2 DEF OneBitIn
<1> QED BY <1>4, <1>5 DEF g

\* A request that waits may join behind anything.
LEMMA AppendWaiting ==
  ASSUME NEW ls \in Seq(Lock), NEW l \in Lock, l.wait, NEW h \in HeapNos, l.bits \subseteq {h},
         NoOvertakingIn(ls), OneBitIn(ls)
  PROVE  NoOvertakingIn(Append(ls, l)) /\ OneBitIn(Append(ls, l))
<1> DEFINE r == Append(ls, l)
<1>1. /\ DOMAIN r = 1..(Len(ls) + 1) /\ DOMAIN ls = 1..Len(ls) /\ Len(ls) \in Nat
      /\ \A i \in 1..Len(ls) : r[i] = ls[i]
      /\ r[Len(ls) + 1] = l
  BY AppendType
<1> HIDE DEF r
<1>2. NoOvertakingIn(r) BY <1>1 DEF NoOvertakingIn
<1>3. OneBitIn(r) BY <1>1 DEF OneBitIn
<1> QED BY <1>2, <1>3 DEF r

\* A granted struct may join at the end if it clashes with nothing in the queue.
LEMMA AppendGranted ==
  ASSUME NEW ls \in Seq(Lock), NEW l \in Lock, ~l.wait,
         \A i \in DOMAIN ls : ~Clash(ls[i], l),
         NoOvertakingIn(ls), OneBitIn(ls)
  PROVE  NoOvertakingIn(Append(ls, l)) /\ OneBitIn(Append(ls, l))
<1> DEFINE r == Append(ls, l)
<1>1. /\ DOMAIN r = 1..(Len(ls) + 1) /\ DOMAIN ls = 1..Len(ls) /\ Len(ls) \in Nat
      /\ \A i \in 1..Len(ls) : r[i] = ls[i]
      /\ r[Len(ls) + 1] = l
  BY AppendType
<1> HIDE DEF r
<1>2. NoOvertakingIn(r) BY <1>1 DEF NoOvertakingIn
<1>3. OneBitIn(r) BY <1>1 DEF OneBitIn
<1> QED BY <1>2, <1>3 DEF r

\* A bit set for a request that clashes with nobody keeps the queue order.
\* `Free` is what rec_other_has_conflicting has found out when the bit is set.
Free(ls, t, p, req, h) ==
  (req.gap # "GAP" /\ ~req.ins /\ h # PAGE_HEAP_NO_SUPREMUM) =>
    \A i \in DOMAIN ls :
      (ls[i].trx # t /\ OnRec(ls[i], p, h) /\ LocksRecord(ls[i], h))
        => mode_compatible(ls[i].mode, req.mode)

\* A granted struct of t on page p whose type_mode is that of the request; on the
\* supremum the gap flags do not count.
SameRequest(l, t, p, req, h) ==
  /\ l.type = "REC" /\ l.on = p /\ l.trx = t /\ l.mode = req.mode /\ l.ins = req.ins /\ ~l.wait
  /\ h # PAGE_HEAP_NO_SUPREMUM => l.gap = req.gap

\* rec_find_similar_on_page finds such structs.
LEMMA SimilarIsSame ==
  ASSUME NEW ls \in Seq(Lock), NEW t, NEW p, NEW req, NEW h, NEW i \in Similar(ls, t, p, req, h)
  PROVE  i \in DOMAIN ls /\ SameRequest(ls[i], t, p, req, h)
BY DEF Similar, SameRequest, StoredGap

\* Setting the bit of a request that clashes with nobody keeps the queue order.
LEMMA SetBitOrder ==
  ASSUME NEW ls \in Seq(Lock), NEW t \in Trx, NEW p \in Pages, NEW req \in Requests, NEW h \in HeapNos,
         NEW i \in DOMAIN ls, SameRequest(ls[i], t, p, req, h),
         Free(ls, t, p, req, h), NoOvertakingIn(ls), OneBitIn(ls)
  PROVE  NoOvertakingIn(SetBit(ls, i, h)) /\ OneBitIn(SetBit(ls, i, h))
<1>1. Len(ls) \in Nat /\ DOMAIN ls = 1..Len(ls) /\ \A j \in DOMAIN ls : ls[j] \in Lock BY SeqIsFcn
<1> DEFINE r == SetBit(ls, i, h)
<1>2. /\ DOMAIN r = DOMAIN ls /\ \A j \in DOMAIN ls : j # i => r[j] = ls[j]
      /\ r[i] = [ls[i] EXCEPT !.bits = @ \cup {h}]
  BY SetBitType
<1>3. /\ r[i].type = "REC" /\ r[i].on = p /\ r[i].trx = t /\ r[i].mode = req.mode
      /\ r[i].gap = ls[i].gap /\ r[i].ins = req.ins /\ ~r[i].wait
      /\ r[i].bits = ls[i].bits \cup {h}
  BY <1>1, <1>2 DEF Lock, SameRequest
<1> HIDE DEF r
<1>4. ASSUME NEW j \in DOMAIN ls, Clash(ls[j], r[i]), ~Clash(ls[j], ls[i]) PROVE FALSE
  BY <1>3, <1>4 DEF Clash, OnRec, LocksRecord, SameRequest, Free, PAGE_HEAP_NO_SUPREMUM
<1>5. ASSUME NEW j \in DOMAIN ls, Clash(r[i], ls[j]), ~Clash(ls[i], ls[j]) PROVE FALSE
  BY <1>3, <1>5, CompatSym DEF Clash, OnRec, LocksRecord, SameRequest, Free, PAGE_HEAP_NO_SUPREMUM
<1>6. NoOvertakingIn(r)
  <2> SUFFICES ASSUME NEW a \in DOMAIN ls, NEW b \in DOMAIN ls, a < b, ~r[b].wait, Clash(r[a], r[b])
               PROVE  FALSE
    BY <1>2 DEF NoOvertakingIn
  <2>1. CASE a = i /\ b # i BY <1>2, <1>5, <2>1 DEF NoOvertakingIn
  <2>2. CASE a # i /\ b = i BY <1>2, <1>4, <2>2 DEF NoOvertakingIn, SameRequest
  <2>3. CASE a # i /\ b # i BY <1>2, <2>3 DEF NoOvertakingIn
  <2> QED BY <1>1, <2>1, <2>2, <2>3
<1>7. OneBitIn(r) BY <1>2, <1>3 DEF OneBitIn
<1> QED BY <1>6, <1>7 DEF r

\* rec_add_to_queue of a request that clashes with nobody keeps the queue order.
LEMMA AddOrder ==
  ASSUME NEW ls \in Seq(Lock), NEW t \in Trx, NEW p \in Pages, NEW req \in Requests, NEW h \in HeapNos,
         Free(ls, t, p, req, h), NoOvertakingIn(ls), OneBitIn(ls)
  PROVE  /\ NoOvertakingIn(rec_add_to_queue(ls, t, p, req, h))
         /\ OneBitIn(rec_add_to_queue(ls, t, p, req, h))
<1>1. Len(ls) \in Nat /\ DOMAIN ls = 1..Len(ls) /\ \A i \in DOMAIN ls : ls[i] \in Lock BY SeqIsFcn
<1> DEFINE l == NewRecLock(t, p, req, h, FALSE)
<1>2. CASE rec_add_to_queue(ls, t, p, req, h) = Append(ls, l)
  <2>1. l \in Lock BY NewRecLockType
  <2>2. /\ l.type = "REC" /\ l.on = p /\ l.bits = {h} /\ l.trx = t /\ l.mode = req.mode
        /\ l.ins = req.ins /\ l.wait = FALSE
        /\ l.gap = StoredGap(req, h)
    BY DEF NewRecLock
  <2> HIDE DEF l
  <2>3. ASSUME NEW i \in DOMAIN ls, Clash(ls[i], l) PROVE FALSE
    BY <1>1, <2>2, <2>3 DEF Clash, OnRec, LocksRecord, StoredGap, Free, PAGE_HEAP_NO_SUPREMUM
  <2>4. NoOvertakingIn(Append(ls, l)) /\ OneBitIn(Append(ls, l))
    BY <2>1, <2>2, <2>3, AppendGranted
  <2> QED BY <1>2, <2>4 DEF l
<1>3. ASSUME NEW i \in Similar(ls, t, p, req, h),
             rec_add_to_queue(ls, t, p, req, h) = SetBit(ls, i, h)
      PROVE  /\ NoOvertakingIn(rec_add_to_queue(ls, t, p, req, h))
             /\ OneBitIn(rec_add_to_queue(ls, t, p, req, h))
  BY <1>3, SimilarIsSame, SetBitOrder
<1> QED BY <1>2, <1>3, AddToQueue

\* Inherited gap locks lock no record: they clash with nothing.
LEMMA InheritOrder ==
  ASSUME NEW ls \in Seq(Lock), NEW r, NEW p \in Pages, NEW heir \in HeapNos,
         Inherited(ls, r, p, heir), NoOvertakingIn(ls), OneBitIn(ls)
  PROVE  NoOvertakingIn(r) /\ OneBitIn(r)
<1>1. /\ Len(r) \in Nat /\ Len(ls) \in Nat /\ Len(ls) <= Len(r)
      /\ DOMAIN r = 1..Len(r) /\ DOMAIN ls = 1..Len(ls)
  BY DEF Inherited
<1>2. \A i \in 1..Len(ls) :
         \/ r[i] = ls[i]
         \/ GapStruct(ls[i], p, heir) /\ r[i] = [ls[i] EXCEPT !.bits = @ \cup {heir}]
  BY DEF Inherited
<1>3. \A i \in DOMAIN r : i > Len(ls) =>
              GapStruct(r[i], p, heir) /\ r[i].bits = {heir} /\ r[i].mode \in RecModes
  BY DEF Inherited
<1>4. \A i \in 1..Len(ls) :
         /\ r[i].trx = ls[i].trx /\ r[i].type = ls[i].type /\ r[i].on = ls[i].on
         /\ r[i].mode = ls[i].mode /\ r[i].gap = ls[i].gap /\ r[i].ins = ls[i].ins
         /\ r[i].wait = ls[i].wait
         /\ \A k \in Keys : (k \in r[i].bits /\ LocksRecord(r[i], k)) => k \in ls[i].bits
         /\ r[i].wait => r[i].bits = ls[i].bits
  <2> SUFFICES ASSUME NEW i \in 1..Len(ls)
               PROVE  /\ r[i].trx = ls[i].trx /\ r[i].type = ls[i].type /\ r[i].on = ls[i].on
                      /\ r[i].mode = ls[i].mode /\ r[i].gap = ls[i].gap /\ r[i].ins = ls[i].ins
                      /\ r[i].wait = ls[i].wait
                      /\ \A k \in Keys : (k \in r[i].bits /\ LocksRecord(r[i], k)) => k \in ls[i].bits
                      /\ r[i].wait => r[i].bits = ls[i].bits
    OBVIOUS
  <2>1. CASE r[i] = ls[i] BY <2>1
  <2>2. CASE GapStruct(ls[i], p, heir) /\ r[i] = [ls[i] EXCEPT !.bits = @ \cup {heir}]
    BY <2>2 DEF GapStruct, Lock, LocksRecord
  <2> QED BY <1>2, <2>1, <2>2
<1>5. \A i \in DOMAIN r : i > Len(ls) => /\ r[i].type = "REC" /\ ~r[i].wait
                                          /\ \A k \in Keys : k \in r[i].bits => ~LocksRecord(r[i], k)
  BY <1>3 DEF GapStruct, LocksRecord
<1>6. NoOvertakingIn(r)
  <2> SUFFICES ASSUME NEW a \in DOMAIN r, NEW b \in DOMAIN r, a < b, ~r[b].wait, Clash(r[a], r[b])
               PROVE  FALSE
    BY DEF NoOvertakingIn
  <2>1. CASE b > Len(ls) BY <1>5, <2>1 DEF Clash, OnRec
  <2>2. CASE ~(b > Len(ls))
    <3>1. a \in 1..Len(ls) /\ b \in 1..Len(ls) BY <1>1, <2>2
    <3>2. Clash(ls[a], ls[b]) BY <1>4, <3>1 DEF Clash, OnRec, LocksRecord
    <3>3. ~ls[b].wait BY <1>4, <3>1
    <3> QED BY <1>1, <3>1, <3>2, <3>3 DEF NoOvertakingIn
  <2> QED BY <2>1, <2>2
<1>7. OneBitIn(r)
  <2> SUFFICES ASSUME NEW i \in DOMAIN r, r[i].type = "REC", r[i].wait
               PROVE  \E h \in HeapNos : r[i].bits \subseteq {h}
    BY DEF OneBitIn
  <2>1. i \in 1..Len(ls) BY <1>1, <1>5
  <2> QED BY <1>1, <1>4, <2>1 DEF OneBitIn
<1> QED BY <1>6, <1>7

\* rec_reset_and_release_wait ends waits only by emptying the struct.
LEMMA ResetOrder ==
  ASSUME NEW ls \in Seq(Lock), NEW p \in Pages, NEW h \in HeapNos, NoOvertakingIn(ls), OneBitIn(ls)
  PROVE  /\ rec_reset_and_release_wait(ls, p, h) \in Seq(Lock)
         /\ NoOvertakingIn(rec_reset_and_release_wait(ls, p, h))
         /\ OneBitIn(rec_reset_and_release_wait(ls, p, h))
<1> DEFINE r == rec_reset_and_release_wait(ls, p, h)
<1>1. Len(ls) \in Nat /\ DOMAIN ls = 1..Len(ls) /\ \A i \in DOMAIN ls : ls[i] \in Lock BY SeqIsFcn
<1>2. DOMAIN r = DOMAIN ls BY DEF rec_reset_and_release_wait
<1>3. ASSUME NEW i \in DOMAIN ls
      PROVE  /\ r[i] \in Lock
             /\ r[i].trx = ls[i].trx /\ r[i].type = ls[i].type /\ r[i].on = ls[i].on
             /\ r[i].mode = ls[i].mode /\ r[i].gap = ls[i].gap /\ r[i].ins = ls[i].ins
             /\ r[i].bits \subseteq ls[i].bits
             /\ r[i].wait => ls[i].wait
             /\ (ls[i].wait /\ ~r[i].wait) => OnRec(ls[i], p, h) /\ r[i].bits = ls[i].bits \ {h}
  <2>1. CASE OnRec(ls[i], p, h)
    <3>1. r[i] = [ls[i] EXCEPT !.bits = @ \ {h}, !.wait = FALSE]
      BY <2>1 DEF rec_reset_and_release_wait
    <3> HIDE DEF r
    <3> QED BY <1>1, <2>1, <3>1 DEF Lock
  <2>2. CASE ~OnRec(ls[i], p, h)
    <3>1. r[i] = ls[i] BY <2>2 DEF rec_reset_and_release_wait
    <3> QED BY <1>1, <3>1
  <2> QED BY <2>1, <2>2
<1>4. r \in [1..Len(ls) -> Lock] BY <1>1, <1>3 DEF rec_reset_and_release_wait
<1>5. r \in Seq(Lock) BY <1>1, <1>4, SeqOfFcn
<1> HIDE DEF r
<1>6. \A i \in DOMAIN ls : (ls[i].wait /\ ~r[i].wait) => r[i].type = "REC" /\ r[i].bits = {}
  BY <1>3 DEF OneBitIn, OnRec
<1>7. NoOvertakingIn(r)
  <2> SUFFICES ASSUME NEW a \in DOMAIN ls, NEW b \in DOMAIN ls, a < b, ~r[b].wait, Clash(r[a], r[b])
               PROVE  FALSE
    BY <1>2 DEF NoOvertakingIn
  <2>1. Clash(ls[a], ls[b]) BY <1>3 DEF Clash, OnRec, LocksRecord
  <2>2. ls[b].wait BY <2>1 DEF NoOvertakingIn
  <2> QED BY <1>6, <2>2 DEF Clash, OnRec
<1>8. OneBitIn(r) BY <1>2, <1>3 DEF OneBitIn
<1> QED BY <1>5, <1>7, <1>8 DEF r

\* Taking bits from one struct, and its wait flag if no bit is left, keeps the
\* queue order: rec_unlock and the refused request of rec_enqueue_waiting.
LEMMA DropBitsOrder ==
  ASSUME NEW ls \in Seq(Lock), NEW r \in Seq(Lock), DOMAIN r = DOMAIN ls,
         NEW i \in DOMAIN ls, \A j \in DOMAIN ls : j # i => r[j] = ls[j],
         r[i].trx = ls[i].trx, r[i].type = ls[i].type, r[i].on = ls[i].on,
         r[i].mode = ls[i].mode, r[i].gap = ls[i].gap, r[i].ins = ls[i].ins,
         r[i].bits \subseteq ls[i].bits,
         \/ r[i].wait = ls[i].wait
         \/ ls[i].type = "REC" /\ r[i].bits = {} /\ ~r[i].wait,
         NoOvertakingIn(ls), OneBitIn(ls)
  PROVE  NoOvertakingIn(r) /\ OneBitIn(r)
<1>1. NoOvertakingIn(r)
  <2> SUFFICES ASSUME NEW a \in DOMAIN ls, NEW b \in DOMAIN ls, a < b, ~r[b].wait, Clash(r[a], r[b])
               PROVE  FALSE
    BY DEF NoOvertakingIn
  <2>1. Clash(ls[a], ls[b]) BY DEF Clash, OnRec, LocksRecord
  <2>2. ls[b].wait BY <2>1 DEF NoOvertakingIn
  <2>3. b = i /\ r[i].type = "REC" /\ r[i].bits = {} BY <2>2
  <2> QED BY <2>3 DEF Clash, OnRec
<1>2. OneBitIn(r) BY DEF OneBitIn
<1> QED BY <1>1, <1>2

-----------------------------------------------------------------------------
(* Explicit exclusive locks and the requests of other transactions.        *)

\* The struct is a granted exclusive lock of o on the record itself.
XLock(l, o, p, k) ==
  OnRec(l, p, k) /\ l.trx = o /\ l.mode = "X" /\ ~l.wait /\ LocksRecord(l, k)

\* rec_has_expl of X | REC_NOT_GAP on a user record looks for such a struct.
LEMMA HoldsXIs ==
  ASSUME NEW ls \in Seq(Lock), NEW o, NEW p, NEW k \in Keys
  PROVE  HoldsX(ls, o, p, k) <=> \E i \in DOMAIN ls : XLock(ls[i], o, p, k)
<1>1. k # PAGE_HEAP_NO_SUPREMUM BY ConstantsAssumption DEF Keys, PAGE_HEAP_NO_SUPREMUM
<1>2. ASSUME NEW i \in DOMAIN ls PROVE ls[i].mode \in TableModes
  <2>1. ls[i] \in Lock BY SeqIsFcn
  <2> QED BY <2>1 DEF Lock
<1>3. \A m \in TableModes : mode_stronger_or_eq(m, "X") <=> m = "X"
  BY DEF mode_stronger_or_eq, Lock_strength_matrix, TableModes
<1> QED BY <1>1, <1>2, <1>3 DEF HoldsX, rec_has_expl, XLock, LocksRecord, Request

\* From ls to r, o keeps its exclusive lock on the record and nobody else asks
\* for the record anew: what the implicit lock of o needs.
Kept(ls, r, o, p, k) ==
  /\ HoldsX(ls, o, p, k) => HoldsX(r, o, p, k)
  /\ OtherRequest(r, o, p, k) => OtherRequest(ls, o, p, k)

\* Granting changes neither.
LEMMA GrantKept ==
  ASSUME NEW ls \in Seq(Lock), NEW who, NEW o, NEW p, NEW k \in Keys
  PROVE  Kept(ls, Grant(ls, who), o, p, k)
<1> DEFINE g == Grant(ls, who)
<1>1. g \in Seq(Lock) /\ DOMAIN g = DOMAIN ls BY GrantType
<1>2. \A j \in DOMAIN ls :
        /\ g[j].trx = ls[j].trx /\ g[j].type = ls[j].type /\ g[j].on = ls[j].on
        /\ g[j].mode = ls[j].mode /\ g[j].gap = ls[j].gap /\ g[j].ins = ls[j].ins
        /\ g[j].bits = ls[j].bits
        /\ g[j].wait => ls[j].wait
  BY SeqIsFcn DEF Grant, Lock
<1> HIDE DEF g
<1>3. HoldsX(ls, o, p, k) => HoldsX(g, o, p, k)
  BY <1>1, <1>2, HoldsXIs DEF XLock, OnRec, LocksRecord
<1>4. OtherRequest(g, o, p, k) => OtherRequest(ls, o, p, k)
  BY <1>1, <1>2 DEF OtherRequest, OnRec, LocksRecord
<1> QED BY <1>3, <1>4 DEF Kept, g

\* Removing a struct that is no granted record lock of o.
LEMMA RemoveKept ==
  ASSUME NEW ls \in Seq(Lock), NEW i \in DOMAIN ls, NEW o, NEW p, NEW k \in Keys,
         ls[i].wait \/ ls[i].trx # o \/ ls[i].type # "REC"
  PROVE  Kept(ls, Remove(ls, i), o, p, k)
<1> DEFINE r == Remove(ls, i)
<1>1. /\ r \in Seq(Lock) /\ Len(r) = Len(ls) - 1 /\ i \in 1..Len(ls) /\ Len(ls) \in Nat
      /\ DOMAIN ls = 1..Len(ls) /\ DOMAIN r = 1..(Len(ls) - 1)
      /\ \A j \in DOMAIN r : r[j] = ls[IF j < i THEN j ELSE j + 1]
  BY RemoveType, SeqIsFcn
<1> HIDE DEF r
<1>2. ASSUME HoldsX(ls, o, p, k) PROVE HoldsX(r, o, p, k)
  <2>1. PICK j \in DOMAIN ls : XLock(ls[j], o, p, k) BY <1>2, HoldsXIs
  <2>2. j # i BY <2>1 DEF XLock, OnRec
  <2>3. CASE j < i BY <1>1, <2>1, <2>3, HoldsXIs
  <2>4. CASE j > i
    <3>1. j - 1 \in DOMAIN r /\ r[j - 1] = ls[j] BY <1>1, <2>4
    <3> QED BY <1>1, <2>1, <3>1, HoldsXIs
  <2> QED BY <1>1, <2>2, <2>3, <2>4
<1>3. ASSUME OtherRequest(r, o, p, k) PROVE OtherRequest(ls, o, p, k)
  <2>1. PICK j \in DOMAIN r : r[j].trx # o /\ OnRec(r[j], p, k) /\ LocksRecord(r[j], k)
    BY <1>3 DEF OtherRequest
  <2>2. (IF j < i THEN j ELSE j + 1) \in DOMAIN ls BY <1>1
  <2> QED BY <1>1, <2>1, <2>2 DEF OtherRequest
<1> QED BY <1>2, <1>3 DEF Kept, r

\* A struct at the end of the queue takes no lock away, and is a new request only
\* for the record it locks.
LEMMA AppendKept ==
  ASSUME NEW ls \in Seq(Lock), NEW l \in Lock, NEW o, NEW p, NEW k \in Keys
  PROVE  /\ HoldsX(ls, o, p, k) => HoldsX(Append(ls, l), o, p, k)
         /\ OtherRequest(Append(ls, l), o, p, k) =>
              OtherRequest(ls, o, p, k) \/ (l.trx # o /\ OnRec(l, p, k) /\ LocksRecord(l, k))
         /\ XLock(l, o, p, k) => HoldsX(Append(ls, l), o, p, k)
<1> DEFINE r == Append(ls, l)
<1>1. /\ DOMAIN r = 1..(Len(ls) + 1) /\ DOMAIN ls = 1..Len(ls) /\ Len(ls) \in Nat
      /\ \A i \in 1..Len(ls) : r[i] = ls[i]
      /\ r[Len(ls) + 1] = l /\ r \in Seq(Lock)
  BY AppendType
<1> HIDE DEF r
<1>2. \A i \in DOMAIN r : i \in DOMAIN ls \/ i = Len(ls) + 1 BY <1>1
<1>3. DOMAIN ls \subseteq DOMAIN r /\ Len(ls) + 1 \in DOMAIN r BY <1>1
<1>4. HoldsX(ls, o, p, k) => HoldsX(r, o, p, k) BY <1>1, <1>3, HoldsXIs
<1>5. XLock(l, o, p, k) => HoldsX(r, o, p, k) BY <1>1, <1>3, HoldsXIs
<1>6. OtherRequest(r, o, p, k) =>
        OtherRequest(ls, o, p, k) \/ (l.trx # o /\ OnRec(l, p, k) /\ LocksRecord(l, k))
  BY <1>1, <1>2 DEF OtherRequest
<1> QED BY <1>4, <1>5, <1>6 DEF r

\* So does a bit set in a granted struct.
LEMMA SetBitKept ==
  ASSUME NEW ls \in Seq(Lock), NEW t \in Trx, NEW q \in Pages, NEW req \in Requests, NEW h \in HeapNos,
         NEW i \in DOMAIN ls, SameRequest(ls[i], t, q, req, h), NEW o, NEW p, NEW k \in Keys
  PROVE  /\ HoldsX(ls, o, p, k) => HoldsX(SetBit(ls, i, h), o, p, k)
         /\ OtherRequest(SetBit(ls, i, h), o, p, k) =>
              \/ OtherRequest(ls, o, p, k)
              \/ t # o /\ p = q /\ k = h /\ req.gap # "GAP" /\ ~req.ins
         /\ (p = q /\ k = h /\ o = t /\ req.mode = "X" /\ req.gap # "GAP" /\ ~req.ins)
              => HoldsX(SetBit(ls, i, h), o, p, k)
<1>0. k # PAGE_HEAP_NO_SUPREMUM BY ConstantsAssumption DEF Keys, PAGE_HEAP_NO_SUPREMUM
<1>1. \A j \in DOMAIN ls : ls[j] \in Lock BY SeqIsFcn
<1> DEFINE r == SetBit(ls, i, h)
<1>2. /\ DOMAIN r = DOMAIN ls /\ \A j \in DOMAIN ls : j # i => r[j] = ls[j]
      /\ r[i] = [ls[i] EXCEPT !.bits = @ \cup {h}] /\ r \in Seq(Lock)
  BY SetBitType
<1>3. /\ r[i].type = "REC" /\ r[i].on = q /\ r[i].trx = t /\ r[i].mode = req.mode
      /\ r[i].gap = ls[i].gap /\ r[i].ins = req.ins /\ ~r[i].wait
      /\ r[i].bits = ls[i].bits \cup {h}
  BY <1>1, <1>2 DEF Lock, SameRequest
<1> HIDE DEF r
<1>4. ASSUME NEW j \in DOMAIN ls, XLock(ls[j], o, p, k) PROVE XLock(r[j], o, p, k)
  <2>1. CASE j # i BY <1>2, <1>4, <2>1
  <2>2. CASE j = i BY <1>1, <1>2, <1>4, <2>2 DEF Lock, XLock, OnRec, LocksRecord
  <2> QED BY <2>1, <2>2
<1>5. HoldsX(ls, o, p, k) => HoldsX(r, o, p, k) BY <1>2, <1>4, HoldsXIs
<1>6. (p = q /\ k = h /\ o = t /\ req.mode = "X" /\ req.gap # "GAP" /\ ~req.ins) => XLock(r[i], o, p, k)
  BY <1>0, <1>3 DEF OnRec, LocksRecord, SameRequest, XLock
<1>7. (p = q /\ k = h /\ o = t /\ req.mode = "X" /\ req.gap # "GAP" /\ ~req.ins) => HoldsX(r, o, p, k)
  BY <1>2, <1>6, HoldsXIs
<1>8. ASSUME OtherRequest(r, o, p, k)
      PROVE  \/ OtherRequest(ls, o, p, k)
             \/ t # o /\ p = q /\ k = h /\ req.gap # "GAP" /\ ~req.ins
  <2>1. PICK j \in DOMAIN r : r[j].trx # o /\ OnRec(r[j], p, k) /\ LocksRecord(r[j], k)
    BY <1>8 DEF OtherRequest
  <2>2. CASE j # i BY <1>2, <2>1, <2>2 DEF OtherRequest
  <2>3. CASE j = i
    BY <1>0, <1>3, <2>1, <2>3 DEF OtherRequest, OnRec, LocksRecord, SameRequest
  <2> QED BY <2>2, <2>3
<1> QED BY <1>5, <1>7, <1>8 DEF r

\* rec_add_to_queue likewise.
LEMMA AddKept ==
  ASSUME NEW ls \in Seq(Lock), NEW t \in Trx, NEW q \in Pages, NEW req \in Requests, NEW h \in HeapNos,
         NEW o, NEW p, NEW k \in Keys
  PROVE  /\ HoldsX(ls, o, p, k) => HoldsX(rec_add_to_queue(ls, t, q, req, h), o, p, k)
         /\ OtherRequest(rec_add_to_queue(ls, t, q, req, h), o, p, k) =>
              \/ OtherRequest(ls, o, p, k)
              \/ t # o /\ p = q /\ k = h /\ req.gap # "GAP" /\ ~req.ins
         /\ (p = q /\ k = h /\ o = t /\ req.mode = "X" /\ req.gap # "GAP" /\ ~req.ins)
              => HoldsX(rec_add_to_queue(ls, t, q, req, h), o, p, k)
<1>0. k # PAGE_HEAP_NO_SUPREMUM BY ConstantsAssumption DEF Keys, PAGE_HEAP_NO_SUPREMUM
<1>1. Len(ls) \in Nat /\ DOMAIN ls = 1..Len(ls) /\ \A i \in DOMAIN ls : ls[i] \in Lock BY SeqIsFcn
<1> DEFINE l == NewRecLock(t, q, req, h, FALSE)
           R(r) == /\ HoldsX(ls, o, p, k) => HoldsX(r, o, p, k)
                   /\ OtherRequest(r, o, p, k) =>
                        \/ OtherRequest(ls, o, p, k)
                        \/ t # o /\ p = q /\ k = h /\ req.gap # "GAP" /\ ~req.ins
                   /\ (p = q /\ k = h /\ o = t /\ req.mode = "X" /\ req.gap # "GAP" /\ ~req.ins)
                        => HoldsX(r, o, p, k)
<1>2. R(Append(ls, l))
  <2>1. l \in Lock BY NewRecLockType
  <2>2. /\ l.type = "REC" /\ l.on = q /\ l.bits = {h} /\ l.trx = t /\ l.mode = req.mode
        /\ l.ins = req.ins /\ l.wait = FALSE /\ l.gap = StoredGap(req, h)
    BY DEF NewRecLock
  <2> HIDE DEF l
  <2>3. (OnRec(l, p, k) /\ LocksRecord(l, k)) => p = q /\ k = h /\ req.gap # "GAP" /\ ~req.ins
    BY <1>0, <2>2 DEF OnRec, LocksRecord, StoredGap
  <2>4. (p = q /\ k = h /\ o = t /\ req.mode = "X" /\ req.gap # "GAP" /\ ~req.ins) => XLock(l, o, p, k)
    BY <1>0, <2>2 DEF OnRec, LocksRecord, StoredGap, XLock
  <2> QED BY <2>1, <2>2, <2>3, <2>4, AppendKept
<1>3. ASSUME NEW i \in Similar(ls, t, q, req, h) PROVE R(SetBit(ls, i, h))
  BY SimilarIsSame, SetBitKept
<1> HIDE DEF R
<1>4. R(rec_add_to_queue(ls, t, q, req, h))
  BY <1>2, <1>3, AddToQueue, Zenon
<1> QED BY <1>4 DEF R

\* Inherited gap locks change neither.
LEMMA InheritKept ==
  ASSUME NEW ls \in Seq(Lock), NEW r, NEW q \in Pages, NEW heir \in HeapNos, Inherited(ls, r, q, heir),
         NEW o, NEW p, NEW k \in Keys
  PROVE  Kept(ls, r, o, p, k)
<1>0. k # PAGE_HEAP_NO_SUPREMUM BY ConstantsAssumption DEF Keys, PAGE_HEAP_NO_SUPREMUM
<1>1. /\ r \in Seq(Lock) /\ Len(r) \in Nat /\ Len(ls) \in Nat /\ Len(ls) <= Len(r)
      /\ DOMAIN r = 1..Len(r) /\ DOMAIN ls = 1..Len(ls)
  BY DEF Inherited
<1>2. ASSUME NEW i \in 1..Len(ls)
      PROVE  /\ XLock(ls[i], o, p, k) => XLock(r[i], o, p, k)
             /\ (r[i].trx # o /\ OnRec(r[i], p, k) /\ LocksRecord(r[i], k))
                  => (ls[i].trx # o /\ OnRec(ls[i], p, k) /\ LocksRecord(ls[i], k))
  <2>1. CASE r[i] = ls[i] BY <2>1
  <2>2. CASE GapStruct(ls[i], q, heir) /\ r[i] = [ls[i] EXCEPT !.bits = @ \cup {heir}]
    BY <1>0, <2>2 DEF GapStruct, Lock, LocksRecord, XLock, OnRec
  <2> QED BY <2>1, <2>2 DEF Inherited
<1>3. ASSUME NEW i \in DOMAIN r, i > Len(ls) PROVE ~(OnRec(r[i], p, k) /\ LocksRecord(r[i], k))
  <2>1. GapStruct(r[i], q, heir) /\ r[i].bits = {heir} BY <1>3 DEF Inherited
  <2> QED BY <1>0, <2>1 DEF GapStruct, LocksRecord, OnRec
<1>4. HoldsX(ls, o, p, k) => HoldsX(r, o, p, k)
  <2>1. DOMAIN ls \subseteq DOMAIN r BY <1>1
  <2> QED BY <1>1, <1>2, <2>1, HoldsXIs
<1>5. OtherRequest(r, o, p, k) => OtherRequest(ls, o, p, k)
  BY <1>1, <1>2, <1>3 DEF OtherRequest
<1> QED BY <1>4, <1>5 DEF Kept

\* Resetting the bits of one record changes neither for the other records.
LEMMA ResetKept ==
  ASSUME NEW ls \in Seq(Lock), NEW q \in Pages, NEW h \in HeapNos, OneBitIn(ls), NoOvertakingIn(ls),
         NEW o, NEW p, NEW k \in Keys, <<p, k>> # <<q, h>>
  PROVE  Kept(ls, rec_reset_and_release_wait(ls, q, h), o, p, k)
<1> DEFINE r == rec_reset_and_release_wait(ls, q, h)
<1>1. r \in Seq(Lock) /\ DOMAIN r = DOMAIN ls BY ResetOrder DEF rec_reset_and_release_wait
<1>2. ASSUME NEW i \in DOMAIN ls
      PROVE  /\ XLock(ls[i], o, p, k) => XLock(r[i], o, p, k)
             /\ (r[i].trx # o /\ OnRec(r[i], p, k) /\ LocksRecord(r[i], k))
                  => (ls[i].trx # o /\ OnRec(ls[i], p, k) /\ LocksRecord(ls[i], k))
  <2>0. ls[i] \in Lock BY SeqIsFcn
  <2>1. CASE OnRec(ls[i], q, h)
    <3>1. r[i] = [ls[i] EXCEPT !.bits = @ \ {h}, !.wait = FALSE]
      BY <2>1 DEF rec_reset_and_release_wait
    <3> HIDE DEF r
    <3> QED BY <2>0, <2>1, <3>1 DEF Lock, LocksRecord, XLock, OnRec
  <2>2. CASE ~OnRec(ls[i], q, h)
    <3>1. r[i] = ls[i] BY <2>2 DEF rec_reset_and_release_wait
    <3> QED BY <3>1
  <2> QED BY <2>1, <2>2
<1> HIDE DEF r
<1>3. HoldsX(ls, o, p, k) => HoldsX(r, o, p, k) BY <1>1, <1>2, HoldsXIs
<1>4. OtherRequest(r, o, p, k) => OtherRequest(ls, o, p, k) BY <1>1, <1>2 DEF OtherRequest
<1> QED BY <1>3, <1>4 DEF Kept, r

\* Taking bits from one struct changes neither, if the struct waits or keeps the
\* bit of the record.
LEMMA DropKept ==
  ASSUME NEW ls \in Seq(Lock), NEW r \in Seq(Lock), DOMAIN r = DOMAIN ls,
         NEW i \in DOMAIN ls, \A j \in DOMAIN ls : j # i => r[j] = ls[j],
         r[i].trx = ls[i].trx, r[i].type = ls[i].type, r[i].on = ls[i].on,
         r[i].mode = ls[i].mode, r[i].gap = ls[i].gap, r[i].ins = ls[i].ins,
         r[i].bits \subseteq ls[i].bits,
         NEW o, NEW p, NEW k \in Keys,
         ls[i].wait \/ (r[i].wait = ls[i].wait /\ (OnRec(ls[i], p, k) => OnRec(r[i], p, k)))
  PROVE  Kept(ls, r, o, p, k)
<1>1. HoldsX(ls, o, p, k) => HoldsX(r, o, p, k)
  BY HoldsXIs DEF XLock, LocksRecord
<1>2. OtherRequest(r, o, p, k) => OtherRequest(ls, o, p, k)
  BY DEF OtherRequest, OnRec, LocksRecord
<1> QED BY <1>1, <1>2 DEF Kept

-----------------------------------------------------------------------------
(* The bits of record locks are those of records that exist.               *)

\* S[p] are the records of page p.
BitsWithin(ls, S) ==
  \A i \in DOMAIN ls : ls[i].type = "REC" =>
    /\ ls[i].on \in Pages
    /\ ls[i].bits \subseteq S[ls[i].on] \cup {PAGE_HEAP_NO_SUPREMUM}
    /\ ls[i].mode \in RecModes

\* Removing and granting.
LEMMA RemoveBits ==
  ASSUME NEW ls \in Seq(Lock), NEW i \in DOMAIN ls, NEW S, BitsWithin(ls, S)
  PROVE  BitsWithin(Remove(ls, i), S)
<1>1. /\ i \in 1..Len(ls) /\ Len(ls) \in Nat
      /\ DOMAIN ls = 1..Len(ls) /\ DOMAIN Remove(ls, i) = 1..(Len(ls) - 1)
      /\ \A j \in DOMAIN Remove(ls, i) : Remove(ls, i)[j] = ls[IF j < i THEN j ELSE j + 1]
  BY RemoveType, SeqIsFcn
<1>2. \A j \in DOMAIN Remove(ls, i) : (IF j < i THEN j ELSE j + 1) \in DOMAIN ls
  BY <1>1
<1> QED BY <1>1, <1>2 DEF BitsWithin

\* Granting.
LEMMA GrantBits ==
  ASSUME NEW ls \in Seq(Lock), NEW who, NEW S, BitsWithin(ls, S)
  PROVE  BitsWithin(Grant(ls, who), S)
<1> DEFINE g == Grant(ls, who)
<1>1. g \in Seq(Lock) /\ DOMAIN g = DOMAIN ls BY GrantType
<1>2. \A j \in DOMAIN ls :
        /\ g[j].type = ls[j].type /\ g[j].on = ls[j].on
        /\ g[j].mode = ls[j].mode /\ g[j].bits = ls[j].bits
  BY SeqIsFcn DEF Grant, Lock
<1> HIDE DEF g
<1>3. BitsWithin(g, S) BY <1>1, <1>2 DEF BitsWithin
<1> QED BY <1>3 DEF g

\* A struct at the end.
LEMMA AppendBits ==
  ASSUME NEW ls \in Seq(Lock), NEW l \in Lock, NEW S, BitsWithin(ls, S),
         l.type = "REC" => /\ l.on \in Pages
                           /\ l.bits \subseteq S[l.on] \cup {PAGE_HEAP_NO_SUPREMUM}
                           /\ l.mode \in RecModes
  PROVE  BitsWithin(Append(ls, l), S)
<1> DEFINE r == Append(ls, l)
<1>1. /\ DOMAIN r = 1..(Len(ls) + 1) /\ DOMAIN ls = 1..Len(ls) /\ Len(ls) \in Nat
      /\ \A i \in 1..Len(ls) : r[i] = ls[i]
      /\ r[Len(ls) + 1] = l
  BY AppendType
<1> HIDE DEF r
<1>2. \A i \in DOMAIN r : i \in DOMAIN ls \/ i = Len(ls) + 1 BY <1>1
<1>3. BitsWithin(r, S) BY <1>1, <1>2 DEF BitsWithin
<1> QED BY <1>3 DEF r

\* A bit set in a struct of the page.
LEMMA SetBitBits ==
  ASSUME NEW ls \in Seq(Lock), NEW i \in DOMAIN ls, NEW q \in Pages, ls[i].on = q, NEW h \in HeapNos,
         NEW S, BitsWithin(ls, S), h \in S[q] \cup {PAGE_HEAP_NO_SUPREMUM}
  PROVE  BitsWithin(SetBit(ls, i, h), S)
<1> DEFINE r == SetBit(ls, i, h)
<1>1. /\ DOMAIN r = DOMAIN ls /\ \A j \in DOMAIN ls : j # i => r[j] = ls[j]
      /\ r[i] = [ls[i] EXCEPT !.bits = @ \cup {h}]
  BY SetBitType
<1>2. ls[i] \in Lock BY SeqIsFcn
<1>3. r[i].type = ls[i].type /\ r[i].on = q /\ r[i].mode = ls[i].mode /\ r[i].bits = ls[i].bits \cup {h}
  BY <1>1, <1>2 DEF Lock
<1> HIDE DEF r
<1>4. BitsWithin(r, S) BY <1>1, <1>3 DEF BitsWithin
<1> QED BY <1>4 DEF r

\* A bit set by rec_add_to_queue.
LEMMA AddBits ==
  ASSUME NEW ls \in Seq(Lock), NEW t \in Trx, NEW q \in Pages, NEW req \in Requests, NEW h \in HeapNos,
         NEW S, BitsWithin(ls, S), h \in S[q] \cup {PAGE_HEAP_NO_SUPREMUM}
  PROVE  BitsWithin(rec_add_to_queue(ls, t, q, req, h), S)
<1> DEFINE l == NewRecLock(t, q, req, h, FALSE)
<1>1. BitsWithin(Append(ls, l), S)
  <2>1. l \in Lock BY NewRecLockType
  <2>2. l.type = "REC" /\ l.on = q /\ l.bits = {h} /\ l.mode \in RecModes
    BY DEF NewRecLock, Requests
  <2> QED BY <2>1, <2>2, AppendBits
<1>2. ASSUME NEW i \in Similar(ls, t, q, req, h) PROVE BitsWithin(SetBit(ls, i, h), S)
  BY SimilarIsSame, SetBitBits DEF SameRequest
<1> QED BY <1>1, <1>2, AddToQueue, Zenon

\* Bits inherited by a record of the page.
LEMMA InheritBits ==
  ASSUME NEW ls \in Seq(Lock), NEW r, NEW q \in Pages, NEW heir \in HeapNos, Inherited(ls, r, q, heir),
         NEW S, BitsWithin(ls, S), heir \in S[q] \cup {PAGE_HEAP_NO_SUPREMUM}
  PROVE  BitsWithin(r, S)
<1>1. /\ Len(r) \in Nat /\ Len(ls) \in Nat /\ Len(ls) <= Len(r)
      /\ DOMAIN r = 1..Len(r) /\ DOMAIN ls = 1..Len(ls)
  BY DEF Inherited
<1> SUFFICES ASSUME NEW i \in DOMAIN r, r[i].type = "REC"
             PROVE  /\ r[i].on \in Pages
                    /\ r[i].bits \subseteq S[r[i].on] \cup {PAGE_HEAP_NO_SUPREMUM}
                    /\ r[i].mode \in RecModes
  BY DEF BitsWithin
<1>2. CASE i > Len(ls) BY <1>2 DEF Inherited, GapStruct
<1>3. CASE i \in 1..Len(ls)
  <2>1. CASE r[i] = ls[i] BY <1>1, <1>3, <2>1 DEF BitsWithin
  <2>2. CASE GapStruct(ls[i], q, heir) /\ r[i] = [ls[i] EXCEPT !.bits = @ \cup {heir}]
    <3>1. r[i].on = q /\ ls[i].on = q /\ r[i].mode = ls[i].mode /\ r[i].bits = ls[i].bits \cup {heir}
          /\ ls[i].type = "REC"
      BY <2>2 DEF GapStruct, Lock
    <3> QED BY <1>1, <1>3, <3>1 DEF BitsWithin
  <2> QED BY <1>3, <2>1, <2>2 DEF Inherited
<1> QED BY <1>1, <1>2, <1>3

\* From S to T the pages lose no record but h of page q.
Loses(S, T, q, h) ==
  \A p \in Pages : S[p] \subseteq T[p] \/ (p = q /\ S[p] \ {h} \subseteq T[p])

\* After rec_reset_and_release_wait no lock is on the record.
LEMMA ResetBits ==
  ASSUME NEW ls \in Seq(Lock), NEW q \in Pages, NEW h \in HeapNos, h # PAGE_HEAP_NO_SUPREMUM,
         NEW S, NEW T, BitsWithin(ls, S),
         Loses(S, T, q, h)
  PROVE  BitsWithin(rec_reset_and_release_wait(ls, q, h), T)
<1> DEFINE r == rec_reset_and_release_wait(ls, q, h)
<1>1. DOMAIN r = DOMAIN ls BY DEF rec_reset_and_release_wait
<1>2. ASSUME NEW i \in DOMAIN ls, r[i].type = "REC"
      PROVE  /\ r[i].on \in Pages
             /\ r[i].bits \subseteq T[r[i].on] \cup {PAGE_HEAP_NO_SUPREMUM}
             /\ r[i].mode \in RecModes
  <2>0. ls[i] \in Lock BY SeqIsFcn
  <2>1. CASE OnRec(ls[i], q, h)
    <3>1. r[i] = [ls[i] EXCEPT !.bits = @ \ {h}, !.wait = FALSE]
      BY <2>1 DEF rec_reset_and_release_wait
    <3> HIDE DEF r
    <3>2. r[i].on = q /\ ls[i].on = q /\ r[i].mode = ls[i].mode /\ r[i].bits = ls[i].bits \ {h}
          /\ ls[i].type = "REC"
      BY <2>0, <2>1, <3>1 DEF Lock, OnRec
    <3> QED BY <3>2 DEF BitsWithin, Loses
  <2>2. CASE ~OnRec(ls[i], q, h)
    <3>1. r[i] = ls[i] BY <2>2 DEF rec_reset_and_release_wait
    <3> HIDE DEF r
    <3>2. ls[i].type = "REC" BY <1>2, <3>1
    <3>3. ls[i].on \in Pages /\ ls[i].bits \subseteq S[ls[i].on] \cup {PAGE_HEAP_NO_SUPREMUM} /\ ls[i].mode \in RecModes
      BY <3>2 DEF BitsWithin
    <3>4. ls[i].on = q => h \notin ls[i].bits BY <2>2, <3>2 DEF OnRec
    <3> QED BY <3>1, <3>3, <3>4 DEF Loses
  <2> QED BY <2>1, <2>2
<1> HIDE DEF r
<1>3. BitsWithin(r, T) BY <1>1, <1>2 DEF BitsWithin
<1> QED BY <1>3 DEF r

-----------------------------------------------------------------------------
(* The actions of the lock manager.                                        *)

\* What every change of the queues keeps.
QueueOK(ls) == ls \in Seq(Lock) /\ NoOvertakingIn(ls) /\ OneBitIn(ls)

\* The records of every page, now.
Recs == [p \in Pages |-> Present(p)]

\* BitsPresentIn in terms of BitsWithin.
LEMMA BitsPresentIs ==
  \A ls : BitsPresentIn(ls) <=> BitsWithin(ls, Recs)
BY DEF BitsPresentIn, BitsWithin, Recs

\* BitsPresentIn in terms of BitsWithin, after a step.
LEMMA BitsPresentIsNext ==
  BitsPresentIn(locks)' <=> BitsWithin(locks', Recs')
BY DEF BitsPresentIn, BitsWithin, Recs

\* The owner of an implicit lock.
LEMMA ImplicitOwner ==
  ASSUME NEW p, NEW k
  PROVE  \A o : o \in clust_rec_some_has_impl(p, k) <=>
                  rec_trx[p][k] = o /\ o \in Trx /\ conc[o] = "ACTIVE"
BY DEF clust_rec_some_has_impl

\* The owner of an implicit lock, after a step.
LEMMA ImplicitOwnerNext ==
  ASSUME NEW p, NEW k
  PROVE  \A o : o \in clust_rec_some_has_impl(p, k)' <=>
                  rec_trx'[p][k] = o /\ o \in Trx /\ conc'[o] = "ACTIVE"
BY DEF clust_rec_some_has_impl

\* A record without an implicit lock has no active writer.
LEMMA NoWriter ==
  ASSUME LockInv, NEW p \in Pages, NEW k \in Keys, clust_rec_some_has_impl(p, k) = {}
  PROVE  rec_trx[p][k] = NoTrx
<1>1. rec_trx[p][k] \in Trx \cup {NoTrx} BY DEF LockInv, TypeOK
<1>2. rec_trx[p][k] \in Trx => conc[rec_trx[p][k]] = "ACTIVE" BY DEF LockInv, WriterActive
<1> QED BY <1>1, <1>2, ImplicitOwner

\* An implicit lock survives a step that keeps its owner's exclusive lock and
\* lets nobody else ask for the record.
LEMMA ImplicitKept ==
  ASSUME ImplicitOrExplicitIn(locks),
         \A p \in Pages, k \in Keys, o \in Trx :
           (rec_trx'[p][k] = o /\ conc'[o] = "ACTIVE") =>
             \/ rec_trx[p][k] = o /\ conc[o] = "ACTIVE" /\ Kept(locks, locks', o, p, k)
             \/ HoldsX(locks', o, p, k)
             \/ ~OtherRequest(locks', o, p, k)
  PROVE  ImplicitOrExplicitIn(locks)'
<1> SUFFICES ASSUME NEW p \in Pages, NEW k \in Keys, NEW o \in clust_rec_some_has_impl(p, k)'
             PROVE  HoldsX(locks', o, p, k) \/ ~OtherRequest(locks', o, p, k)
  BY DEF ImplicitOrExplicitIn, HoldsX, OtherRequest, rec_has_expl
<1>1. rec_trx'[p][k] = o /\ o \in Trx /\ conc'[o] = "ACTIVE" BY ImplicitOwnerNext
<1>2. CASE rec_trx[p][k] = o /\ conc[o] = "ACTIVE" /\ Kept(locks, locks', o, p, k)
  <2>1. o \in clust_rec_some_has_impl(p, k) BY <1>1, <1>2, ImplicitOwner
  <2> QED BY <1>2, <2>1 DEF ImplicitOrExplicitIn, Kept
<1> QED BY <1>1, <1>2

\* Nothing about rows changes.
LEMMA RowsKept ==
  ASSUME WriterActive, UndoConsistent, UNCHANGED rowVars,
         \A t \in Trx : conc[t] = "ACTIVE" => conc'[t] = "ACTIVE"
  PROVE  WriterActive' /\ UndoConsistent' /\ Recs' = Recs
BY DEF WriterActive, UndoConsistent, rowVars, Recs, Present

\* A step that touches neither the queues nor the rows.
LEMMA QuietStep ==
  ASSUME LockInv, UNCHANGED <<locks, rowVars>>, TypeOK', CallConsistent',
         \A t \in Trx : conc[t] = "ACTIVE" => conc'[t] = "ACTIVE"
  PROVE  LockInv'
<1> USE DEF LockInv
<1>1. NoOvertakingIn(locks)' /\ OneBitIn(locks)' BY DEF NoOvertakingIn, OneBitIn
<1>2. WriterActive' /\ UndoConsistent' /\ Recs' = Recs BY RowsKept
<1>3. BitsPresentIn(locks)' BY <1>2, BitsPresentIs, BitsPresentIsNext
<1>4. ImplicitOrExplicitIn(locks)'
  <2>1. rec_trx' = rec_trx /\ locks' = locks BY DEF rowVars
  <2>2. \A p \in Pages, k \in Keys, o \in Trx : rec_trx[p][k] = o => conc[o] = "ACTIVE"
    BY DEF WriterActive
  <2> QED BY <2>1, <2>2, ImplicitKept, Zenon DEF Kept
<1> QED BY <1>1, <1>2, <1>3, <1>4

\* A step that takes the i-th struct out of the queues and grants, where that
\* struct waits or its owner has committed.
LEMMA DequeueStep ==
  ASSUME LockInv, NEW i \in DOMAIN locks, NEW who, locks' = Grant(Remove(locks, i), who),
         locks[i].wait \/ conc[locks[i].trx] # "ACTIVE",
         UNCHANGED <<rowVars, conc>>, TypeOK', CallConsistent'
  PROVE  LockInv'
<1> USE DEF LockInv
<1> DEFINE ls == Remove(locks, i)
<1>1. locks \in Seq(Lock) /\ QueueOK(ls) BY RemoveType, RemoveOrder DEF TypeOK, QueueOK
<1> HIDE DEF ls
<1>0. locks' = Grant(ls, who) BY DEF ls
<1>2. NoOvertakingIn(locks') /\ OneBitIn(locks') BY <1>0, <1>1, GrantOrder DEF QueueOK
<1>3. WriterActive' /\ UndoConsistent' /\ Recs' = Recs BY RowsKept
<1>4. BitsPresentIn(locks)'
  <2>1. BitsWithin(locks, Recs) BY BitsPresentIs
  <2>2. BitsWithin(ls, Recs) BY <1>1, <2>1, RemoveBits DEF ls
  <2>3. BitsWithin(Grant(ls, who), Recs) BY <1>1, <2>2, GrantBits DEF QueueOK
  <2> QED BY <1>0, <1>3, <2>3, BitsPresentIsNext
<1>5. ASSUME NEW p \in Pages, NEW k \in Keys, NEW o \in Trx, rec_trx[p][k] = o, conc[o] = "ACTIVE"
      PROVE  Kept(locks, locks', o, p, k)
  <2>1. locks[i].wait \/ locks[i].trx # o BY <1>5
  <2>2. Kept(locks, ls, o, p, k) BY <1>1, <2>1, RemoveKept DEF ls
  <2>3. Kept(ls, Grant(ls, who), o, p, k) BY <1>1, GrantKept DEF QueueOK
  <2> QED BY <1>0, <2>2, <2>3 DEF Kept
<1>6. ImplicitOrExplicitIn(locks)'
  <2>1. rec_trx' = rec_trx /\ conc' = conc BY DEF rowVars
  <2> QED BY <1>5, <2>1, ImplicitKept
<1>7. NoOvertakingIn(locks)' /\ OneBitIn(locks)' BY <1>2 DEF NoOvertakingIn, OneBitIn
<1> QED BY <1>3, <1>4, <1>6, <1>7

\* What cancel_waiting_and_release and the dequeue operators leave has its type.
LEMMA DequeueType ==
  ASSUME TypeOK, NEW i \in DOMAIN locks, Dequeue(i) \/ cancel_waiting_and_release(i)
  PROVE  /\ locks' \in Seq(Lock)
         /\ que' \in [Trx -> {"RUNNING", "LOCK_WAIT", "ROLLING_BACK"}]
         /\ \E who : locks' = Grant(Remove(locks, i), who)
<1>1. Remove(locks, i) \in Seq(Lock) BY RemoveType DEF TypeOK
<1>2. locks' = Grant(Remove(locks, i), Revisited(locks, i))
  BY DEF Dequeue, cancel_waiting_and_release
<1>3. PICK S : que' = end_lock_wait(S) BY DEF Dequeue, cancel_waiting_and_release
<1>4. que' \in [Trx -> {"RUNNING", "LOCK_WAIT", "ROLLING_BACK"}]
  BY <1>3 DEF end_lock_wait, TypeOK
<1> QED BY <1>1, <1>2, <1>4, GrantType

\* The other structs survive, but for their wait flags.
LEMMA DequeueSurvivor ==
  ASSUME NEW ls \in Seq(Lock), NEW i \in DOMAIN ls, NEW who, NEW j \in DOMAIN ls, j # i
  PROVE  \E n \in DOMAIN Grant(Remove(ls, i), who) :
           LET a == Grant(Remove(ls, i), who)[n]
           IN  /\ a.trx = ls[j].trx /\ a.type = ls[j].type /\ a.on = ls[j].on /\ a.mode = ls[j].mode
               /\ a.gap = ls[j].gap /\ a.ins = ls[j].ins /\ a.bits = ls[j].bits
<1> DEFINE r == Remove(ls, i)
           g == Grant(r, who)
           n == IF j < i THEN j ELSE j - 1
<1>1. /\ r \in Seq(Lock) /\ Len(r) = Len(ls) - 1 /\ i \in 1..Len(ls) /\ Len(ls) \in Nat
      /\ DOMAIN ls = 1..Len(ls) /\ DOMAIN r = 1..(Len(ls) - 1)
      /\ \A m \in DOMAIN r : r[m] = ls[IF m < i THEN m ELSE m + 1]
  BY RemoveType, SeqIsFcn
<1>2. DOMAIN g = DOMAIN r BY <1>1, GrantType
<1>3. \A m \in DOMAIN r : r[m] \in Lock BY <1>1, SeqIsFcn
<1> HIDE DEF r
<1>4. \A m \in DOMAIN r :
        /\ g[m].trx = r[m].trx /\ g[m].type = r[m].type /\ g[m].on = r[m].on
        /\ g[m].mode = r[m].mode /\ g[m].gap = r[m].gap /\ g[m].ins = r[m].ins
        /\ g[m].bits = r[m].bits
  BY <1>3 DEF Grant, Lock
<1> HIDE DEF g
<1>5. n \in DOMAIN r /\ r[n] = ls[j] BY <1>1
<1> QED BY <1>2, <1>4, <1>5 DEF g, r

-----------------------------------------------------------------------------
(* The actions that leave the rows alone.                                  *)

\* start_low, RollbackStart, ResumeWait and ReportTimeout.
LEMMA QuietActions ==
  ASSUME LockInv, NEW t \in Trx,
         start_low(t) \/ RollbackStart(t) \/ ResumeWait(t) \/ ReportTimeout(t)
  PROVE  LockInv'
<1>1. CASE start_low(t)
  <2>1. TypeOK' BY <1>1 DEF start_low, LockInv, TypeOK, rowVars
  <2>2. CallConsistent' BY <1>1 DEF start_low, LockInv, CallConsistent, NoCall, Call
  <2>3. \A u \in Trx : conc[u] = "ACTIVE" => conc'[u] = "ACTIVE"
    BY <1>1 DEF start_low, LockInv, TypeOK
  <2> QED BY <1>1, <2>1, <2>2, <2>3, QuietStep DEF start_low
<1>2. CASE RollbackStart(t)
  <2>1. TypeOK' BY <1>2 DEF RollbackStart, LockInv, TypeOK, rowVars
  <2>2. CallConsistent' BY <1>2 DEF RollbackStart, LockInv, CallConsistent, NoCall, Call
  <2> QED BY <1>2, <2>1, <2>2, QuietStep DEF RollbackStart
<1>3. CASE ResumeWait(t)
  <2>1. TypeOK' BY <1>3 DEF ResumeWait, LockInv, TypeOK, rowVars
  <2>2. CallConsistent' BY <1>3 DEF ResumeWait, LockInv, CallConsistent, rowVars
  <2> QED BY <1>3, <2>1, <2>2, QuietStep DEF ResumeWait
<1>4. CASE ReportTimeout(t)
  <2>1. TypeOK' BY <1>4 DEF ReportTimeout, LockInv, TypeOK, rowVars
  <2>2. CallConsistent'
    BY <1>4 DEF ReportTimeout, LockInv, CallConsistent, rowVars
  <2> QED BY <1>4, <2>1, <2>2, QuietStep DEF ReportTimeout
<1> QED BY <1>1, <1>2, <1>3, <1>4

\* NoCall is a call, and one that promises nothing.
LEMMA NoCallType ==
  /\ NoCall \in Calls
  /\ \A t \in Trx : Call("release", t, NoTable, 0, "absent", 0) \in Calls
  /\ NoCall.op = "none"
BY ConstantsAssumption DEF NoCall, Call, Calls, HeapNos, RecStates

\* The turns of release_off_kernel.
LEMMA ReleaseActions ==
  ASSUME LockInv, NEW t \in Trx,
         release_off_kernel(t) \/ ReleaseReenter(t) \/ ReleaseEnd(t)
  PROVE  LockInv'
<1>1. CASE release_off_kernel(t)
  <2>1. PICK i \in DOMAIN locks : locks[i].trx = t /\ Dequeue(i)
    BY <1>1 DEF release_off_kernel
  <2>2. PICK who : locks' = Grant(Remove(locks, i), who) BY <2>1, DequeueType DEF LockInv
  <2>3. conc[t] = "COMMITTED_IN_MEMORY" BY <1>1 DEF release_off_kernel, LockInv, CallConsistent
  <2>4. kernel' \in Calls
    <3>1. kernel \in Calls BY DEF LockInv, TypeOK
    <3>2. CASE kernel' = NoCall BY <3>2, NoCallType
    <3>3. CASE kernel' = [kernel EXCEPT !.count = @ + 1]
      <4>1. kernel \in [op : {"none", "lock", "release"}, trx : Trx \cup {NoTrx}, page : Pages \cup {NoTable},
                        key : HeapNos, to : RecStates, count : Nat]
        BY <1>1, <3>1 DEF release_off_kernel, Calls
      <4> QED BY <3>3, <4>1 DEF Calls
    <3> QED BY <1>1, <3>2, <3>3 DEF release_off_kernel
  <2>5. TypeOK'
    BY <1>1, <2>1, <2>4, DequeueType DEF release_off_kernel, LockInv, TypeOK, rowVars
  <2>6. CallConsistent'
    <3>1. kernel' = NoCall \/ (kernel'.op = "release" /\ kernel'.trx = t)
      <4>1. kernel \in Calls BY DEF LockInv, TypeOK
      <4> QED BY <1>1, <4>1 DEF release_off_kernel, Calls
    <3>2. conc' = conc BY <1>1 DEF release_off_kernel
    <3> QED BY <2>3, <3>1, <3>2, NoCallType DEF CallConsistent
  <2> QED BY <1>1, <2>1, <2>2, <2>3, <2>5, <2>6, DequeueStep DEF release_off_kernel
<1>2. CASE ReleaseReenter(t)
  <2>1. TypeOK' BY <1>2, NoCallType DEF ReleaseReenter, LockInv, TypeOK, rowVars, trxVars
  <2>2. CallConsistent' BY <1>2 DEF ReleaseReenter, LockInv, CallConsistent, Call, trxVars
  <2>3. \A u \in Trx : conc[u] = "ACTIVE" => conc'[u] = "ACTIVE" BY <1>2 DEF ReleaseReenter, trxVars
  <2> QED BY <1>2, <2>1, <2>2, <2>3, QuietStep DEF ReleaseReenter
<1>3. CASE ReleaseEnd(t)
  <2>1. TypeOK' BY <1>3, NoCallType DEF ReleaseEnd, LockInv, TypeOK, rowVars
  <2>2. CallConsistent' BY <1>3, NoCallType DEF ReleaseEnd, LockInv, CallConsistent
  <2>3. \A u \in Trx : conc[u] = "ACTIVE" => conc'[u] = "ACTIVE"
    BY <1>3 DEF ReleaseEnd, LockInv, TypeOK, CallConsistent
  <2> QED BY <1>3, <2>1, <2>2, <2>3, QuietStep DEF ReleaseEnd
<1> QED BY <1>1, <1>2, <1>3

-----------------------------------------------------------------------------
(* The answers of deadlock_occurs, and the end of a wait.                  *)

\* m_wait_lock of a transaction that waits.
LEMMA WaitLockIs ==
  ASSUME NEW t, IsWaiting(locks, t)
  PROVE  /\ WaitLock(t) \in DOMAIN locks
         /\ locks[WaitLock(t)].trx = t /\ locks[WaitLock(t)].wait
BY DEF IsWaiting, WaitLock

\* Whoever is found on a cycle waits, and so does the transaction that asked.
LEMMA SearchedWait ==
  ASSUME NEW t \in Trx
  PROVE  /\ \A v \in Closers(t) : v # t /\ v \in Trx /\ IsWaiting(locks, v)
         /\ Closers(t) # {} => IsWaiting(locks, t)
         /\ TooFar(t) \/ TooLong(t) => IsWaiting(locks, t)
<1>1. \A v \in Closers(t) : v # t /\ v \in Trx /\ IsWaiting(locks, v)
  BY DEF Closers, Searched, WaitsFor, IsWaiting
<1>2. ASSUME NEW v \in Searched(t), v # t PROVE IsWaiting(locks, t)
  <2>1. v \in Searched(t) /\ v \notin {t} BY <1>2
  <2>2. ~\A u \in {t}, w \in Trx : WaitsFor(locks, u, w) /\ que[w] = "LOCK_WAIT" => w \in {t}
    BY <2>1 DEF Searched
  <2>3. \E w \in Trx : WaitsFor(locks, t, w) BY <2>2
  <2> QED BY <2>3 DEF WaitsFor, IsWaiting
<1>3. ASSUME TooFar(t) PROVE IsWaiting(locks, t)
  <2> DEFINE d == LOCK_MAX_DEPTH_IN_DEADLOCK_CHECK + 1
  <2>1. d \in Nat /\ 0 \in 0..(d-1) BY ConstantsAssumption
  <2>2. PICK path \in [0..d -> Trx] :
           path[0] = t /\ \A a \in 0..(d-1) : WaitsFor(locks, path[a], path[a+1])
    BY <1>3 DEF TooFar
  <2>3. WaitsFor(locks, t, path[0 + 1]) BY <2>1, <2>2
  <2> QED BY <2>3 DEF WaitsFor, IsWaiting
<1>4. ASSUME TooLong(t) PROVE IsWaiting(locks, t)
  <2>1. PICK v \in Searched(t), u \in Trx : WaitsFor(locks, v, u) BY <1>4 DEF TooLong
  <2> QED BY <1>2, <2>1 DEF WaitsFor, IsWaiting
<1>5. Closers(t) # {} => IsWaiting(locks, t) BY <1>2 DEF Closers
<1> QED BY <1>1, <1>3, <1>4, <1>5

\* A wait that is cancelled: LockTimeout and VictimIsOther.
LEMMA CancelActions ==
  ASSUME LockInv, NEW t \in Trx, NEW v \in Trx, LockTimeout(t) \/ VictimIsOther(t, v)
  PROVE  LockInv'
<1>1. CASE LockTimeout(t)
  <2>1. /\ WaitLock(t) \in DOMAIN locks /\ locks[WaitLock(t)].wait
        /\ cancel_waiting_and_release(WaitLock(t))
    BY <1>1, WaitLockIs DEF LockTimeout
  <2>2. PICK who : locks' = Grant(Remove(locks, WaitLock(t)), who) BY <2>1, DequeueType DEF LockInv
  <2>3. TypeOK' BY <1>1, <2>1, DequeueType DEF LockTimeout, LockInv, TypeOK, rowVars
  <2>4. CallConsistent' BY <1>1, NoCallType DEF LockTimeout, CallConsistent
  <2> QED BY <1>1, <2>1, <2>2, <2>3, <2>4, DequeueStep DEF LockTimeout
<1>2. CASE VictimIsOther(t, v)
  <2>1. /\ WaitLock(v) \in DOMAIN locks /\ locks[WaitLock(v)].wait /\ locks[WaitLock(v)].trx = v
        /\ v # t /\ cancel_waiting_and_release(WaitLock(v))
    BY <1>2, WaitLockIs, SearchedWait DEF VictimIsOther, Choose
  <2>2. PICK who : locks' = Grant(Remove(locks, WaitLock(v)), who) BY <2>1, DequeueType DEF LockInv
  <2>3. TypeOK' BY <1>2, <2>1, DequeueType DEF VictimIsOther, Choose, LockInv, TypeOK, rowVars
  <2>4. CallConsistent'
    <3>0. /\ kernel' = kernel /\ conc' = conc /\ rec' = rec /\ kernel.trx = t
          /\ kernel.op \in {"lock", "insert", "modify"}
      BY <1>2 DEF VictimIsOther, Choose, rowVars, Checking
    <3>1. ASSUME kernel.op = "modify"
          PROVE  \E i \in DOMAIN locks' :
                   /\ locks'[i].trx = t /\ OnRec(locks'[i], kernel.page, kernel.key)
                   /\ locks'[i].mode = "X" /\ locks'[i].gap = "REC_NOT_GAP" /\ ~locks'[i].ins
      <4>1. PICK j \in DOMAIN locks :
                   /\ locks[j].trx = t /\ OnRec(locks[j], kernel.page, kernel.key)
                   /\ locks[j].mode = "X" /\ locks[j].gap = "REC_NOT_GAP" /\ ~locks[j].ins
        BY <3>0, <3>1 DEF LockInv, CallConsistent
      <4>2. j # WaitLock(v) BY <2>1, <4>1
      <4>3. locks \in Seq(Lock) BY DEF LockInv, TypeOK
      <4>4. PICK n \in DOMAIN locks' :
               LET a == locks'[n]
               IN  /\ a.trx = locks[j].trx /\ a.type = locks[j].type /\ a.on = locks[j].on
                   /\ a.mode = locks[j].mode /\ a.gap = locks[j].gap /\ a.ins = locks[j].ins
                   /\ a.bits = locks[j].bits
        BY <2>1, <2>2, <4>2, <4>3, DequeueSurvivor
      <4> QED BY <4>1, <4>4 DEF OnRec
    <3> QED BY <3>0, <3>1 DEF LockInv, CallConsistent, OnRec
  <2> QED BY <1>2, <2>1, <2>2, <2>3, <2>4, DequeueStep DEF VictimIsOther, Choose
<1> QED BY <1>1, <1>2

\* A step that takes bits from one struct, as in DropBitsOrder, and then grants.
LEMMA DropStep ==
  ASSUME LockInv, NEW i \in DOMAIN locks, NEW ls \in Seq(Lock), DOMAIN ls = DOMAIN locks,
         \A j \in DOMAIN locks : j # i => ls[j] = locks[j],
         ls[i].trx = locks[i].trx, ls[i].type = locks[i].type, ls[i].on = locks[i].on,
         ls[i].mode = locks[i].mode, ls[i].gap = locks[i].gap, ls[i].ins = locks[i].ins,
         ls[i].bits \subseteq locks[i].bits,
         \/ ls[i].wait = locks[i].wait
         \/ locks[i].type = "REC" /\ ls[i].bits = {} /\ ~ls[i].wait,
         \A p \in Pages, k \in Keys : rec_trx[p][k] # NoTrx =>
           \/ locks[i].wait
           \/ ls[i].wait = locks[i].wait /\ (OnRec(locks[i], p, k) => OnRec(ls[i], p, k)),
         NEW who, locks' = Grant(ls, who),
         UNCHANGED <<rowVars, conc>>, TypeOK', CallConsistent'
  PROVE  LockInv'
<1> USE DEF LockInv
<1>1. locks \in Seq(Lock) BY DEF TypeOK
<1>2. NoOvertakingIn(ls) /\ OneBitIn(ls) BY <1>1, DropBitsOrder
<1>3. NoOvertakingIn(locks') /\ OneBitIn(locks') BY <1>2, GrantOrder
<1>4. WriterActive' /\ UndoConsistent' /\ Recs' = Recs BY RowsKept
<1>5. BitsPresentIn(locks)'
  <2>1. BitsWithin(locks, Recs) BY BitsPresentIs
  <2>2. BitsWithin(ls, Recs) BY <2>1 DEF BitsWithin
  <2>3. BitsWithin(Grant(ls, who), Recs) BY <2>2, GrantBits
  <2> QED BY <1>4, <2>3, BitsPresentIsNext
<1>6. ASSUME NEW p \in Pages, NEW k \in Keys, NEW o \in Trx, rec_trx[p][k] = o
      PROVE  Kept(locks, locks', o, p, k)
  <2>1. rec_trx[p][k] # NoTrx BY <1>6, ConstantsAssumption
  <2>2. Kept(locks, ls, o, p, k) BY <1>1, <2>1, DropKept
  <2>3. Kept(ls, Grant(ls, who), o, p, k) BY GrantKept
  <2> QED BY <2>2, <2>3 DEF Kept
<1>7. ImplicitOrExplicitIn(locks)'
  <2>1. rec_trx' = rec_trx /\ conc' = conc BY DEF rowVars
  <2> QED BY <1>6, <2>1, ImplicitKept
<1>8. NoOvertakingIn(locks)' /\ OneBitIn(locks)' BY <1>3 DEF NoOvertakingIn, OneBitIn
<1> QED BY <1>4, <1>5, <1>7, <1>8

\* Granting nobody changes nothing.
LEMMA GrantNobody ==
  ASSUME NEW ls \in Seq(Lock)
  PROVE  Grant(ls, {}) = ls
<1>1. Len(ls) \in Nat /\ DOMAIN ls = 1..Len(ls) BY SeqIsFcn
<1>2. Grantable(ls, {}) = {} BY DEF Grantable
<1>3. ls = [i \in 1..Len(ls) |-> ls[i]] BY <1>1
<1> QED BY <1>1, <1>2, <1>3 DEF Grant

\* The refused request: VictimIsStart and ExceedMaxDepth.
LEMMA RefuseActions ==
  ASSUME LockInv, NEW t \in Trx, VictimIsStart(t) \/ ExceedMaxDepth(t)
  PROVE  LockInv'
<1> DEFINE w == WaitLock(t)
<1>1. Refuse(t) /\ IsWaiting(locks, t)
  BY SearchedWait DEF VictimIsStart, ExceedMaxDepth
<1>2. w \in DOMAIN locks /\ locks[w].wait BY <1>1, WaitLockIs
<1>3. locks \in Seq(Lock) /\ locks[w] \in Lock BY <1>2, SeqIsFcn DEF LockInv, TypeOK
<1> HIDE DEF w
<1>4. CallConsistent' BY <1>1, NoCallType DEF Refuse, CallConsistent
<1>5. UNCHANGED <<rowVars, conc>> BY <1>1 DEF Refuse
<1>6. CASE locks[w].type = "TABLE"
  <2>1. locks' = Remove(locks, w) BY <1>1, <1>6 DEF Refuse, w
  <2>2. Remove(locks, w) \in Seq(Lock) BY <1>2, <1>3, RemoveType
  <2>3. locks' = Grant(Remove(locks, w), {}) BY <2>1, <2>2, GrantNobody
  <2>4. TypeOK' BY <1>1, <2>1, <2>2, NoCallType DEF Refuse, LockInv, TypeOK, rowVars
  <2> QED BY <1>2, <1>4, <1>5, <2>3, <2>4, DequeueStep
<1>7. CASE locks[w].type # "TABLE"
  <2> DEFINE ls == [locks EXCEPT ![w] = [@ EXCEPT !.wait = FALSE, !.bits = {}]]
  <2>1. locks' = ls BY <1>1, <1>7 DEF Refuse, w
  <2>2. /\ DOMAIN ls = DOMAIN locks /\ \A j \in DOMAIN locks : j # w => ls[j] = locks[j]
        /\ ls[w] = [locks[w] EXCEPT !.wait = FALSE, !.bits = {}]
    BY <1>2, <1>3
  <2>9. ls = [j \in DOMAIN locks |-> ls[j]] OBVIOUS
  <2> HIDE DEF ls
  <2>3. /\ ls[w] \in Lock
        /\ ls[w].trx = locks[w].trx /\ ls[w].type = locks[w].type /\ ls[w].on = locks[w].on
        /\ ls[w].mode = locks[w].mode /\ ls[w].gap = locks[w].gap /\ ls[w].ins = locks[w].ins
        /\ ls[w].bits = {} /\ ~ls[w].wait /\ locks[w].type = "REC"
    BY <1>3, <1>7, <2>2 DEF Lock
  <2>4. ls \in Seq(Lock)
    <3>1. \A j \in DOMAIN locks : ls[j] \in Lock BY <1>3, <2>2, <2>3, SeqIsFcn
    <3>2. Len(locks) \in Nat /\ DOMAIN locks = 1..Len(locks) BY <1>3, SeqIsFcn
    <3>3. ls \in [1..Len(locks) -> Lock] BY <2>9, <3>1, <3>2
    <3> QED BY <3>2, <3>3, SeqOfFcn
  <2>5. locks' = Grant(ls, {}) BY <2>1, <2>4, GrantNobody
  <2>6. TypeOK' BY <1>1, <2>1, <2>4, NoCallType DEF Refuse, LockInv, TypeOK, rowVars
  <2> QED BY <1>2, <1>4, <1>5, <2>2, <2>3, <2>4, <2>5, <2>6, DropStep
<1> QED BY <1>6, <1>7

\* rec_unlock takes the bit of a record without an implicit lock.
LEMMA UnlockAction ==
  ASSUME LockInv, NEW t \in Trx, NEW p \in Pages, NEW k \in Keys, NEW mode, rec_unlock(t, p, k, mode)
  PROVE  LockInv'
<1>0. locks \in Seq(Lock) BY DEF LockInv, TypeOK
<1>1. PICK i \in DOMAIN locks :
        /\ locks[i].on = p
        /\ LET ls == [locks EXCEPT ![i].bits = @ \ {k}]
               who == {j \in DOMAIN ls : OnRec(ls[j], p, k)}
           IN  locks' = Grant(ls, who) /\ que' = end_lock_wait(Granted(ls, who))
  BY DEF rec_unlock, OnRec
<1> DEFINE ls == [locks EXCEPT ![i].bits = @ \ {k}]
           who == {j \in DOMAIN ls : OnRec(ls[j], p, k)}
<1>2. locks' = Grant(ls, who) /\ que' = end_lock_wait(Granted(ls, who)) BY <1>1
<1>3. locks[i] \in Lock BY <1>0, SeqIsFcn
<1>4. /\ DOMAIN ls = DOMAIN locks /\ \A j \in DOMAIN locks : j # i => ls[j] = locks[j]
      /\ ls[i] = [locks[i] EXCEPT !.bits = @ \ {k}]
  BY <1>0, <1>3
<1>5. /\ ls[i] \in Lock
      /\ ls[i].trx = locks[i].trx /\ ls[i].type = locks[i].type /\ ls[i].on = locks[i].on
      /\ ls[i].mode = locks[i].mode /\ ls[i].gap = locks[i].gap /\ ls[i].ins = locks[i].ins
      /\ ls[i].bits = locks[i].bits \ {k} /\ ls[i].wait = locks[i].wait
  BY <1>3, <1>4 DEF Lock
<1>6. ls \in Seq(Lock)
  <2>1. \A j \in DOMAIN locks : ls[j] \in Lock BY <1>0, <1>4, <1>5, SeqIsFcn
  <2>2. Len(locks) \in Nat /\ DOMAIN locks = 1..Len(locks) BY <1>0, SeqIsFcn
  <2>3. ls \in [1..Len(locks) -> Lock] BY <2>1, <2>2
  <2> HIDE DEF ls
  <2> QED BY <2>2, <2>3, SeqOfFcn
<1> HIDE DEF ls, who
<1>7. TypeOK'
  <2>1. locks' \in Seq(Lock) BY <1>2, <1>6, GrantType
  <2>2. que' \in [Trx -> {"RUNNING", "LOCK_WAIT", "ROLLING_BACK"}] BY <1>2 DEF end_lock_wait, LockInv, TypeOK
  <2> QED BY <2>1, <2>2 DEF rec_unlock, LockInv, TypeOK, rowVars
<1>8. CallConsistent' BY NoCallType DEF rec_unlock, CallConsistent
<1>9. rec_trx[p][k] = NoTrx
  BY NoWriter DEF rec_unlock
<1>10. ASSUME NEW q \in Pages, NEW m \in Keys, rec_trx[q][m] # NoTrx, OnRec(locks[i], q, m)
       PROVE  OnRec(ls[i], q, m)
  <2>2. q # p \/ m # k BY <1>9, <1>10
  <2>3. CASE m # k BY <1>5, <1>10, <2>3 DEF OnRec
  <2>4. CASE m = k /\ q # p
    BY <1>1, <1>10, <2>4 DEF OnRec
  <2> QED BY <2>2, <2>3, <2>4
<1>11. UNCHANGED <<rowVars, conc>> BY DEF rec_unlock
<1> QED BY <1>2, <1>4, <1>5, <1>6, <1>7, <1>8, <1>10, <1>11, DropStep

-----------------------------------------------------------------------------
(* Row changes.                                                            *)

\* A set of naturals has a least element.
LEMMA NatMin ==
  ASSUME NEW T \in SUBSET Nat, T # {}
  PROVE  \E x \in T : \A y \in T : x <= y
<1>1. PICK x \in T : \A y \in T : ~(<<y, x>> \in OpToRel(<, Nat))
  BY NatLessThanWellFounded, WFMin
<1>2. \A y \in T : ~(y < x) BY <1>1 DEF OpToRel
<1> QED BY <1>2

\* The successor of a key is a record of the page above it, or the supremum.
LEMMA NextRecIs ==
  ASSUME NEW p, NEW k \in Keys
  PROVE  /\ NextRec(p, k) \in HeapNos
         /\ \/ NextRec(p, k) = PAGE_HEAP_NO_SUPREMUM
            \/ NextRec(p, k) \in Present(p) /\ NextRec(p, k) # k
<1> DEFINE above == {j \in Present(p) : j > k}
<1>1. Keys \subseteq HeapNos /\ PAGE_HEAP_NO_SUPREMUM \in HeapNos /\ Keys \subseteq Nat
  BY ConstantsAssumption DEF Keys, HeapNos, PAGE_HEAP_NO_SUPREMUM
<1>2. CASE above = {} BY <1>1, <1>2 DEF NextRec
<1>3. CASE above # {}
  <2>1. above \in SUBSET Nat BY <1>1 DEF Present
  <2>2. \E j \in above : \A i \in above : j <= i BY <1>3, <2>1, NatMin
  <2>3. NextRec(p, k) \in above BY <1>3, <2>2 DEF NextRec
  <2>4. NextRec(p, k) \in Present(p) /\ NextRec(p, k) > k BY <2>3
  <2>5. NextRec(p, k) \in Keys BY <2>4 DEF Present
  <2>6. NextRec(p, k) # k BY <1>1, <2>4, <2>5
  <2> QED BY <1>1, <2>4, <2>5, <2>6
<1> QED BY <1>2, <1>3

\* Heap numbers of user records.
LEMMA KeyIs ==
  ASSUME NEW k \in Keys
  PROVE  k \in HeapNos /\ k # PAGE_HEAP_NO_SUPREMUM
BY ConstantsAssumption DEF Keys, HeapNos, PAGE_HEAP_NO_SUPREMUM

\* update_delete: the record's gap locks move to its successor, and no lock of any
\* kind is left on it.
LEMMA DeleteStep ==
  ASSUME LockInv, NEW p \in Pages, NEW k \in Keys, update_delete(p, k),
         \A q \in Pages, m \in Keys : (q # p \/ m # k) /\ rec[q][m] # "absent" => rec'[q][m] # "absent"
  PROVE  /\ locks' \in Seq(Lock) /\ NoOvertakingIn(locks)' /\ OneBitIn(locks)'
         /\ que' \in [Trx -> {"RUNNING", "LOCK_WAIT", "ROLLING_BACK"}]
         /\ BitsPresentIn(locks)'
         /\ \A o \in Trx, q \in Pages, m \in Keys : (q # p \/ m # k) => Kept(locks, locks', o, q, m)
<1>1. PICK ls \in rec_inherit_to_gap(locks, p, NextRec(p, k), k) :
        locks' = rec_reset_and_release_wait(ls, p, k)
  BY DEF update_delete
<1>0. locks \in Seq(Lock) /\ NoOvertakingIn(locks) /\ OneBitIn(locks) BY DEF LockInv, TypeOK
<1>2. Inherited(locks, ls, p, NextRec(p, k))
  <2> DEFINE Q == {i \in DOMAIN locks : /\ OnRec(locks[i], p, k) /\ ~locks[i].ins
                                        /\ locks[i].trx \notin ReadCommitted /\ locks[i].mode = "X"}
  <2>1. /\ Q \in SUBSET DOMAIN locks
        /\ \A i \in Q : locks[i].type = "REC" /\ locks[i].on = p /\ locks[i].mode \in RecModes
    BY DEF RecModes, OnRec
  <2>2. ls \in InheritTo(locks, Q, p, NextRec(p, k)) BY DEF rec_inherit_to_gap
  <2>3. NextRec(p, k) \in HeapNos BY NextRecIs
  <2> HIDE DEF Q
  <2> QED BY <1>0, <2>1, <2>2, <2>3, InheritResult
<1>3. NextRec(p, k) \in HeapNos BY NextRecIs
<1>4. ls \in Seq(Lock) /\ NoOvertakingIn(ls) /\ OneBitIn(ls)
  <2>1. ls \in Seq(Lock) BY <1>2 DEF Inherited
  <2> QED BY <1>0, <1>2, <1>3, <2>1, InheritOrder
<1>5. locks' \in Seq(Lock) /\ NoOvertakingIn(locks') /\ OneBitIn(locks')
  BY <1>1, <1>4, KeyIs, ResetOrder
<1>6. que' \in [Trx -> {"RUNNING", "LOCK_WAIT", "ROLLING_BACK"}]
  BY DEF update_delete, end_lock_wait, LockInv, TypeOK
<1>7. BitsPresentIn(locks)'
  <2>1. BitsWithin(locks, Recs) BY BitsPresentIs DEF LockInv
  <2>2. NextRec(p, k) \in Recs[p] \cup {PAGE_HEAP_NO_SUPREMUM} BY NextRecIs DEF Recs
  <2>3. BitsWithin(ls, Recs) BY <1>0, <1>2, <1>3, <2>1, <2>2, InheritBits
  <2>4. Loses(Recs, Recs', p, k) BY DEF Loses, Recs, Present
  <2>5. BitsWithin(rec_reset_and_release_wait(ls, p, k), Recs')
    BY <1>4, <2>3, <2>4, KeyIs, ResetBits
  <2> QED BY <1>1, <2>5, BitsPresentIsNext
<1>8. ASSUME NEW o \in Trx, NEW q \in Pages, NEW m \in Keys, q # p \/ m # k
      PROVE  Kept(locks, locks', o, q, m)
  <2>1. Kept(locks, ls, o, q, m) BY <1>0, <1>2, <1>3, InheritKept
  <2>2. Kept(ls, locks', o, q, m) BY <1>1, <1>4, <1>8, KeyIs, ResetKept
  <2> QED BY <2>1, <2>2 DEF Kept
<1>9. NoOvertakingIn(locks)' /\ OneBitIn(locks)' BY <1>5 DEF NoOvertakingIn, OneBitIn
<1> QED BY <1>5, <1>6, <1>7, <1>8, <1>9

\* Purge.
LEMMA PurgeAction ==
  ASSUME LockInv, NEW p \in Pages, NEW k \in Keys, purge_remove(p, k)
  PROVE  LockInv'
<1> USE DEF LockInv
<1>1. /\ kernel' = kernel /\ kernel = NoCall /\ rec' = [rec EXCEPT ![p][k] = "absent"]
      /\ rec_trx' = rec_trx /\ undo' = undo /\ conc' = conc /\ update_delete(p, k)
  BY DEF purge_remove
<1>2. rec \in [Pages -> [Keys -> RecStates]] /\ rec_trx \in [Pages -> [Keys -> Trx \cup {NoTrx}]] BY DEF TypeOK
<1>3. /\ rec' \in [Pages -> [Keys -> RecStates]] /\ rec'[p][k] = "absent"
      /\ \A q \in Pages, m \in Keys : (q # p \/ m # k) => rec'[q][m] = rec[q][m]
  BY <1>1, <1>2 DEF RecStates
<1>4. /\ locks' \in Seq(Lock) /\ NoOvertakingIn(locks)' /\ OneBitIn(locks)'
      /\ que' \in [Trx -> {"RUNNING", "LOCK_WAIT", "ROLLING_BACK"}]
      /\ BitsPresentIn(locks)'
      /\ \A o \in Trx, q \in Pages, m \in Keys : (q # p \/ m # k) => Kept(locks, locks', o, q, m)
  BY <1>1, <1>3, DeleteStep
<1>5. rec_trx[p][k] = NoTrx
  BY NoWriter DEF purge_remove
<1>6. TypeOK' BY <1>3, <1>4 DEF TypeOK, purge_remove
<1>7. WriterActive' BY <1>1, <1>3, <1>5 DEF WriterActive
<1>8. UndoConsistent' BY <1>1 DEF UndoConsistent
<1>9. CallConsistent' BY <1>1, NoCallType DEF CallConsistent
<1>10. ImplicitOrExplicitIn(locks)'
  <2>1. \A q \in Pages, m \in Keys, o \in Trx : rec_trx[q][m] = o => q # p \/ m # k
    BY <1>5, ConstantsAssumption
  <2> QED BY <1>1, <1>4, <2>1, ImplicitKept
<1> QED BY <1>4, <1>6, <1>7, <1>8, <1>9, <1>10

\* commit_off_kernel: the implicit locks of the transaction end with it.
LEMMA CommitAction ==
  ASSUME LockInv, NEW t \in Trx, commit_off_kernel(t)
  PROVE  LockInv'
<1> USE DEF LockInv
<1>1. /\ conc' = [conc EXCEPT ![t] = "COMMITTED_IN_MEMORY"]
      /\ rec_trx' = [p \in Pages |-> [k \in Keys |-> IF rec_trx[p][k] = t THEN NoTrx ELSE rec_trx[p][k]]]
      /\ undo' = [undo EXCEPT ![t] = <<>>]
      /\ kernel' = Call("release", t, NoTable, 0, "absent", 0)
      /\ locks' = locks /\ rec' = rec
  BY DEF commit_off_kernel
<1>2. /\ rec_trx \in [Pages -> [Keys -> Trx \cup {NoTrx}]]
      /\ conc \in [Trx -> {"NOT_STARTED", "ACTIVE", "COMMITTED_IN_MEMORY"}]
      /\ undo \in [Trx -> Seq(UndoRec)]
  BY DEF TypeOK
<1>3. /\ rec_trx' \in [Pages -> [Keys -> Trx \cup {NoTrx}]]
      /\ \A p \in Pages, k \in Keys :
           rec_trx'[p][k] = IF rec_trx[p][k] = t THEN NoTrx ELSE rec_trx[p][k]
  BY <1>1, <1>2
<1>4. /\ conc' \in [Trx -> {"NOT_STARTED", "ACTIVE", "COMMITTED_IN_MEMORY"}]
      /\ conc'[t] = "COMMITTED_IN_MEMORY" /\ \A u \in Trx \ {t} : conc'[u] = conc[u]
  BY <1>1, <1>2
<1>5. undo' \in [Trx -> Seq(UndoRec)] /\ undo'[t] = <<>> /\ \A u \in Trx \ {t} : undo'[u] = undo[u]
  BY <1>1, <1>2
<1>6. TypeOK' BY <1>1, <1>3, <1>4, <1>5, NoCallType DEF TypeOK, commit_off_kernel
<1>7. NoOvertakingIn(locks)' /\ OneBitIn(locks)' BY <1>1 DEF NoOvertakingIn, OneBitIn
<1>8. BitsPresentIn(locks)' BY <1>1 DEF BitsPresentIn, Present
<1>9. WriterActive'
  BY <1>1, <1>3, <1>4, ConstantsAssumption DEF WriterActive
<1>10. UndoConsistent'
  <2> SUFFICES ASSUME NEW u \in Trx, NEW n \in DOMAIN undo'[u]
               PROVE  /\ rec_trx'[undo'[u][n].page][undo'[u][n].key] = u
                      /\ undo'[u][n].old_trx \in {u, NoTrx}
                      /\ undo'[u][n].old = "absent" => undo'[u][n].old_trx = NoTrx
                      /\ \A m \in 1..(n-1) :
                           (undo'[u][m].page = undo'[u][n].page /\ undo'[u][m].key = undo'[u][n].key)
                             => undo'[u][n].old_trx = u
    BY DEF UndoConsistent
  <2>1. u # t /\ undo'[u] = undo[u]
    <3>1. DOMAIN <<>> = {} OBVIOUS
    <3> QED BY <1>5, <3>1
  <2>2. undo[u][n] \in UndoRec BY <1>2, <2>1, SeqIsFcn
  <2>3. undo[u][n].page \in Pages /\ undo[u][n].key \in Keys BY <2>2 DEF UndoRec
  <2>4. rec_trx[undo[u][n].page][undo[u][n].key] = u BY <2>1 DEF UndoConsistent
  <2>5. rec_trx'[undo[u][n].page][undo[u][n].key] = u BY <1>3, <2>1, <2>3, <2>4
  <2> QED BY <2>1, <2>5 DEF UndoConsistent
<1>11. CallConsistent' BY <1>1, <1>4 DEF CallConsistent, Call
<1>12. ImplicitOrExplicitIn(locks)'
  <2>1. ASSUME NEW p \in Pages, NEW k \in Keys, NEW o \in Trx, rec_trx'[p][k] = o, conc'[o] = "ACTIVE"
        PROVE  rec_trx[p][k] = o /\ conc[o] = "ACTIVE" /\ Kept(locks, locks', o, p, k)
    BY <1>1, <1>3, <1>4, <2>1, ConstantsAssumption DEF Kept
  <2> QED BY <2>1, ImplicitKept
<1> QED BY <1>6, <1>7, <1>8, <1>9, <1>10, <1>11, <1>12

\* Undoing a row change gives back the version before it.
LEMMA RollbackAction ==
  ASSUME LockInv, NEW t \in Trx, RollbackRow(t)
  PROVE  LockInv'
<1> USE DEF LockInv
<1> DEFINE n == Len(undo[t])
           u == undo[t][n]
           p == u.page
           k == u.key
<1>0. undo[t] \in Seq(UndoRec) BY DEF TypeOK
<1>1. /\ undo[t] # <<>> /\ kernel = NoCall /\ kernel' = kernel
      /\ undo' = [undo EXCEPT ![t] = SubSeq(@, 1, Len(@) - 1)]
      /\ rec' = [rec EXCEPT ![p][k] = u.old]
      /\ rec_trx' = [rec_trx EXCEPT ![p][k] = u.old_trx]
      /\ (u.old = "absent" /\ update_delete(p, k)) \/ (u.old # "absent" /\ UNCHANGED <<locks, que>>)
      /\ conc' = conc /\ victim' = victim /\ err' = err
  BY DEF RollbackRow
<1>2. n \in Nat /\ n \in DOMAIN undo[t] /\ DOMAIN undo[t] = 1..n /\ \A m \in 1..n : undo[t][m] \in UndoRec
  <2>1. n \in Nat /\ DOMAIN undo[t] = 1..n /\ \A m \in DOMAIN undo[t] : undo[t][m] \in UndoRec
    BY <1>0, SeqIsFcn
  <2>2. n # 0 BY <1>0, <1>1, EmptySeq
  <2> QED BY <2>1, <2>2
<1>3. p \in Pages /\ k \in Keys /\ u.old \in RecStates /\ u.old_trx \in Trx \cup {NoTrx}
  BY <1>2 DEF UndoRec
<1>4. /\ rec_trx[p][k] = t /\ u.old_trx \in {t, NoTrx} /\ (u.old = "absent" => u.old_trx = NoTrx)
      /\ \A m \in 1..(n-1) : (undo[t][m].page = p /\ undo[t][m].key = k) => u.old_trx = t
  BY <1>2 DEF UndoConsistent
<1>5. conc[t] = "ACTIVE" BY <1>3, <1>4 DEF WriterActive
<1>6. /\ SubSeq(undo[t], 1, n - 1) \in Seq(UndoRec) /\ DOMAIN SubSeq(undo[t], 1, n - 1) = 1..(n-1)
      /\ \A m \in 1..(n-1) : SubSeq(undo[t], 1, n - 1)[m] = undo[t][m]
  <2>1. SubSeq(undo[t], 1, n - 1) = [m \in 1..(n-1) |-> undo[t][m]] BY <1>0, <1>2
  <2>2. n - 1 \in Nat /\ [m \in 1..(n-1) |-> undo[t][m]] \in [1..(n-1) -> UndoRec] BY <1>2
  <2> QED BY <2>1, <2>2, SeqOfFcn
<1> HIDE DEF n, u, p, k
<1>7. /\ undo' \in [Trx -> Seq(UndoRec)] /\ undo'[t] = SubSeq(undo[t], 1, n - 1)
      /\ \A s \in Trx : s # t => undo'[s] = undo[s]
  BY <1>1, <1>6 DEF TypeOK, n
<1>8. /\ rec' \in [Pages -> [Keys -> RecStates]] /\ rec'[p][k] = u.old
      /\ \A q \in Pages, m \in Keys : (q # p \/ m # k) => rec'[q][m] = rec[q][m]
  BY <1>1, <1>3 DEF TypeOK
<1>9. /\ rec_trx' \in [Pages -> [Keys -> Trx \cup {NoTrx}]] /\ rec_trx'[p][k] = u.old_trx
      /\ \A q \in Pages, m \in Keys : (q # p \/ m # k) => rec_trx'[q][m] = rec_trx[q][m]
  BY <1>1, <1>3 DEF TypeOK
<1>10. WriterActive' BY <1>1, <1>4, <1>5, <1>8, <1>9, ConstantsAssumption DEF WriterActive
<1>11. UndoConsistent'
  <2> SUFFICES ASSUME NEW s \in Trx, NEW a \in DOMAIN undo'[s]
               PROVE  /\ rec_trx'[undo'[s][a].page][undo'[s][a].key] = s
                      /\ undo'[s][a].old_trx \in {s, NoTrx}
                      /\ undo'[s][a].old = "absent" => undo'[s][a].old_trx = NoTrx
                      /\ \A m \in 1..(a-1) :
                           (undo'[s][m].page = undo'[s][a].page /\ undo'[s][m].key = undo'[s][a].key)
                             => undo'[s][a].old_trx = s
    BY DEF UndoConsistent
  <2>1. a \in DOMAIN undo[s] /\ undo'[s][a] = undo[s][a] /\ \A m \in 1..(a-1) : undo'[s][m] = undo[s][m]
    <3>1. CASE s # t BY <1>7, <3>1
    <3>2. CASE s = t BY <1>2, <1>6, <1>7, <3>2
    <3> QED BY <3>1, <3>2
  <2>2. undo[s] \in Seq(UndoRec) /\ undo[s][a] \in UndoRec BY <2>1, SeqIsFcn DEF TypeOK
  <2>3. undo[s][a].page \in Pages /\ undo[s][a].key \in Keys BY <2>2 DEF UndoRec
  <2>4. rec_trx[undo[s][a].page][undo[s][a].key] = s BY <2>1 DEF UndoConsistent
  <2>5. rec_trx'[undo[s][a].page][undo[s][a].key] = s
    <3>1. CASE undo[s][a].page # p \/ undo[s][a].key # k BY <1>9, <2>3, <2>4, <3>1
    <3>2. CASE undo[s][a].page = p /\ undo[s][a].key = k
      <4>1. s = t BY <1>4, <2>4, <3>2
      <4>2. a \in 1..(n-1) BY <1>6, <1>7, <4>1
      <4>3. u.old_trx = t BY <1>4, <3>2, <4>1, <4>2
      <4> QED BY <1>9, <3>2, <4>1, <4>3
    <3> QED BY <3>1, <3>2
  <2> QED BY <2>1, <2>5 DEF UndoConsistent
<1>12. CallConsistent' BY <1>1, NoCallType DEF CallConsistent
<1>13. CASE u.old = "absent" /\ update_delete(p, k)
  <2>1. /\ locks' \in Seq(Lock) /\ NoOvertakingIn(locks)' /\ OneBitIn(locks)'
        /\ que' \in [Trx -> {"RUNNING", "LOCK_WAIT", "ROLLING_BACK"}]
        /\ BitsPresentIn(locks)'
        /\ \A o \in Trx, q \in Pages, m \in Keys : (q # p \/ m # k) => Kept(locks, locks', o, q, m)
    BY <1>3, <1>8, <1>13, DeleteStep
  <2>2. TypeOK' BY <1>1, <1>7, <1>8, <1>9, <2>1 DEF TypeOK
  <2>3. ImplicitOrExplicitIn(locks)'
    <3>1. ASSUME NEW q \in Pages, NEW m \in Keys, NEW o \in Trx, rec_trx'[q][m] = o, conc'[o] = "ACTIVE"
          PROVE  rec_trx[q][m] = o /\ conc[o] = "ACTIVE" /\ Kept(locks, locks', o, q, m)
      <4>1. q # p \/ m # k BY <1>4, <1>9, <1>13, <3>1, ConstantsAssumption
      <4> QED BY <1>1, <1>9, <2>1, <3>1, <4>1
    <3> QED BY <3>1, ImplicitKept
  <2> QED BY <1>10, <1>11, <1>12, <2>1, <2>2, <2>3
<1>14. CASE u.old # "absent" /\ UNCHANGED <<locks, que>>
  <2>1. TypeOK' BY <1>1, <1>7, <1>8, <1>9, <1>14 DEF TypeOK
  <2>2. NoOvertakingIn(locks)' /\ OneBitIn(locks)' BY <1>14 DEF NoOvertakingIn, OneBitIn
  <2>3. BitsPresentIn(locks)' BY <1>8, <1>14 DEF BitsPresentIn, Present
  <2>4. ImplicitOrExplicitIn(locks)'
    <3>1. ASSUME NEW q \in Pages, NEW m \in Keys, NEW o \in Trx, rec_trx'[q][m] = o, conc'[o] = "ACTIVE"
          PROVE  rec_trx[q][m] = o /\ conc[o] = "ACTIVE" /\ Kept(locks, locks', o, q, m)
      <4>1. Kept(locks, locks', o, q, m) BY <1>14 DEF Kept
      <4>2. rec_trx[q][m] = o BY <1>3, <1>4, <1>9, <3>1, ConstantsAssumption
      <4> QED BY <1>1, <3>1, <4>1, <4>2
    <3> QED BY <3>1, ImplicitKept
  <2> QED BY <1>10, <1>11, <1>12, <2>1, <2>2, <2>3, <2>4
<1> QED BY <1>1, <1>13, <1>14

-----------------------------------------------------------------------------
(* Lock requests.                                                          *)

\* A step that changes the queues only.
LEMMA QueueStep ==
  ASSUME LockInv, NEW r, locks' = r, QueueOK(r), ImplicitOrExplicitIn(r), BitsWithin(r, Recs),
         UNCHANGED <<rowVars, conc>>, TypeOK', CallConsistent'
  PROVE  LockInv'
<1> USE DEF LockInv
<1>1. WriterActive' /\ UndoConsistent' /\ Recs' = Recs BY RowsKept
<1>2. BitsPresentIn(locks)' BY <1>1, BitsPresentIsNext
<1>3. NoOvertakingIn(locks)' /\ OneBitIn(locks)' BY DEF QueueOK, NoOvertakingIn, OneBitIn
<1>4. ImplicitOrExplicitIn(locks)'
  <2>1. rec_trx' = rec_trx /\ conc' = conc BY DEF rowVars
  <2> QED BY <2>1 DEF ImplicitOrExplicitIn, clust_rec_some_has_impl, HoldsX, OtherRequest, rec_has_expl
<1> QED BY <1>1, <1>2, <1>3, <1>4

\* A step that writes the record k of page p for t, which owns it from now on.
LEMMA WriteStep ==
  ASSUME LockInv, NEW r, locks' = r, QueueOK(r), ImplicitOrExplicitIn(r), BitsWithin(r, Recs'),
         NEW t \in Trx, NEW p \in Pages, NEW k \in Keys, NEW to \in RecStates \ {"absent"},
         HoldsX(r, t, p, k) \/ ~OtherRequest(r, t, p, k),
         conc[t] = "ACTIVE", rec_trx[p][k] \in {t, NoTrx},
         rec' = [rec EXCEPT ![p][k] = to],
         rec_trx' = [rec_trx EXCEPT ![p][k] = t],
         undo' = [undo EXCEPT ![t] =
           Append(@, [page |-> p, key |-> k, old |-> rec[p][k], old_trx |-> rec_trx[p][k]])],
         UNCHANGED trxVars, kernel' = NoCall
  PROVE  LockInv'
<1> USE DEF LockInv
<1> DEFINE u == [page |-> p, key |-> k, old |-> rec[p][k], old_trx |-> rec_trx[p][k]]
           n == Len(undo[t])
<1>1. conc' = conc /\ que' = que /\ victim' = victim /\ err' = err BY DEF trxVars
<1>2. u \in UndoRec /\ undo[t] \in Seq(UndoRec) BY DEF UndoRec, TypeOK
<1>3. /\ Append(undo[t], u) \in Seq(UndoRec) /\ n \in Nat /\ DOMAIN undo[t] = 1..n
      /\ DOMAIN Append(undo[t], u) = 1..(n+1) /\ Append(undo[t], u)[n+1] = u
      /\ \A m \in 1..n : Append(undo[t], u)[m] = undo[t][m]
  BY <1>2
<1>4. /\ u.page = p /\ u.key = k /\ u.old = rec[p][k] /\ u.old_trx = rec_trx[p][k]
  OBVIOUS
<1> HIDE DEF u, n
<1>5. /\ undo' \in [Trx -> Seq(UndoRec)] /\ undo'[t] = Append(undo[t], u)
      /\ \A s \in Trx : s # t => undo'[s] = undo[s]
  BY <1>3 DEF TypeOK, u
<1>6. /\ rec' \in [Pages -> [Keys -> RecStates]] /\ rec'[p][k] = to
      /\ \A q \in Pages, m \in Keys : (q # p \/ m # k) => rec'[q][m] = rec[q][m]
  BY DEF TypeOK
<1>7. /\ rec_trx' \in [Pages -> [Keys -> Trx \cup {NoTrx}]] /\ rec_trx'[p][k] = t
      /\ \A q \in Pages, m \in Keys : (q # p \/ m # k) => rec_trx'[q][m] = rec_trx[q][m]
  BY DEF TypeOK
<1>8. TypeOK' BY <1>1, <1>5, <1>6, <1>7, NoCallType DEF TypeOK, QueueOK
<1>9. WriterActive' BY <1>1, <1>6, <1>7 DEF WriterActive
<1>10. UndoConsistent'
  <2> SUFFICES ASSUME NEW s \in Trx, NEW a \in DOMAIN undo'[s]
               PROVE  /\ rec_trx'[undo'[s][a].page][undo'[s][a].key] = s
                      /\ undo'[s][a].old_trx \in {s, NoTrx}
                      /\ undo'[s][a].old = "absent" => undo'[s][a].old_trx = NoTrx
                      /\ \A m \in 1..(a-1) :
                           (undo'[s][m].page = undo'[s][a].page /\ undo'[s][m].key = undo'[s][a].key)
                             => undo'[s][a].old_trx = s
    BY DEF UndoConsistent
  <2>1. CASE s = t /\ a = n + 1
    <3>1. undo'[s][a] = u /\ \A m \in 1..(a-1) : undo'[s][m] = undo[t][m] BY <1>3, <1>5, <2>1
    <3>2. rec[p][k] = "absent" => rec_trx[p][k] = NoTrx BY DEF WriterActive
    <3>3. ASSUME NEW m \in 1..(a-1), undo[t][m].page = p, undo[t][m].key = k PROVE rec_trx[p][k] = t
      BY <1>3, <2>1, <3>3 DEF UndoConsistent
    <3> QED BY <1>4, <1>7, <2>1, <3>1, <3>2, <3>3
  <2>2. CASE ~(s = t /\ a = n + 1)
    <3>1. a \in DOMAIN undo[s] /\ undo'[s][a] = undo[s][a] /\ \A m \in 1..(a-1) : undo'[s][m] = undo[s][m]
      <4>1. CASE s # t BY <1>5, <4>1
      <4>2. CASE s = t BY <1>3, <1>5, <2>2, <4>2
      <4> QED BY <4>1, <4>2
    <3>2. undo[s] \in Seq(UndoRec) /\ undo[s][a] \in UndoRec BY <3>1, SeqIsFcn DEF TypeOK
    <3>3. undo[s][a].page \in Pages /\ undo[s][a].key \in Keys BY <3>2 DEF UndoRec
    <3>4. rec_trx[undo[s][a].page][undo[s][a].key] = s BY <3>1 DEF UndoConsistent
    <3>5. rec_trx'[undo[s][a].page][undo[s][a].key] = s
      BY <1>7, <3>3, <3>4, ConstantsAssumption
    <3> QED BY <3>1, <3>5 DEF UndoConsistent
  <2> QED BY <2>1, <2>2
<1>11. CallConsistent' BY NoCallType DEF CallConsistent
<1>12. NoOvertakingIn(locks)' /\ OneBitIn(locks)' BY DEF QueueOK, NoOvertakingIn, OneBitIn
<1>13. BitsPresentIn(locks)' BY BitsPresentIsNext
<1>14. ImplicitOrExplicitIn(locks)'
  <2>1. ASSUME NEW q \in Pages, NEW m \in Keys, NEW o \in Trx, rec_trx'[q][m] = o, conc'[o] = "ACTIVE"
        PROVE  HoldsX(locks', o, q, m) \/ ~OtherRequest(locks', o, q, m)
    <3>1. CASE q = p /\ m = k BY <1>7, <2>1, <3>1
    <3>2. CASE q # p \/ m # k
      <4>1. o \in clust_rec_some_has_impl(q, m) BY <1>1, <1>7, <2>1, <3>2, ImplicitOwner
      <4> QED BY <4>1 DEF ImplicitOrExplicitIn
    <3> QED BY <3>1, <3>2
  <2> QED BY <2>1, ImplicitKept
<1> QED BY <1>8, <1>9, <1>10, <1>11, <1>12, <1>13, <1>14

\* An exclusive lock on a record leaves no room for another granted one.
LEMMA XExcludes ==
  ASSUME NEW ls \in Seq(Lock), NoOvertakingIn(ls), NEW p \in Pages, NEW k \in Keys,
         NEW s, HoldsX(ls, s, p, k),
         NEW i \in DOMAIN ls, ls[i].trx # s, ~ls[i].wait, OnRec(ls[i], p, k), LocksRecord(ls[i], k)
  PROVE  FALSE
<1>1. PICK j \in DOMAIN ls : XLock(ls[j], s, p, k) BY HoldsXIs
<1>2. ~mode_compatible(ls[i].mode, "X") /\ ~mode_compatible("X", ls[i].mode)
  BY DEF mode_compatible, Lock_compatibility_matrix
<1>3. Clash(ls[i], ls[j]) /\ Clash(ls[j], ls[i]) BY <1>1, <1>2 DEF Clash, XLock
<1>4. i \in Nat /\ j \in Nat /\ i # j BY <1>1, SeqIsFcn DEF XLock
<1>5. i < j \/ j < i BY <1>4
<1> QED BY <1>1, <1>3, <1>5 DEF NoOvertakingIn, XLock

\* rec_convert_impl_to_expl: the writer of the record, if active, has an explicit
\* exclusive lock afterwards.
LEMMA Convert ==
  ASSUME LockInv, NEW p \in Pages, NEW k \in Keys
  PROVE  LET ls == rec_convert_impl_to_expl(locks, p, k)
         IN  /\ QueueOK(ls) /\ ImplicitOrExplicitIn(ls) /\ BitsWithin(ls, Recs)
             /\ \A o \in clust_rec_some_has_impl(p, k) : HoldsX(ls, o, p, k)
<1> DEFINE req == Request("X", "REC_NOT_GAP", FALSE)
           ls == rec_convert_impl_to_expl(locks, p, k)
<1>1. QueueOK(locks) /\ ImplicitOrExplicitIn(locks) /\ BitsWithin(locks, Recs)
  BY BitsPresentIs DEF LockInv, TypeOK, QueueOK
<1>2. \A o, q \in clust_rec_some_has_impl(p, k) : o = q BY DEF clust_rec_some_has_impl
<1>3. CASE \A o \in clust_rec_some_has_impl(p, k) : HoldsX(locks, o, p, k)
  <2>1. ls = locks BY <1>3 DEF rec_convert_impl_to_expl, HoldsX
  <2> QED BY <1>1, <1>3, <2>1
<1>4. ASSUME NEW o \in clust_rec_some_has_impl(p, k), ~HoldsX(locks, o, p, k)
      PROVE  /\ QueueOK(ls) /\ ImplicitOrExplicitIn(ls) /\ BitsWithin(ls, Recs)
             /\ \A q \in clust_rec_some_has_impl(p, k) : HoldsX(ls, q, p, k)
  <2>1. ls = rec_add_to_queue(locks, o, p, req, k)
    BY <1>2, <1>4 DEF rec_convert_impl_to_expl, HoldsX
  <2>2. o \in Trx /\ rec_trx[p][k] = o BY ImplicitOwner
  <2>3. req \in Requests /\ req.mode = "X" /\ req.gap = "REC_NOT_GAP" /\ req.ins = FALSE
    BY RequestType DEF Request
  <2> HIDE DEF req, ls
  <2>4. ~OtherRequest(locks, o, p, k) BY <1>1, <1>4 DEF ImplicitOrExplicitIn
  <2>5. Free(locks, o, p, req, k) BY <2>4 DEF Free, OtherRequest
  <2>6. QueueOK(ls) BY <1>1, <2>1, <2>2, <2>3, <2>5, KeyIs, AddOrder, AddToQueue DEF QueueOK
  <2>7. BitsWithin(ls, Recs)
    <3>1. rec[p][k] # "absent" BY <2>2, ConstantsAssumption DEF LockInv, WriterActive
    <3>2. k \in Recs[p] BY <3>1 DEF Recs, Present
    <3> QED BY <1>1, <2>1, <2>2, <2>3, <3>2, KeyIs, AddBits DEF QueueOK
  <2>8. HoldsX(ls, o, p, k) BY <1>1, <2>1, <2>2, <2>3, KeyIs, AddKept DEF QueueOK
  <2>9. ASSUME NEW q \in Pages, NEW m \in Keys, NEW w \in clust_rec_some_has_impl(q, m)
        PROVE  HoldsX(ls, w, q, m) \/ ~OtherRequest(ls, w, q, m)
    <3>1. /\ HoldsX(locks, w, q, m) => HoldsX(ls, w, q, m)
          /\ OtherRequest(ls, w, q, m) =>
               OtherRequest(locks, w, q, m) \/ (o # w /\ q = p /\ m = k)
      BY <1>1, <2>1, <2>2, <2>3, KeyIs, AddKept DEF QueueOK
    <3>2. HoldsX(locks, w, q, m) \/ ~OtherRequest(locks, w, q, m)
      BY <1>1 DEF ImplicitOrExplicitIn
    <3>3. (q = p /\ m = k) => w = o BY <1>2
    <3> QED BY <3>1, <3>2, <3>3
  <2> QED BY <1>2, <2>6, <2>7, <2>8, <2>9 DEF ImplicitOrExplicitIn
<1> QED BY <1>3, <1>4

\* A queue in which rec_lock may now look at record h of page p: the record is
\* there and, unless only the gap is asked for, its implicit lock is explicit.
Ready(ls, p, h, req) ==
  /\ QueueOK(ls) /\ ImplicitOrExplicitIn(ls) /\ BitsWithin(ls, Recs)
  /\ h \in HeapNos /\ h \in Recs[p] \cup {PAGE_HEAP_NO_SUPREMUM}
  /\ (h \in Keys /\ req.gap # "GAP") => \A o \in clust_rec_some_has_impl(p, h) : HoldsX(ls, o, p, h)

\* A queue after rec_lock has granted or enqueued a request on h.
LEMMA ImplicitAfter ==
  ASSUME NEW ls, NEW r, NEW t, NEW p \in Pages, NEW h, NEW req, Ready(ls, p, h, req),
         \A q \in Pages, m \in Keys, o \in Trx :
           /\ HoldsX(ls, o, q, m) => HoldsX(r, o, q, m)
           /\ OtherRequest(r, o, q, m) => OtherRequest(ls, o, q, m) \/ (q = p /\ m = h /\ req.gap # "GAP")
  PROVE  ImplicitOrExplicitIn(r)
<1> SUFFICES ASSUME NEW q \in Pages, NEW m \in Keys, NEW o \in clust_rec_some_has_impl(q, m)
             PROVE  HoldsX(r, o, q, m) \/ ~OtherRequest(r, o, q, m)
  BY DEF ImplicitOrExplicitIn
<1>1. o \in Trx BY ImplicitOwner
<1>2. HoldsX(ls, o, q, m) \/ ~OtherRequest(ls, o, q, m) BY DEF Ready, ImplicitOrExplicitIn
<1>3. (q = p /\ m = h /\ req.gap # "GAP") => HoldsX(ls, o, q, m) BY DEF Ready
<1> QED BY <1>1, <1>2, <1>3

\* A request that rec_other_has_conflicting lets pass clashes with nobody.
LEMMA NotConflictingIsFree ==
  ASSUME NEW ls \in Seq(Lock), NEW t, NEW p \in Pages, NEW req \in Requests, NEW h \in HeapNos,
         req.ins = FALSE, ~rec_other_has_conflicting(ls, p, req, h, t)
  PROVE  Free(ls, t, p, req, h)
<1> SUFFICES ASSUME req.gap # "GAP", h # PAGE_HEAP_NO_SUPREMUM, NEW i \in DOMAIN ls,
                    ls[i].trx # t, OnRec(ls[i], p, h), LocksRecord(ls[i], h),
                    ~mode_compatible(ls[i].mode, req.mode)
             PROVE  FALSE
  BY DEF Free
<1>1. ~mode_compatible(req.mode, ls[i].mode) BY CompatSym
<1>2. rec_blocks(ls[i], t, req, h) BY <1>1 DEF rec_blocks, LocksRecord
<1> QED BY <1>2 DEF rec_other_has_conflicting

\* What rec_lock leaves in the queue when it does not wait.
LEMMA RecLockGranted ==
  ASSUME NEW ls, NEW t \in Trx, NEW p \in Pages, NEW h, NEW req \in Requests,
         Ready(ls, p, h, req), req.ins = FALSE, NEW impl \in BOOLEAN, NEW r,
         \/ rec_lock_fast(ls, t, p, req, h) /\ r = RecLockFast(ls, impl, t, p, req, h)
         \/ ~RecLockWaits(ls, t, p, req, h) /\ r = RecLockSlow(ls, impl, t, p, req, h)
  PROVE  QueueOK(r) /\ ImplicitOrExplicitIn(r) /\ BitsWithin(r, Recs)
<1>0. /\ ls \in Seq(Lock) /\ NoOvertakingIn(ls) /\ OneBitIn(ls) /\ h \in HeapNos
      /\ ImplicitOrExplicitIn(ls) /\ BitsWithin(ls, Recs)
      /\ h \in Recs[p] \cup {PAGE_HEAP_NO_SUPREMUM}
  BY DEF Ready, QueueOK
<1>1. CASE r = ls BY <1>0, <1>1 DEF QueueOK
<1>2. CASE PageLocks(ls, p) = {} /\ r = Append(ls, NewRecLock(t, p, req, h, FALSE))
  <2> DEFINE l == NewRecLock(t, p, req, h, FALSE)
  <2>1. /\ l \in Lock /\ l.type = "REC" /\ l.on = p /\ l.bits = {h} /\ ~l.wait /\ l.mode \in RecModes
        /\ l.gap = StoredGap(req, h)
    BY <1>0, NewRecLockType DEF NewRecLock, Requests
  <2>2. r = Append(ls, l) BY <1>2
  <2> HIDE DEF l
  <2>3. \A i \in DOMAIN ls : ~Clash(ls[i], l) BY <1>2, <2>1 DEF PageLocks, Clash, OnRec
  <2>4. QueueOK(r) BY <1>0, <2>1, <2>2, <2>3, AppendGranted, AppendType DEF QueueOK
  <2>5. BitsWithin(r, Recs) BY <1>0, <2>1, <2>2, AppendBits
  <2>6. ASSUME NEW q \in Pages, NEW m \in Keys, NEW o \in Trx
        PROVE  /\ HoldsX(ls, o, q, m) => HoldsX(r, o, q, m)
               /\ OtherRequest(r, o, q, m) => OtherRequest(ls, o, q, m) \/ (q = p /\ m = h /\ req.gap # "GAP")
    <3>1. (OnRec(l, q, m) /\ LocksRecord(l, m)) => q = p /\ m = h /\ req.gap # "GAP"
      BY <2>1 DEF OnRec, LocksRecord, StoredGap
    <3> QED BY <1>0, <2>1, <2>2, <3>1, AppendKept
  <2> QED BY <2>4, <2>5, <2>6, ImplicitAfter
<1>3. ASSUME NEW i \in DOMAIN ls, PageLocks(ls, p) = {i}, SameRequest(ls[i], t, p, req, h),
             r = SetBit(ls, i, h)
      PROVE  QueueOK(r) /\ ImplicitOrExplicitIn(r) /\ BitsWithin(r, Recs)
  <2>1. Free(ls, t, p, req, h) BY <1>3 DEF Free, PageLocks, OnRec, SameRequest
  <2>2. QueueOK(r) BY <1>0, <1>3, <2>1, SetBitOrder, SetBitType DEF QueueOK
  <2>3. BitsWithin(r, Recs) BY <1>0, <1>3, SetBitBits DEF SameRequest
  <2>4. ASSUME NEW q \in Pages, NEW m \in Keys, NEW o \in Trx
        PROVE  /\ HoldsX(ls, o, q, m) => HoldsX(r, o, q, m)
               /\ OtherRequest(r, o, q, m) => OtherRequest(ls, o, q, m) \/ (q = p /\ m = h /\ req.gap # "GAP")
    BY <1>0, <1>3, SetBitKept
  <2> QED BY <2>2, <2>3, <2>4, ImplicitAfter
<1>4. CASE ~rec_other_has_conflicting(ls, p, req, h, t) /\ r = rec_add_to_queue(ls, t, p, req, h)
  <2>1. Free(ls, t, p, req, h) BY <1>0, <1>4, NotConflictingIsFree
  <2>2. QueueOK(r) BY <1>0, <1>4, <2>1, AddOrder, AddToQueue DEF QueueOK
  <2>3. BitsWithin(r, Recs) BY <1>0, <1>4, AddBits
  <2>4. ASSUME NEW q \in Pages, NEW m \in Keys, NEW o \in Trx
        PROVE  /\ HoldsX(ls, o, q, m) => HoldsX(r, o, q, m)
               /\ OtherRequest(r, o, q, m) => OtherRequest(ls, o, q, m) \/ (q = p /\ m = h /\ req.gap # "GAP")
    BY <1>0, <1>4, AddKept
  <2> QED BY <2>2, <2>3, <2>4, ImplicitAfter
<1>5. CASE rec_lock_fast(ls, t, p, req, h) /\ r = RecLockFast(ls, impl, t, p, req, h)
  <2>1. CASE impl BY <1>1, <1>5, <2>1 DEF RecLockFast
  <2>2. CASE ~impl /\ PageLocks(ls, p) = {} BY <1>2, <1>5, <2>2 DEF RecLockFast, rec_create_low
  <2>3. CASE ~impl /\ PageLocks(ls, p) # {}
    <3>1. PICK i \in DOMAIN ls : PageLocks(ls, p) = {i} /\ ls[i].trx = t /\ ls[i].mode = req.mode
                          /\ ls[i].gap = req.gap /\ ls[i].ins = req.ins /\ ~ls[i].wait
      BY <1>5, <2>3 DEF rec_lock_fast
    <3>2. SameRequest(ls[i], t, p, req, h) BY <3>1 DEF SameRequest, PageLocks
    <3>3. (CHOOSE j \in DOMAIN ls : j \in PageLocks(ls, p)) = i BY <3>1
    <3>4. r = SetBit(ls, i, h) BY <1>5, <2>3, <3>3 DEF RecLockFast
    <3> QED BY <1>3, <3>1, <3>2, <3>4
  <2> QED BY <2>1, <2>2, <2>3
<1>6. CASE ~RecLockWaits(ls, t, p, req, h) /\ r = RecLockSlow(ls, impl, t, p, req, h)
  <2>1. CASE impl \/ rec_has_expl(ls, p, req, h, t) BY <1>1, <1>6, <2>1 DEF RecLockSlow
  <2>2. CASE ~(impl \/ rec_has_expl(ls, p, req, h, t))
    BY <1>4, <1>6, <2>2 DEF RecLockSlow, RecLockWaits
  <2> QED BY <2>1, <2>2
<1> QED BY <1>5, <1>6

\* A modification that rec_lock lets pass, or whose wait is over: the record has
\* no other active writer, and t's new implicit lock is exclusive.
LEMMA ModifyGranted ==
  ASSUME LockInv, NEW ls, NEW t \in Trx, NEW p \in Pages, NEW k \in Keys, QueueOK(ls),
         ImplicitOrExplicitIn(ls),
         HoldsX(ls, t, p, k) \/ ~OtherRequest(ls, t, p, k),
         \A o \in clust_rec_some_has_impl(p, k) : o # t => HoldsX(ls, o, p, k)
  PROVE  rec_trx[p][k] \in {t, NoTrx}
<1> SUFFICES ASSUME rec_trx[p][k] \notin {t, NoTrx} PROVE FALSE OBVIOUS
<1> DEFINE o == rec_trx[p][k]
<1>1. o \in Trx /\ o # t /\ conc[o] = "ACTIVE"
  <2>1. o \in Trx \cup {NoTrx} BY DEF LockInv, TypeOK
  <2> QED BY <2>1 DEF LockInv, WriterActive
<1>2. HoldsX(ls, o, p, k) BY <1>1, ImplicitOwner
<1>3. ls \in Seq(Lock) /\ NoOvertakingIn(ls) BY DEF QueueOK
<1>4. PICK j \in DOMAIN ls : XLock(ls[j], o, p, k) BY <1>2, <1>3, HoldsXIs
<1>5. OtherRequest(ls, t, p, k) BY <1>1, <1>4 DEF OtherRequest, XLock
<1>6. HoldsX(ls, t, p, k) BY <1>5
<1>7. /\ ls[j].trx # t /\ ~ls[j].wait /\ OnRec(ls[j], p, k) /\ LocksRecord(ls[j], k)
  BY <1>1, <1>4 DEF XLock
<1> QED BY <1>3, <1>6, <1>7, XExcludes

\* rec_lock of X | REC_NOT_GAP with the implicit flag: it passes only if t has the
\* lock already or nobody else asks for the record.
LEMMA ModifyPasses ==
  ASSUME NEW ls, NEW t \in Trx, NEW p \in Pages, NEW k \in Keys, QueueOK(ls),
         LET req == Request("X", "REC_NOT_GAP", FALSE)
         IN  rec_lock_fast(ls, t, p, req, k) \/ ~RecLockWaits(ls, t, p, req, k)
  PROVE  HoldsX(ls, t, p, k) \/ ~OtherRequest(ls, t, p, k)
<1> DEFINE req == Request("X", "REC_NOT_GAP", FALSE)
<1>0. req.mode = "X" /\ req.gap = "REC_NOT_GAP" /\ req.ins = FALSE /\ ls \in Seq(Lock)
  BY DEF Request, QueueOK
<1>1. CASE rec_lock_fast(ls, t, p, req, k)
  <2>1. \A i \in DOMAIN ls : OnRec(ls[i], p, k) => i \in PageLocks(ls, p) BY DEF OnRec, PageLocks
  <2>2. \A i \in PageLocks(ls, p) : ls[i].trx = t BY <1>1 DEF rec_lock_fast
  <2> QED BY <2>1, <2>2 DEF OtherRequest
<1>2. CASE rec_has_expl(ls, p, req, k, t) BY <1>2 DEF HoldsX
<1>3. CASE ~rec_other_has_conflicting(ls, p, req, k, t)
  <2> SUFFICES ASSUME NEW i \in DOMAIN ls, ls[i].trx # t, OnRec(ls[i], p, k), LocksRecord(ls[i], k)
               PROVE  FALSE
    BY DEF OtherRequest
  <2>1. ~mode_compatible(req.mode, ls[i].mode) BY <1>0 DEF mode_compatible, Lock_compatibility_matrix
  <2> HIDE DEF req
  <2>2. rec_blocks(ls[i], t, req, k) BY <1>0, <2>1, KeyIs DEF rec_blocks, LocksRecord
  <2> QED BY <1>3, <2>2 DEF rec_other_has_conflicting
<1> QED BY <1>1, <1>2, <1>3 DEF RecLockWaits

\* rec_enqueue_waiting.
LEMMA EnqueueStep ==
  ASSUME LockInv, NEW ls, NEW t \in Trx, NEW p \in Pages, NEW h, NEW req \in Requests,
         Ready(ls, p, h, req), NEW call \in Calls,
         rec_enqueue_waiting(ls, t, p, req, h, call), CallConsistent'
  PROVE  LockInv'
<1> DEFINE l == NewRecLock(t, p, req, h, TRUE)
<1>0. /\ ls \in Seq(Lock) /\ NoOvertakingIn(ls) /\ OneBitIn(ls) /\ h \in HeapNos
      /\ ImplicitOrExplicitIn(ls) /\ BitsWithin(ls, Recs)
      /\ h \in Recs[p] \cup {PAGE_HEAP_NO_SUPREMUM}
  BY DEF Ready, QueueOK
<1>1. /\ l \in Lock /\ l.type = "REC" /\ l.on = p /\ l.bits = {h} /\ l.wait /\ l.mode \in RecModes
      /\ l.gap = StoredGap(req, h)
  BY <1>0, NewRecLockType DEF NewRecLock, Requests
<1>2. /\ locks' = Append(ls, l) /\ kernel' = call /\ UNCHANGED rowVars
      /\ conc' = conc /\ que' = que /\ victim' = victim /\ err' = err
  BY DEF rec_enqueue_waiting, rec_create_low, trxVars
<1> HIDE DEF l
<1> DEFINE r == Append(ls, l)
<1>3. QueueOK(r) BY <1>0, <1>1, AppendWaiting, AppendType DEF QueueOK
<1>4. BitsWithin(r, Recs) BY <1>0, <1>1, AppendBits
<1>5. ASSUME NEW q \in Pages, NEW m \in Keys, NEW o \in Trx
      PROVE  /\ HoldsX(ls, o, q, m) => HoldsX(r, o, q, m)
             /\ OtherRequest(r, o, q, m) => OtherRequest(ls, o, q, m) \/ (q = p /\ m = h /\ req.gap # "GAP")
  <2>1. (OnRec(l, q, m) /\ LocksRecord(l, m)) => q = p /\ m = h /\ req.gap # "GAP"
    BY <1>1 DEF OnRec, LocksRecord, StoredGap
  <2> QED BY <1>0, <1>1, <2>1, AppendKept
<1> HIDE DEF r
<1>6. ImplicitOrExplicitIn(r) BY <1>5, ImplicitAfter
<1>7. TypeOK' BY <1>2, <1>3 DEF LockInv, TypeOK, rowVars, QueueOK, r
<1> QED BY <1>2, <1>3, <1>4, <1>6, <1>7, QueueStep DEF r

\* lock_table.
LEMMA TableAction ==
  ASSUME LockInv, NEW t \in Trx, NEW tab \in Tables, NEW mode \in TableModes, lock_table(t, tab, mode)
  PROVE  LockInv'
<1> DEFINE lk(w) == [trx |-> t, type |-> "TABLE", on |-> tab, mode |-> mode, gap |-> "ORDINARY",
                     ins |-> FALSE, wait |-> w, bits |-> {}]
<1>0. QueueOK(locks) /\ ImplicitOrExplicitIn(locks) /\ BitsWithin(locks, Recs)
  BY BitsPresentIs DEF LockInv, TypeOK, QueueOK
<1>1. PICK w \in BOOLEAN :
        /\ locks' = Append(locks, lk(w))
        /\ w \/ ~table_other_has_incompatible(locks, t, tab, mode)
        /\ kernel' = Call("lock", t, NoTable, 0, "absent", 0) \/ kernel' = kernel
  BY DEF lock_table, table_create
<1>2. UNCHANGED rowVars /\ conc' = conc /\ que' = que /\ victim' = victim /\ err' = err /\ kernel = NoCall
  BY DEF lock_table, trxVars, CanRequest
<1> DEFINE l == lk(w)
<1>3. /\ l \in Lock /\ l.type = "TABLE" /\ l.bits = {} /\ l.wait = w /\ l.trx = t /\ l.on = tab /\ l.mode = mode
  BY <1>1 DEF Lock, GapModes
<1> DEFINE r == Append(locks, l)
<1>4. locks' = r BY <1>1
<1> HIDE DEF l
<1>5. QueueOK(r)
  <2>0. locks \in Seq(Lock) /\ NoOvertakingIn(locks) /\ OneBitIn(locks) BY <1>0 DEF QueueOK
  <2>1. CASE w
    <3>1. 0 \in HeapNos /\ l.bits \subseteq {0} BY <1>3, ConstantsAssumption DEF HeapNos
    <3> QED BY <1>3, <2>0, <2>1, <3>1, AppendWaiting, AppendType DEF QueueOK
  <2>2. CASE ~w
    <3>1. \A i \in DOMAIN locks : ~Clash(locks[i], l)
      <4> SUFFICES ASSUME NEW i \in DOMAIN locks, Clash(locks[i], l) PROVE FALSE OBVIOUS
      <4>1. locks[i].type = "TABLE" /\ locks[i].on = tab /\ locks[i].trx # t
            /\ ~mode_compatible(locks[i].mode, mode)
        BY <1>3 DEF Clash, OnRec
      <4> QED BY <1>1, <2>2, <4>1 DEF table_other_has_incompatible
    <3> QED BY <1>3, <2>0, <2>2, <3>1, AppendGranted, AppendType DEF QueueOK
  <2> QED BY <1>1, <2>1, <2>2
<1>6. BitsWithin(r, Recs) BY <1>0, <1>3, AppendBits DEF QueueOK
<1>7. ASSUME NEW q \in Pages, NEW m \in Keys, NEW o \in clust_rec_some_has_impl(q, m)
      PROVE  HoldsX(r, o, q, m) \/ ~OtherRequest(r, o, q, m)
  <2>1. ~OnRec(l, q, m) BY <1>3 DEF OnRec
  <2>2. /\ HoldsX(locks, o, q, m) => HoldsX(r, o, q, m)
        /\ OtherRequest(r, o, q, m) => OtherRequest(locks, o, q, m)
    BY <1>0, <1>3, <2>1, AppendKept DEF QueueOK
  <2> QED BY <1>0, <2>2 DEF ImplicitOrExplicitIn
<1> HIDE DEF r
<1>8. ImplicitOrExplicitIn(r) BY <1>7 DEF ImplicitOrExplicitIn
<1>9. kernel' \in Calls /\ kernel'.op \in {"none", "lock"}
  <2>1. CASE kernel' = Call("lock", t, NoTable, 0, "absent", 0)
    BY <2>1, ConstantsAssumption DEF Call, Calls, HeapNos, RecStates
  <2>2. CASE kernel' = kernel BY <1>2, <2>2, NoCallType
  <2> QED BY <1>1, <2>1, <2>2
<1>10. TypeOK' BY <1>2, <1>4, <1>5, <1>9 DEF LockInv, TypeOK, rowVars, QueueOK
<1>11. CallConsistent' BY <1>9 DEF CallConsistent
<1> QED BY <1>2, <1>4, <1>5, <1>6, <1>8, <1>10, <1>11, QueueStep

\* The call that a request leaves with the kernel mutex.
LEMMA CallType ==
  ASSUME NEW t \in Trx, NEW p \in Pages, NEW h \in HeapNos, NEW k \in Keys, NEW to \in RecStates
  PROVE  /\ Call("lock", t, p, h, "absent", 0) \in Calls
         /\ Call("modify", t, p, k, to, 0) \in Calls
         /\ Call("insert", t, p, k, to, 0) \in Calls
BY DEF Call, Calls, RecStates

\* Locking reads.
LEMMA ReadAction ==
  ASSUME LockInv, NEW t \in Trx, NEW p \in Pages, NEW h \in HeapNos \ {PAGE_HEAP_NO_INFIMUM},
         NEW mode \in RecModes, NEW gap \in GapModes, clust_rec_read_check_and_lock(t, p, h, mode, gap)
  PROVE  LockInv'
<1> DEFINE req == Request(mode, gap, FALSE)
           ls == IF h = PAGE_HEAP_NO_SUPREMUM THEN locks ELSE rec_convert_impl_to_expl(locks, p, h)
           call == Call("lock", t, p, h, "absent", 0)
<1>1. req \in Requests /\ req.ins = FALSE BY RequestType DEF Request
<1>2. h = PAGE_HEAP_NO_SUPREMUM \/ (h \in Present(p) /\ h \in Keys)
  BY DEF clust_rec_read_check_and_lock, Present
<1>3. Ready(ls, p, h, req)
  <2>1. CASE h = PAGE_HEAP_NO_SUPREMUM
    <3>1. QueueOK(locks) /\ ImplicitOrExplicitIn(locks) /\ BitsWithin(locks, Recs)
      BY BitsPresentIs DEF LockInv, TypeOK, QueueOK
    <3>2. h \notin Keys BY <2>1, KeyIs
    <3> QED BY <2>1, <3>1, <3>2 DEF Ready
  <2>2. CASE h \in Present(p) /\ h \in Keys
    <3>1. ls = rec_convert_impl_to_expl(locks, p, h) BY <2>2, KeyIs
    <3> HIDE DEF ls
    <3>2. h \in Recs[p] BY <2>2 DEF Recs
    <3> QED BY <2>2, <3>1, <3>2, Convert DEF Ready
  <2> QED BY <1>2, <2>1, <2>2
<1>4. rec_lock(ls, FALSE, t, p, req, h, call) /\ kernel = NoCall
  BY DEF clust_rec_read_check_and_lock, CanRequest
<1>5. call \in Calls /\ call.op = "lock" BY CallType, NoCallType DEF Call, Calls, RecStates
<1> HIDE DEF req, ls, call
<1>6. ASSUME NEW r, Succeed(r, call.op, t, p, h, call.to), UNCHANGED <<trxVars, kernel>>,
             \/ rec_lock_fast(ls, t, p, req, h) /\ r = RecLockFast(ls, FALSE, t, p, req, h)
             \/ ~RecLockWaits(ls, t, p, req, h) /\ r = RecLockSlow(ls, FALSE, t, p, req, h)
      PROVE  LockInv'
  <2>1. QueueOK(r) /\ ImplicitOrExplicitIn(r) /\ BitsWithin(r, Recs) BY <1>1, <1>3, <1>6, RecLockGranted
  <2>2. locks' = r /\ UNCHANGED rowVars BY <1>5, <1>6 DEF Succeed
  <2>3. TypeOK' BY <1>6, <2>1, <2>2 DEF LockInv, TypeOK, rowVars, trxVars, QueueOK
  <2>4. CallConsistent' BY <1>4, <1>6, NoCallType DEF CallConsistent
  <2> QED BY <1>6, <2>1, <2>2, <2>3, <2>4, QueueStep DEF trxVars
<1>7. CASE rec_enqueue_waiting(ls, t, p, req, h, call)
  <2>1. kernel' = call BY <1>7 DEF rec_enqueue_waiting
  <2>2. CallConsistent' BY <1>5, <2>1 DEF CallConsistent
  <2> QED BY <1>1, <1>3, <1>5, <1>7, <2>2, EnqueueStep
<1> QED BY <1>4, <1>6, <1>7 DEF rec_lock

\* Modifications.
LEMMA ModifyAction ==
  ASSUME LockInv, NEW t \in Trx, NEW p \in Pages, NEW k \in Keys, NEW to \in {"live", "marked"},
         clust_rec_modify_check_and_lock(t, p, k, to)
  PROVE  LockInv'
<1> DEFINE req == Request("X", "REC_NOT_GAP", FALSE)
           ls == rec_convert_impl_to_expl(locks, p, k)
           call == Call("modify", t, p, k, to, 0)
<1>1. /\ req \in Requests /\ req.ins = FALSE /\ req.mode = "X" /\ req.gap = "REC_NOT_GAP"
  BY RequestType DEF Request
<1>2. /\ rec_lock(ls, TRUE, t, p, req, k, call) /\ kernel = NoCall /\ conc[t] = "ACTIVE"
      /\ k \in Present(p)
  BY DEF clust_rec_modify_check_and_lock, CanRequest
<1>3. /\ call \in Calls /\ call.op = "modify" /\ call.trx = t /\ call.page = p /\ call.key = k /\ call.to = to
  BY CallType, KeyIs DEF Call, RecStates
<1>4. k \in HeapNos /\ k # PAGE_HEAP_NO_SUPREMUM BY KeyIs
<1>5. Ready(ls, p, k, req)
  <2>1. k \in Recs[p] BY <1>2 DEF Recs
  <2> HIDE DEF ls
  <2> QED BY <1>4, <2>1, Convert DEF Ready, ls
<1>6. to \in RecStates \ {"absent"} BY DEF RecStates
<1>7. ASSUME NEW r, Succeed(r, call.op, t, p, k, call.to), UNCHANGED <<trxVars, kernel>>,
             \/ rec_lock_fast(ls, t, p, req, k) /\ r = RecLockFast(ls, TRUE, t, p, req, k)
             \/ ~RecLockWaits(ls, t, p, req, k) /\ r = RecLockSlow(ls, TRUE, t, p, req, k)
      PROVE  LockInv'
  <2>1. r = ls BY <1>7 DEF RecLockFast, RecLockSlow
  <2> HIDE DEF ls
  <2>2. QueueOK(ls) /\ ImplicitOrExplicitIn(ls) /\ BitsWithin(ls, Recs)
    BY <1>5 DEF Ready
  <2>3. HoldsX(ls, t, p, k) \/ ~OtherRequest(ls, t, p, k) BY <1>7, <2>2, ModifyPasses
  <2>8. \A o \in clust_rec_some_has_impl(p, k) : HoldsX(ls, o, p, k) BY <1>1, <1>5 DEF Ready
  <2>4. rec_trx[p][k] \in {t, NoTrx} BY <2>2, <2>3, <2>8, ModifyGranted
  <2>5. /\ locks' = ls
        /\ rec' = [rec EXCEPT ![p][k] = to]
        /\ rec_trx' = [rec_trx EXCEPT ![p][k] = t]
        /\ undo' = [undo EXCEPT ![t] =
             Append(@, [page |-> p, key |-> k, old |-> rec[p][k], old_trx |-> rec_trx[p][k]])]
    BY <1>3, <1>7, <2>1 DEF Succeed
  <2>6. BitsWithin(ls, Recs')
    <3>1. \A q \in Pages : Recs[q] \subseteq Recs'[q]
      BY <1>6, <2>5 DEF Recs, Present, LockInv, TypeOK
    <3> QED BY <2>2, <3>1 DEF BitsWithin
  <2>7. UNCHANGED trxVars /\ kernel' = NoCall BY <1>2, <1>7
  <2> QED BY <1>2, <1>6, <2>2, <2>3, <2>4, <2>5, <2>6, <2>7, WriteStep
<1>8. CASE rec_enqueue_waiting(ls, t, p, req, k, call)
  <2> HIDE DEF ls, call, req
  <2> DEFINE l == NewRecLock(t, p, req, k, TRUE)
  <2>1. kernel' = call /\ locks' = Append(ls, l) /\ conc' = conc
    BY <1>8 DEF rec_enqueue_waiting, rec_create_low, trxVars
  <2>2. /\ l \in Lock /\ l.type = "REC" /\ l.on = p /\ l.bits = {k} /\ l.trx = t
        /\ l.mode = "X" /\ l.gap = "REC_NOT_GAP" /\ l.ins = FALSE
    BY <1>1, <1>4, NewRecLockType DEF NewRecLock, StoredGap
  <2> HIDE DEF l
  <2>3. ls \in Seq(Lock) BY <1>5 DEF Ready, QueueOK
  <2>4. Len(ls) + 1 \in DOMAIN locks' /\ locks'[Len(ls) + 1] = l BY <2>1, <2>2, <2>3, AppendType
  <2>5. CallConsistent' BY <1>2, <1>3, <1>6, <2>1, <2>2, <2>4 DEF CallConsistent, OnRec
  <2> QED BY <1>1, <1>3, <1>5, <1>8, <2>5, EnqueueStep
<1> QED BY <1>2, <1>7, <1>8 DEF rec_lock

\* The insert itself, with the inheritance of the successor's gap locks.
LEMMA InsertStep ==
  ASSUME LockInv, NEW t \in Trx, NEW p \in Pages, NEW k \in Keys, NEW to \in RecStates \ {"absent"},
         conc[t] = "ACTIVE", rec[p][k] = "absent", Succeed(locks, "insert", t, p, k, to),
         UNCHANGED trxVars, kernel' = NoCall
  PROVE  LockInv'
<1>1. /\ locks' \in rec_inherit_to_gap_if_gap_lock(locks, p, k, NextRec(p, k))
      /\ rec' = [rec EXCEPT ![p][k] = to]
      /\ rec_trx' = [rec_trx EXCEPT ![p][k] = t]
      /\ undo' = [undo EXCEPT ![t] =
           Append(@, [page |-> p, key |-> k, old |-> rec[p][k], old_trx |-> rec_trx[p][k]])]
  BY DEF Succeed
<1>2. /\ locks \in Seq(Lock) /\ NoOvertakingIn(locks) /\ OneBitIn(locks) /\ BitsWithin(locks, Recs)
      /\ ImplicitOrExplicitIn(locks)
  BY BitsPresentIs DEF LockInv, TypeOK
<1>3. Inherited(locks, locks', p, k)
  <2> DEFINE Q == {i \in DOMAIN locks : /\ OnRec(locks[i], p, NextRec(p, k)) /\ ~locks[i].ins
                                        /\ \/ NextRec(p, k) = PAGE_HEAP_NO_SUPREMUM
                                           \/ locks[i].gap # "REC_NOT_GAP"}
  <2>1. /\ Q \in SUBSET DOMAIN locks
        /\ \A i \in Q : locks[i].type = "REC" /\ locks[i].on = p /\ locks[i].mode \in RecModes
    BY <1>2 DEF BitsWithin, OnRec
  <2>2. locks' \in InheritTo(locks, Q, p, k) BY <1>1 DEF rec_inherit_to_gap_if_gap_lock
  <2> HIDE DEF Q
  <2> QED BY <1>2, <2>1, <2>2, KeyIs, InheritResult
<1>4. QueueOK(locks')
  <2>1. locks' \in Seq(Lock) BY <1>3 DEF Inherited
  <2> QED BY <1>2, <1>3, <2>1, KeyIs, InheritOrder DEF QueueOK
<1>5. BitsWithin(locks', Recs')
  <2>1. (\A q \in Pages : Recs[q] \subseteq Recs'[q]) /\ k \in Recs'[p]
    BY <1>1 DEF Recs, Present, LockInv, TypeOK
  <2>2. BitsWithin(locks, Recs') BY <1>2, <2>1 DEF BitsWithin
  <2> QED BY <1>2, <1>3, <2>1, <2>2, KeyIs, InheritBits
<1>6. \A q \in Pages, m \in Keys, o \in Trx : Kept(locks, locks', o, q, m)
  BY <1>2, <1>3, KeyIs, InheritKept
<1>7. ImplicitOrExplicitIn(locks')
  <2> SUFFICES ASSUME NEW q \in Pages, NEW m \in Keys, NEW o \in clust_rec_some_has_impl(q, m)
               PROVE  HoldsX(locks', o, q, m) \/ ~OtherRequest(locks', o, q, m)
    BY DEF ImplicitOrExplicitIn
  <2>1. o \in Trx BY ImplicitOwner
  <2> QED BY <1>2, <1>6, <2>1 DEF ImplicitOrExplicitIn, Kept
<1>8. ~OtherRequest(locks', t, p, k)
  <2>1. k \notin Recs[p] \cup {PAGE_HEAP_NO_SUPREMUM} BY KeyIs DEF Recs, Present
  <2>2. ~OtherRequest(locks, t, p, k) BY <1>2, <2>1 DEF OtherRequest, OnRec, BitsWithin
  <2> QED BY <1>6, <2>2 DEF Kept
<1>9. rec_trx[p][k] \in {t, NoTrx} BY DEF LockInv, WriterActive
<1> QED BY <1>1, <1>4, <1>5, <1>7, <1>8, <1>9, WriteStep

\* Inserts.
LEMMA InsertAction ==
  ASSUME LockInv, NEW t \in Trx, NEW p \in Pages, NEW k \in Keys, rec_insert_check_and_lock(t, p, k)
  PROVE  LockInv'
<1> DEFINE req == Request("X", "GAP", TRUE)
           next == NextRec(p, k)
           call == Call("insert", t, p, k, "live", 0)
<1>1. req \in Requests BY RequestType
<1>2. kernel = NoCall /\ conc[t] = "ACTIVE" /\ rec[p][k] = "absent"
  BY DEF rec_insert_check_and_lock, CanRequest
<1>3. "live" \in RecStates \ {"absent"} BY DEF RecStates
<1>4. CASE /\ Succeed(locks, "insert", t, p, k, "live") /\ UNCHANGED <<trxVars, kernel>>
  BY <1>2, <1>3, <1>4, InsertStep
<1>5. CASE rec_enqueue_waiting(locks, t, p, req, next, call)
  <2>1. kernel' = call /\ conc' = conc /\ rec' = rec
    BY <1>5 DEF rec_enqueue_waiting, trxVars, rowVars
  <2>2. call \in Calls /\ call.op = "insert" /\ call.trx = t /\ call.page = p /\ call.key = k /\ call.to = "live"
    BY <1>3, CallType, KeyIs DEF Call
  <2> HIDE DEF call, req
  <2>3. CallConsistent' BY <1>2, <2>1, <2>2 DEF CallConsistent
  <2>4. Ready(locks, p, next, req)
    <3>1. QueueOK(locks) /\ ImplicitOrExplicitIn(locks) /\ BitsWithin(locks, Recs)
      BY BitsPresentIs DEF LockInv, TypeOK, QueueOK
    <3>2. next \in HeapNos /\ next \in Recs[p] \cup {PAGE_HEAP_NO_SUPREMUM} BY NextRecIs DEF Recs
    <3>3. req.gap = "GAP" BY DEF req, Request
    <3> QED BY <3>1, <3>2, <3>3 DEF Ready
  <2> QED BY <1>1, <1>5, <2>2, <2>3, <2>4, EnqueueStep
<1> QED BY <1>4, <1>5 DEF rec_insert_check_and_lock

\* deadlock_occurs finds nothing: the caller sleeps, or its request was granted
\* while another victim's locks were released, and it goes on.
LEMMA NoDeadlockAction ==
  ASSUME LockInv, NEW t \in Trx, NoDeadlock(t)
  PROVE  LockInv'
<1> DEFINE p == kernel.page
           k == kernel.key
           to == kernel.to
<1>1. kernel.trx = t /\ kernel.op \in {"lock", "insert", "modify"} /\ kernel' = NoCall
  BY DEF NoDeadlock, NotRefused, Checking
<1>2. CallConsistent' BY <1>1, NoCallType DEF CallConsistent
<1>3. CASE /\ que' = [que EXCEPT ![t] = "LOCK_WAIT"]
           /\ victim' = [victim EXCEPT ![t] = FALSE]
           /\ err' = [err EXCEPT ![t] = "LOCK_WAIT"]
           /\ UNCHANGED <<locks, rowVars, conc>>
  <2>1. TypeOK' BY <1>1, <1>3, NoCallType DEF LockInv, TypeOK, rowVars
  <2> QED BY <1>2, <1>3, <2>1, QuietStep
<1>4. CASE /\ ~IsWaiting(locks, t)
           /\ Succeed(locks, kernel.op, t, p, k, to)
           /\ UNCHANGED trxVars
  <2>1. CASE kernel.op = "lock"
    <3>1. locks' = locks /\ UNCHANGED rowVars BY <1>4, <2>1 DEF Succeed
    <3>2. TypeOK' BY <1>1, <1>4, <3>1, NoCallType DEF LockInv, TypeOK, rowVars, trxVars
    <3> QED BY <1>2, <1>4, <3>1, <3>2, QuietStep DEF trxVars
  <2>2. ASSUME kernel.op \in {"insert", "modify"}
        PROVE  p \in Pages /\ k \in Keys /\ to \in RecStates \ {"absent"} /\ conc[t] = "ACTIVE"
    <3>1. kernel \in Calls BY DEF LockInv, TypeOK
    <3>2. kernel \in [op : {"insert", "modify"}, trx : Trx, page : Pages, key : Keys, to : RecStates, count : {0}]
      BY <2>2, <3>1 DEF Calls
    <3> QED BY <1>1, <2>2, <3>2 DEF LockInv, CallConsistent
  <2>3. CASE kernel.op = "insert"
    <3>1. rec[p][k] = "absent" BY <2>3 DEF LockInv, CallConsistent
    <3>2. Succeed(locks, "insert", t, p, k, to) BY <1>4, <2>3
    <3> HIDE DEF p, k, to
    <3> QED BY <1>1, <1>4, <2>2, <2>3, <3>1, <3>2, InsertStep
  <2>4. CASE kernel.op = "modify"
    <3>1. PICK i \in DOMAIN locks :
             /\ locks[i].trx = t /\ OnRec(locks[i], p, k)
             /\ locks[i].mode = "X" /\ locks[i].gap = "REC_NOT_GAP" /\ ~locks[i].ins
      BY <1>1, <2>4 DEF LockInv, CallConsistent
    <3>2. Succeed(locks, "modify", t, p, k, to) BY <1>4, <2>4
    <3>3. /\ locks' = locks
          /\ rec' = [rec EXCEPT ![p][k] = to]
          /\ rec_trx' = [rec_trx EXCEPT ![p][k] = t]
          /\ undo' = [undo EXCEPT ![t] =
               Append(@, [page |-> p, key |-> k, old |-> rec[p][k], old_trx |-> rec_trx[p][k]])]
      BY <3>2 DEF Succeed
    <3> HIDE DEF p, k, to
    <3>4. p \in Pages /\ k \in Keys /\ to \in RecStates \ {"absent"} /\ conc[t] = "ACTIVE" BY <2>2, <2>4
    <3>5. QueueOK(locks) /\ ImplicitOrExplicitIn(locks) /\ BitsWithin(locks, Recs) /\ locks \in Seq(Lock)
      BY BitsPresentIs DEF LockInv, TypeOK, QueueOK
    <3>6. ~locks[i].wait BY <1>4, <3>1 DEF IsWaiting
    <3>7. XLock(locks[i], t, p, k) BY <3>1, <3>4, <3>6, KeyIs DEF XLock, LocksRecord
    <3>8. HoldsX(locks, t, p, k) BY <3>4, <3>5, <3>7, HoldsXIs
    <3>9. \A o \in clust_rec_some_has_impl(p, k) : o # t => HoldsX(locks, o, p, k)
      BY <3>1, <3>4, <3>5, <3>7 DEF ImplicitOrExplicitIn, OtherRequest, XLock
    <3>10. rec_trx[p][k] \in {t, NoTrx} BY <3>4, <3>5, <3>8, <3>9, ModifyGranted
    <3>11. BitsWithin(locks, Recs')
      <4>1. \A q \in Pages : Recs[q] \subseteq Recs'[q]
        BY <3>3, <3>4 DEF Recs, Present, LockInv, TypeOK
      <4> QED BY <3>5, <4>1 DEF BitsWithin
    <3> QED BY <1>1, <1>4, <3>3, <3>4, <3>5, <3>8, <3>10, <3>11, WriteStep
  <2> QED BY <1>1, <2>1, <2>3, <2>4
<1> QED BY <1>3, <1>4 DEF NoDeadlock, NotRefused

-----------------------------------------------------------------------------
(* The theorems.                                                           *)

\* LockInv holds at the start.
LEMMA LockInvInit == Init => LockInv
<1> SUFFICES ASSUME Init PROVE LockInv OBVIOUS
<1>1. locks = <<>> /\ locks \in Seq(Lock) /\ DOMAIN locks = {} BY DEF Init
<1>2. /\ rec_trx \in [Pages -> [Keys -> Trx \cup {NoTrx}]] /\ undo \in [Trx -> Seq(UndoRec)]
      /\ \A p \in Pages, k \in Keys : rec_trx[p][k] = NoTrx
      /\ \A t \in Trx : DOMAIN undo[t] = {}
  BY DEF Init
<1>3. rec \in [Pages -> [Keys -> RecStates]] BY ConstantsAssumption DEF Init, RecStates
<1>4. TypeOK BY <1>1, <1>2, <1>3, NoCallType DEF Init, TypeOK
<1>5. NoOvertakingIn(locks) /\ OneBitIn(locks) /\ BitsPresentIn(locks)
  BY <1>1 DEF NoOvertakingIn, OneBitIn, BitsPresentIn
<1>6. ImplicitOrExplicitIn(locks) BY <1>1 DEF ImplicitOrExplicitIn, OtherRequest
<1>7. WriterActive BY <1>2, ConstantsAssumption DEF WriterActive
<1>8. UndoConsistent BY <1>2 DEF UndoConsistent
<1>9. CallConsistent BY NoCallType DEF Init, CallConsistent
<1> QED BY <1>4, <1>5, <1>6, <1>7, <1>8, <1>9 DEF LockInv

\* Every step of the lock manager preserves LockInv.
LEMMA LockInvStep == LockInv /\ [Next]_vars => LockInv'
<1> SUFFICES ASSUME LockInv, [Next]_vars PROVE LockInv' OBVIOUS
<1>1. CASE UNCHANGED vars
  <2>1. TypeOK' BY <1>1 DEF vars, LockInv, TypeOK
  <2>2. CallConsistent' BY <1>1 DEF vars, LockInv, CallConsistent
  <2>3. UNCHANGED <<locks, rowVars>> /\ conc' = conc BY <1>1 DEF vars, rowVars
  <2> QED BY <2>1, <2>2, <2>3, QuietStep
<1>2. ASSUME NEW t \in Trx, ClientRequest(t) PROVE LockInv'
  <2>1. ASSUME NEW tab \in Tables, NEW mode \in TableModes, lock_table(t, tab, mode) PROVE LockInv'
    BY <2>1, TableAction
  <2>2. ASSUME NEW p \in Pages, NEW h \in HeapNos \ {PAGE_HEAP_NO_INFIMUM}, NEW r \in ReadRequests,
               clust_rec_read_check_and_lock(t, p, h, r[1], r[2])
        PROVE  LockInv'
    <3>1. r[1] \in RecModes /\ r[2] \in GapModes BY ConstantsAssumption
    <3> QED BY <2>2, <3>1, ReadAction
  <2>3. ASSUME NEW p \in Pages, NEW k \in Keys, NEW to \in {"live", "marked"},
               clust_rec_modify_check_and_lock(t, p, k, to)
        PROVE  LockInv'
    BY <2>3, ModifyAction
  <2>4. ASSUME NEW p \in Pages, NEW k \in Keys, rec_insert_check_and_lock(t, p, k) PROVE LockInv'
    BY <2>4, InsertAction
  <2>5. ASSUME NEW p \in Pages, NEW k \in Keys, NEW mode \in RecModes, rec_unlock(t, p, k, mode)
        PROVE  LockInv'
    BY <2>5, UnlockAction
  <2> QED BY <1>2, <2>1, <2>2, <2>3, <2>4, <2>5 DEF ClientRequest
<1>3. ASSUME NEW t \in Trx, DeadlockCheck(t) PROVE LockInv'
  BY <1>3, NoDeadlockAction, CancelActions, RefuseActions DEF DeadlockCheck
<1>4. ASSUME NEW t \in Trx, TrxStep(t) PROVE LockInv'
  BY <1>4, QuietActions, RollbackAction, CommitAction, ReleaseActions DEF TrxStep
<1>5. ASSUME NEW t \in Trx, WaitStep(t) PROVE LockInv'
  BY <1>5, QuietActions, CancelActions DEF WaitStep
<1>6. ASSUME NEW p \in Pages, NEW k \in Keys, purge_remove(p, k) PROVE LockInv'
  BY <1>6, PurgeAction
<1> QED BY <1>1, <1>2, <1>3, <1>4, <1>5, <1>6 DEF Next

\* LockInv is an invariant of the lock manager.
THEOREM LockInvariant == Spec => []LockInv
<1>1. Init => LockInv BY LockInvInit
<1>2. LockInv /\ [Next]_vars => LockInv' BY LockInvStep
<1> QED BY <1>1, <1>2, PTL DEF Spec

\* Every variable keeps its type.
THEOREM TypeCorrect == Spec => []TypeOK
<1>1. LockInv => TypeOK BY DEF LockInv
<1> QED BY <1>1, LockInvariant, PTL

\* Queue order: no granted lock of a page or table queue stands behind a
\* conflicting one of another transaction (rec_has_to_wait_in_queue,
\* table_has_to_wait_in_queue, grant).
THEOREM QueueOrder == Spec => []NoOvertaking
<1>1. LockInv => NoOvertaking BY DEF LockInv, NoOvertaking
<1> QED BY <1>1, LockInvariant, PTL

\* RULE 3 of lock0lock.cc: transactions never hold conflicting granted locks on a
\* record or a table.
THEOREM GrantedLocksAgree == Spec => []NoConflictingGranted
<1>1. ASSUME LockInv PROVE NoConflictingGranted
  <2> SUFFICES ASSUME NEW i \in DOMAIN locks, NEW j \in DOMAIN locks, ~locks[i].wait, ~locks[j].wait,
                      Clash(locks[i], locks[j])
               PROVE  FALSE
    BY DEF NoConflictingGranted
  <2>1. locks \in Seq(Lock) /\ NoOvertakingIn(locks) BY <1>1 DEF LockInv, TypeOK
  <2>2. i \in Nat /\ j \in Nat /\ locks[i] \in Lock /\ locks[j] \in Lock BY <2>1, SeqIsFcn
  <2>3. Clash(locks[j], locks[i]) /\ i # j BY <2>2, ClashWaits DEF Clash
  <2>4. i < j \/ j < i BY <2>2, <2>3
  <2> QED BY <2>1, <2>3, <2>4 DEF NoOvertakingIn
<1> QED BY <1>1, LockInvariant, PTL

\* RULE 1 of lock0lock.cc: the implicit lock of an active writer, which has no
\* Lock struct, excludes every granted lock of others on the record.
THEOREM ImplicitLocksExclude == Spec => []ImplicitLockExcludes
<1>1. ASSUME LockInv PROVE ImplicitLockExcludes
  <2> SUFFICES ASSUME NEW p \in Pages, NEW k \in Keys, NEW o \in clust_rec_some_has_impl(p, k),
                      NEW i \in DOMAIN locks, locks[i].trx # o, ~locks[i].wait,
                      OnRec(locks[i], p, k), LocksRecord(locks[i], k)
               PROVE  FALSE
    BY DEF ImplicitLockExcludes
  <2>1. locks \in Seq(Lock) /\ NoOvertakingIn(locks) BY <1>1 DEF LockInv, TypeOK
  <2>2. OtherRequest(locks, o, p, k) BY DEF OtherRequest
  <2>3. HoldsX(locks, o, p, k) BY <1>1, <2>2 DEF LockInv, ImplicitOrExplicitIn
  <2> QED BY <2>1, <2>3, XExcludes
<1> QED BY <1>1, LockInvariant, PTL
=============================================================================
