----------------------------- MODULE MvccProofs -----------------------------
(***************************************************************************)
(* The safety of ReadView for any number of clients and any bound on ids:  *)
(* the purge view sees no more than any open view, and FACT C of           *)
(* read0read.cc.  Then the composition: row operations, rollback and purge *)
(* do to transactions, views and the history list only what ReadView       *)
(* allows, so that its theorems hold of Mvcc.                              *)
(***************************************************************************)
EXTENDS MvccInv, FiniteSetTheorems, WellFoundedInduction, TLAPS

-----------------------------------------------------------------------------
(* Smallest members, and what the visibility test computes.                *)

\* A set of naturals that is not empty has a smallest member.
LEMMA SmallestExists ==
  ASSUME NEW S \in SUBSET Nat, S # {}
  PROVE  \E n \in S : Smallest(S, n)
<1>1. PICK n \in S : \A m \in S : ~(<<m, n>> \in OpToRel(<, Nat))
  BY NatLessThanWellFounded, WFMin
<1>2. \A m \in S : ~(m < n)
  BY <1>1 DEF OpToRel
<1> QED
  BY <1>2 DEF Smallest

\* MinOr returns the smallest member, or the default for the empty set.
LEMMA MinOrFacts ==
  ASSUME NEW S \in SUBSET Nat, NEW default \in Nat
  PROVE  /\ S = {} => MinOr(S, default) = default
         /\ S # {} => MinOr(S, default) \in S
         /\ \A n \in S : MinOr(S, default) <= n
<1>1. CASE S = {}
  BY <1>1 DEF MinOr
<1>2. CASE S # {}
  <2>1. \E n \in S : Smallest(S, n)
    BY <1>2, SmallestExists
  <2>2. \E n : Smallest(S, n)
    BY <2>1
  <2>3. MinOr(S, default) = CHOOSE n \in S : Smallest(S, n)
    BY <1>2 DEF MinOr
  <2>4. MinOr(S, default) \in S /\ Smallest(S, MinOr(S, default))
    BY <2>1, <2>3
  <2> QED
    BY <1>2, <2>4 DEF Smallest
<1> QED
  BY <1>1, <1>2

\* While ids stay below IntMax the walk over the array of ids finds an id
\* if and only if it is there.
LEMMA SeesMeaning ==
  ASSUME NEW v \in View, WellFormed(v), NEW id \in TrxIds
  PROVE  read_view_sees_trx_id(v, id) <=> Sees(v, id)
<1>1. \A n \in v.trx_ids : n \in TrxIds
  BY DEF View
<1>2. \A n \in v.trx_ids : ToInt(id - n) = id - n
  BY <1>1, IdAssumption DEF ToInt, TrxIds
<1>3. Stops(v, id) = {n \in v.trx_ids : id <= n}
  BY <1>1, <1>2 DEF Stops, TrxIds
<1>4. CASE id \in v.trx_ids
  <2>1. id \in Stops(v, id) /\ Smallest(Stops(v, id), id)
    BY <1>1, <1>3, <1>4 DEF Smallest, TrxIds
  <2>2. ~(ToInt(id - id) < 0)
    BY <1>2, <1>4 DEF TrxIds
  <2>3. ~(id < v.up_limit_id)
    BY <1>4 DEF WellFormed, View, TrxIds
  <2> QED
    BY <1>4, <2>1, <2>2, <2>3 DEF read_view_sees_trx_id, Sees
<1>5. CASE id \notin v.trx_ids
  <2>1. \A n \in Stops(v, id) : ToInt(id - n) < 0
    BY <1>1, <1>2, <1>3, <1>5 DEF TrxIds
  <2>2. id < v.up_limit_id => id < v.low_limit_id
    BY DEF WellFormed, View, TrxIds
  <2> QED
    BY <1>5, <2>1, <2>2 DEF read_view_sees_trx_id, Sees
<1> QED
  BY <1>4, <1>5

\* The members of the history list are ids and numbers.
LEMMA HistoryTyped ==
  ASSUME TypeOKR, NEW i \in DOMAIN history
  PROVE  history[i].id \in TrxIds /\ history[i].no \in TrxIds
<1> DEFINE T == [id: TrxIds, no: TrxIds]
<1>1. history \in Seq(T)
  BY DEF TypeOKR
<1>2. history[i] \in T
  <2> HIDE DEF T
  <2> QED
    BY <1>1
<1> QED
  BY <1>2

-----------------------------------------------------------------------------
(* New views.                                                              *)

\* What a transaction without a log in the history, or purge, opens is a
\* good view, and hides exactly the other active transactions.
LEMMA OpenedView ==
  ASSUME RInv, NEW cr \in 0 .. MaxTrxId, cr < m_max_trx_id,
         \A i \in DOMAIN history : history[i].id # cr
  PROVE  /\ read_view_open_now(cr) \in View
         /\ read_view_open_now(cr).creator = cr
         /\ read_view_open_now(cr).low_limit_id = m_max_trx_id
         /\ read_view_open_now(cr).trx_ids = Unseen(cr)
         /\ ViewOK(read_view_open_now(cr))
<1> DEFINE v == read_view_open_now(cr)
           U == Unseen(cr)
           N == {m_max_trx_id} \cup NumbersOf(U)
<1>1. \A n \in U : \E c \in Clients : IsActive(c) /\ trx[c].id = n
  BY DEF Unseen, ActiveIds
<1>2. U \in SUBSET TrxIds /\ \A n \in U : n < m_max_trx_id
  BY <1>1 DEF RInv, TypeOKR, IdsUnique, TrxIds
<1>3. N \in SUBSET (1 .. LsnMax)
  BY IdAssumption DEF NumbersOf, RInv, TypeOKR, TrxIds, LsnMax
<1>4. U \in SUBSET Nat /\ N \in SUBSET Nat /\ N # {} /\ m_max_trx_id \in N /\ m_max_trx_id \in Nat
  BY <1>2, <1>3, IdAssumption DEF RInv, TypeOKR, TrxIds, LsnMax
<1>5. /\ MinOr(U, m_max_trx_id) \in U \cup {m_max_trx_id}
      /\ \A n \in U : MinOr(U, m_max_trx_id) <= n
  BY <1>4, MinOrFacts
<1>6. /\ MinOr(N, m_max_trx_id) \in N
      /\ \A n \in N : MinOr(N, m_max_trx_id) <= n
  BY <1>4, MinOrFacts
<1>7. MinOr(N, m_max_trx_id) \in TrxIds /\ MinOr(N, m_max_trx_id) <= m_max_trx_id
  <2>1. m_max_trx_id \in 1 .. MaxTrxId
    BY DEF RInv, TypeOKR, TrxIds
  <2>2. MinOr(N, m_max_trx_id) <= m_max_trx_id /\ MinOr(N, m_max_trx_id) \in 1 .. LsnMax
    BY <1>3, <1>4, <1>6
  <2> HIDE DEF N
  <2> QED
    BY <2>1, <2>2, IdAssumption DEF TrxIds, LsnMax
<1>8. /\ v.creator = cr /\ v.low_limit_no = MinOr(N, m_max_trx_id)
      /\ v.low_limit_id = m_max_trx_id
      /\ v.up_limit_id = MinOr(U, m_max_trx_id) /\ v.trx_ids = U
  BY DEF read_view_open_now
<1>9. v \in View
  BY <1>2, <1>5, <1>7 DEF read_view_open_now, View, RInv, TypeOKR
<1>10. WellFormed(v)
  <2>1. MinOr(U, m_max_trx_id) <= m_max_trx_id
    BY <1>2, <1>4, <1>5
  <2> QED
    BY <1>2, <1>5, <1>8, <2>1 DEF WellFormed
<1>11. HidesActive(v)
  BY <1>8 DEF HidesActive, Sees, Unseen, ActiveIds
<1>12. LogsBelowSeen(v)
  <2> SUFFICES ASSUME NEW i \in DOMAIN history, history[i].no < v.low_limit_no
               PROVE  Sees(v, history[i].id) /\ history[i].id # v.creator
    BY DEF LogsBelowSeen
  <2>1. history[i].no \in TrxIds /\ history[i].id \in TrxIds
    BY HistoryTyped DEF RInv
  <2>2. history[i].id \notin U
    <3> SUFFICES ASSUME history[i].id \in U  PROVE FALSE
      OBVIOUS
    <3>1. PICK c \in Clients : IsActive(c) /\ trx[c].id = history[i].id
      BY <1>1
    <3>2. trx[c].no = history[i].no
      BY <3>1 DEF RInv, LogsNumbered
    <3>3. trx[c].no \in N
      BY <3>1 DEF NumbersOf
    <3> QED
      BY <1>6, <1>7, <1>8, <2>1, <3>2, <3>3 DEF TrxIds
  <2>3. history[i].id < m_max_trx_id
    BY DEF RInv, LogsNumbered
  <2> QED
    BY <1>8, <2>2, <2>3 DEF Sees
<1> QED
  BY <1>7, <1>8, <1>9, <1>10, <1>11, <1>12, IdAssumption DEF ViewOK, RInv, TypeOKR, TrxIds

\* The copy for purge sees what the view sees without its creator's changes.
LEMMA CopiedView ==
  ASSUME RInv, NEW v \in View, ViewOK(v)
  PROVE  /\ CopyOf(v) \in View
         /\ CopyOf(v).creator = 0
         /\ \A id \in TrxIds : Sees(CopyOf(v), id) <=> Sees(v, id) /\ id # v.creator
         /\ ViewOK(CopyOf(v))
<1> DEFINE ids == v.trx_ids \cup (IF v.creator > 0 THEN {v.creator} ELSE {})
           w == CopyOf(v)
<1>1. /\ v.creator \in 0 .. MaxTrxId /\ v.low_limit_no \in TrxIds /\ v.low_limit_id \in TrxIds
      /\ v.up_limit_id \in TrxIds /\ v.trx_ids \in SUBSET TrxIds
  BY DEF View
<1>2. ids \in SUBSET TrxIds /\ ids \in SUBSET Nat
  BY <1>1, IdAssumption DEF TrxIds
<1>3. /\ ids = {} => MinOr(ids, v.up_limit_id) = v.up_limit_id
      /\ ids # {} => MinOr(ids, v.up_limit_id) \in ids
      /\ \A n \in ids : MinOr(ids, v.up_limit_id) <= n
  BY <1>1, <1>2, MinOrFacts DEF TrxIds
<1>4. /\ w.creator = 0 /\ w.low_limit_no = v.low_limit_no /\ w.low_limit_id = v.low_limit_id
      /\ w.up_limit_id = MinOr(ids, v.up_limit_id) /\ w.trx_ids = ids
  BY DEF CopyOf
<1>5. w \in View
  <2>1. MinOr(ids, v.up_limit_id) \in TrxIds
    BY <1>1, <1>2, <1>3
  <2>2. w = [creator |-> 0, low_limit_no |-> v.low_limit_no, low_limit_id |-> v.low_limit_id,
             up_limit_id |-> MinOr(ids, v.up_limit_id), trx_ids |-> ids]
    BY DEF CopyOf
  <2> HIDE DEF ids, w
  <2> QED
    BY <1>1, <1>2, <2>1, <2>2, IdAssumption DEF View
<1>6. \A n \in ids : n < v.low_limit_id
  BY <1>1 DEF ViewOK, WellFormed
<1>7. WellFormed(w)
  <2>1. MinOr(ids, v.up_limit_id) <= v.low_limit_id
    BY <1>1, <1>2, <1>3, <1>6 DEF ViewOK, WellFormed, TrxIds
  <2>2. 0 < v.low_limit_id
    BY <1>1 DEF TrxIds
  <2> HIDE DEF ids, w
  <2> QED
    BY <1>3, <1>4, <1>6, <2>1, <2>2 DEF WellFormed
<1>8. \A id \in TrxIds : Sees(w, id) <=> Sees(v, id) /\ id # v.creator
  BY <1>1, <1>4 DEF Sees, TrxIds
<1>9. HidesActive(w)
  <2> SUFFICES ASSUME NEW c \in Clients, IsActive(c)  PROVE ~Sees(w, trx[c].id)
    BY DEF HidesActive
  <2>1. trx[c].id \in TrxIds
    BY DEF RInv, TypeOKR, IdsUnique, TrxIds
  <2> QED
    BY <1>8, <2>1 DEF ViewOK, HidesActive
<1>10. LogsBelowSeen(w)
  <2> SUFFICES ASSUME NEW i \in DOMAIN history, history[i].no < w.low_limit_no
               PROVE  Sees(w, history[i].id) /\ history[i].id # w.creator
    BY DEF LogsBelowSeen
  <2>1. history[i].id \in TrxIds
    BY HistoryTyped DEF RInv
  <2>2. history[i].id # 0
    BY <2>1, IdAssumption DEF TrxIds
  <2>3. Sees(v, history[i].id) /\ history[i].id # v.creator
    BY <1>4 DEF ViewOK, LogsBelowSeen
  <2> QED
    BY <1>4, <1>8, <2>1, <2>2, <2>3
<1> QED
  BY <1>4, <1>5, <1>7, <1>8, <1>9, <1>10 DEF ViewOK

-----------------------------------------------------------------------------
(* Lists of views.                                                         *)

\* A view put before the first member moves the others by one.
LEMMA PrependFacts ==
  ASSUME NEW T, NEW list \in Seq(T), NEW e \in T
  PROVE  /\ <<e>> \o list \in Seq(T)
         /\ DOMAIN (<<e>> \o list) = 1 .. Len(list) + 1
         /\ (<<e>> \o list)[1] = e
         /\ \A i \in 2 .. Len(list) + 1 : i - 1 \in DOMAIN list /\ (<<e>> \o list)[i] = list[i - 1]
  OBVIOUS

\* A list without its member at j keeps the others in their order.
LEMMA WithoutAtFacts ==
  ASSUME NEW T, NEW list \in Seq(T), NEW j \in DOMAIN list
  PROVE  /\ WithoutAt(list, j) \in Seq(T)
         /\ DOMAIN WithoutAt(list, j) = 1 .. Len(list) - 1
         /\ \A i \in DOMAIN WithoutAt(list, j) :
              LET k == IF i < j THEN i ELSE i + 1
              IN  k \in DOMAIN list /\ WithoutAt(list, j)[i] = list[k]
<1>1. Len(list) \in Nat /\ DOMAIN list = 1 .. Len(list) /\ Len(list) >= 1
  OBVIOUS
<1>2. \A i \in 1 .. Len(list) - 1 :
        LET k == IF i < j THEN i ELSE i + 1
        IN  k \in DOMAIN list /\ list[k] \in T
  BY <1>1
<1>3. WithoutAt(list, j) \in [1 .. Len(list) - 1 -> T]
  BY <1>2 DEF WithoutAt
<1>4. Len(list) - 1 \in Nat
  BY <1>1
<1>5. WithoutAt(list, j) \in Seq(T)
  BY <1>3, <1>4
<1> QED
  BY <1>2, <1>3, <1>5 DEF WithoutAt

-----------------------------------------------------------------------------
(* Steps.                                                                  *)

\* A good view stays good, whatever happens.
LEMMA ViewKept ==
  ASSUME RInv, [RNext]_rvars, NEW v \in View, ViewOK(v)
  PROVE  ViewOK(v)'
<1> USE DEF ViewOK
<1>1. /\ v.low_limit_no \in TrxIds /\ v.low_limit_id \in TrxIds /\ m_max_trx_id \in TrxIds
      /\ trx \in [Clients -> [state: {"not_started", "active"}, id: 0 .. MaxTrxId, no: 1 .. LsnMax]]
  BY DEF View, RInv, TypeOKR
<1>2. ASSUME NEW c \in Clients, start_low(c)  PROVE ViewOK(v)'
  <2>1. v.low_limit_id <= m_max_trx_id' /\ v.low_limit_no <= m_max_trx_id'
    BY <1>1, <1>2 DEF start_low, TrxIds
  <2>2. ~Sees(v, m_max_trx_id)
    BY <1>1 DEF Sees, TrxIds
  <2>3. HidesActive(v)'
    BY <1>1, <1>2, <2>2 DEF start_low, HidesActive, IsActive
  <2>4. LogsBelowSeen(v)'
    BY <1>2 DEF start_low, LogsBelowSeen
  <2> QED
    BY <2>1, <2>3, <2>4
<1>3. ASSUME NEW c \in Clients, CommitNumber(c)  PROVE ViewOK(v)'
  <2>1. v.low_limit_id <= m_max_trx_id' /\ v.low_limit_no <= m_max_trx_id'
    BY <1>1, <1>3 DEF CommitNumber, TrxIds
  <2>2. HidesActive(v)'
    BY <1>1, <1>3 DEF CommitNumber, HidesActive, IsActive
  <2>3. LogsBelowSeen(v)'
    <3> DEFINE T == [id: TrxIds, no: TrxIds]
               e == [id |-> trx[c].id, no |-> m_max_trx_id]
    <3>1. history \in Seq(T) /\ history' = Append(history, e)
      BY <1>3 DEF CommitNumber, RInv, TypeOKR
    <3> HIDE DEF T, e
    <3>2. \A i \in DOMAIN history' : \/ i \in DOMAIN history /\ history'[i] = history[i]
                                     \/ history'[i] = e
      BY <3>1
    <3>3. ~(e.no < v.low_limit_no)
      BY <1>1 DEF e, TrxIds
    <3> QED
      BY <3>2, <3>3 DEF LogsBelowSeen
  <2> QED
    BY <2>1, <2>2, <2>3
<1>4. ASSUME NEW c \in Clients, CommitInMemory(c)  PROVE ViewOK(v)'
  BY <1>1, <1>4 DEF CommitInMemory, HidesActive, LogsBelowSeen, IsActive, NotStarted
<1>5. CASE UNCHANGED <<m_max_trx_id, trx, history>>
  BY <1>5 DEF HidesActive, LogsBelowSeen, IsActive
<1>6. ASSUME NEW c \in Clients, assign_read_view(c)  PROVE ViewOK(v)'
  BY <1>5, <1>6 DEF assign_read_view
<1>7. CASE RenewPurgeView
  BY <1>5, <1>7 DEF RenewPurgeView
<1>8. CASE UNCHANGED rvars
  BY <1>5, <1>8 DEF rvars
<1> QED
  BY <1>2, <1>3, <1>4, <1>6, <1>7, <1>8 DEF RNext

\* A view that the step opens sees what every older view, and purge, sees.
LEMMA NewestSeesMost ==
  ASSUME RInv, NEW c \in Clients, IsActive(c), NEW v \in View, ViewOK(v), NEW id \in TrxIds,
         Sees(v, id), id # v.creator
  PROVE  Sees(read_view_open_now(trx[c].id), id)
<1>1. id < m_max_trx_id
  BY DEF ViewOK, Sees, View, RInv, TypeOKR, TrxIds
<1>2. id \notin ActiveIds
  BY DEF ViewOK, HidesActive, ActiveIds
<1> QED
  BY <1>1, <1>2 DEF read_view_open_now, Sees, Unseen


\* What a transaction that may open a view opens.
LEMMA AssignedView ==
  ASSUME RInv, NEW c \in Clients, assign_read_view(c)
  PROVE  /\ read_view_open_now(trx[c].id) \in View
         /\ ViewOK(read_view_open_now(trx[c].id))
<1>1. IsActive(c) /\ trx[c].no = LsnMax
  BY DEF assign_read_view
<1>2. trx[c].id \in 0 .. MaxTrxId /\ trx[c].id < m_max_trx_id
  BY <1>1 DEF RInv, TypeOKR, IdsUnique
<1>3. \A i \in DOMAIN history : history[i].id # trx[c].id
  <2> SUFFICES ASSUME NEW i \in DOMAIN history, history[i].id = trx[c].id  PROVE FALSE
    OBVIOUS
  <2>1. history[i].no = LsnMax
    BY <1>1 DEF RInv, LogsNumbered
  <2>2. history[i].no \in 1 .. MaxTrxId
    BY HistoryTyped DEF RInv, TrxIds
  <2> QED
    BY <2>1, <2>2, IdAssumption DEF LsnMax
<1> QED
  BY <1>2, <1>3, OpenedView

\* What purge takes as its view: it sees no more than any open view.
LEMMA RenewedView ==
  ASSUME RInv
  PROVE  /\ read_view_oldest_copy_or_open_new \in View
         /\ read_view_oldest_copy_or_open_new.creator = 0
         /\ ViewOK(read_view_oldest_copy_or_open_new)
         /\ \A i \in DOMAIN m_view_list : \A id \in TrxIds :
              Sees(read_view_oldest_copy_or_open_new, id) => Sees(m_view_list[i], id)
<1>1. m_view_list \in Seq(View)
  BY DEF RInv, TypeOKR
<1>2. CASE m_view_list = << >>
  <2>1. \A i \in DOMAIN history : history[i].id # 0
    BY HistoryTyped DEF RInv, TrxIds
  <2>2. 0 \in 0 .. MaxTrxId /\ 0 < m_max_trx_id
    BY IdAssumption DEF RInv, TypeOKR, TrxIds
  <2>3. read_view_oldest_copy_or_open_new = read_view_open_now(0)
    BY <1>2 DEF read_view_oldest_copy_or_open_new
  <2> QED
    BY <1>2, <2>1, <2>2, <2>3, OpenedView
<1>3. CASE m_view_list # << >>
  <2> DEFINE n == Len(m_view_list)
             old == m_view_list[n]
  <2>1. n \in DOMAIN m_view_list /\ DOMAIN m_view_list = 1 .. n /\ n \in Nat /\ old \in View
    BY <1>1, <1>3
  <2>2. ViewOK(old)
    BY <2>1 DEF RInv
  <2>3. read_view_oldest_copy_or_open_new = CopyOf(old)
    BY <1>3 DEF read_view_oldest_copy_or_open_new
  <2>4. \A i \in DOMAIN m_view_list : \A id \in TrxIds :
          Sees(old, id) /\ id # old.creator => Sees(m_view_list[i], id)
    BY <2>1 DEF RInv, OlderSeesLess
  <2> HIDE DEF old
  <2> QED
    BY <2>1, <2>2, <2>3, <2>4, CopiedView
<1> QED
  BY <1>2, <1>3

\* Types are kept.
LEMMA TypesKept ==
  ASSUME RInv, [RNext]_rvars
  PROVE  TypeOKR'
<1> DEFINE Trxs == [state: {"not_started", "active"}, id: 0 .. MaxTrxId, no: 1 .. LsnMax]
           T == [id: TrxIds, no: TrxIds]
<1>1. /\ m_max_trx_id \in TrxIds /\ trx \in [Clients -> Trxs] /\ m_view_list \in Seq(View)
      /\ m_view \in View /\ history \in Seq(T)
  BY DEF RInv, TypeOKR
<1>2. LsnMax \in 1 .. LsnMax /\ TrxIds \subseteq 0 .. MaxTrxId /\ TrxIds \subseteq 1 .. LsnMax
  BY IdAssumption DEF LsnMax, TrxIds
<1>3. ASSUME NEW c \in Clients, start_low(c)  PROVE TypeOKR'
  <2>1. m_max_trx_id' \in TrxIds
    <3>1. m_max_trx_id' = m_max_trx_id + 1 /\ m_max_trx_id < MaxTrxId
      BY <1>3 DEF start_low
    <3> QED
      BY <1>1, <3>1, IdAssumption DEF TrxIds
  <2>2. [state |-> "active", id |-> m_max_trx_id, no |-> LsnMax] \in Trxs
    BY <1>1, <1>2
  <2>3. trx' \in [Clients -> Trxs]
    <3> HIDE DEF Trxs
    <3> QED
      BY <1>1, <1>3, <2>2 DEF start_low
  <2> QED
    BY <1>1, <1>3, <2>1, <2>3 DEF start_low, TypeOKR
<1>4. ASSUME NEW c \in Clients, assign_read_view(c)  PROVE TypeOKR'
  <2>1. m_view_list' \in Seq(View)
    BY <1>1, <1>4, AssignedView, PrependFacts DEF assign_read_view
  <2> QED
    BY <1>1, <1>4, <2>1 DEF assign_read_view, TypeOKR
<1>5. ASSUME NEW c \in Clients, CommitNumber(c)  PROVE TypeOKR'
  <2>1. m_max_trx_id' \in TrxIds
    <3>1. m_max_trx_id' = m_max_trx_id + 1 /\ m_max_trx_id < MaxTrxId
      BY <1>5 DEF CommitNumber
    <3> QED
      BY <1>1, <3>1, IdAssumption DEF TrxIds
  <2>2. trx' \in [Clients -> Trxs]
    BY <1>1, <1>2, <1>5 DEF CommitNumber
  <2>3. trx[c].id \in TrxIds
    BY <1>5 DEF CommitNumber, RInv, TypeOKR, IdsUnique, TrxIds
  <2>4. [id |-> trx[c].id, no |-> m_max_trx_id] \in T
    BY <1>1, <2>3
  <2>5. history' \in Seq(T)
    <3> HIDE DEF T
    <3> QED
      BY <1>1, <1>5, <2>4 DEF CommitNumber
  <2> QED
    BY <1>1, <1>5, <2>1, <2>2, <2>5 DEF CommitNumber, TypeOKR
<1>6. ASSUME NEW c \in Clients, CommitInMemory(c)  PROVE TypeOKR'
  <2>1. NotStarted \in Trxs
    BY <1>2, IdAssumption DEF NotStarted
  <2>2. trx' \in [Clients -> Trxs]
    <3> HIDE DEF Trxs
    <3> QED
      BY <1>1, <1>6, <2>1 DEF CommitInMemory
  <2>3. m_view_list' \in Seq(View)
    BY <1>1, <1>6, WithoutAtFacts DEF CommitInMemory, ViewsOf
  <2> QED
    BY <1>1, <1>6, <2>2, <2>3 DEF CommitInMemory, TypeOKR
<1>7. CASE RenewPurgeView
  BY <1>1, <1>7, RenewedView DEF RenewPurgeView, TypeOKR
<1>8. CASE UNCHANGED rvars
  BY <1>1, <1>8 DEF rvars, TypeOKR
<1> QED
  BY <1>3, <1>4, <1>5, <1>6, <1>7, <1>8 DEF RNext

\* Ids stay unique and below the counter.
LEMMA IdsKept ==
  ASSUME RInv, [RNext]_rvars
  PROVE  IdsUnique'
<1>1. /\ m_max_trx_id \in TrxIds
      /\ trx \in [Clients -> [state: {"not_started", "active"}, id: 0 .. MaxTrxId, no: 1 .. LsnMax]]
      /\ IdsUnique
  BY DEF RInv, TypeOKR
<1>2. ASSUME NEW c \in Clients, start_low(c)  PROVE IdsUnique'
  BY <1>1, <1>2 DEF start_low, IdsUnique, IsActive, TrxIds
<1>3. ASSUME NEW c \in Clients, CommitNumber(c)  PROVE IdsUnique'
  BY <1>1, <1>3 DEF CommitNumber, IdsUnique, IsActive, TrxIds
<1>4. ASSUME NEW c \in Clients, CommitInMemory(c)  PROVE IdsUnique'
  BY <1>1, <1>4 DEF CommitInMemory, IdsUnique, IsActive, NotStarted
<1>5. CASE UNCHANGED <<m_max_trx_id, trx>>
  BY <1>1, <1>5 DEF IdsUnique, IsActive
<1> QED
  BY <1>2, <1>3, <1>4, <1>5 DEF RNext, assign_read_view, RenewPurgeView, rvars

\* A log in the history has the number of its transaction.
LEMMA LogsKept ==
  ASSUME RInv, [RNext]_rvars
  PROVE  LogsNumbered'
<1>1. /\ m_max_trx_id \in TrxIds
      /\ trx \in [Clients -> [state: {"not_started", "active"}, id: 0 .. MaxTrxId, no: 1 .. LsnMax]]
      /\ LogsNumbered /\ IdsUnique
  BY DEF RInv, TypeOKR
<1>2. \A i \in DOMAIN history : history[i].id \in TrxIds /\ history[i].no \in TrxIds
  BY HistoryTyped DEF RInv
<1>3. ASSUME NEW c \in Clients, start_low(c)  PROVE LogsNumbered'
  BY <1>1, <1>2, <1>3 DEF start_low, LogsNumbered, IsActive, TrxIds
<1>4. ASSUME NEW c \in Clients, CommitNumber(c)  PROVE LogsNumbered'
  <2> DEFINE T == [id: TrxIds, no: TrxIds]
             e == [id |-> trx[c].id, no |-> m_max_trx_id]
  <2>1. history \in Seq(T) /\ history' = Append(history, e)
    BY <1>4 DEF CommitNumber, RInv, TypeOKR
  <2>2. \A i \in DOMAIN history' : \/ i \in DOMAIN history /\ history'[i] = history[i]
                                   \/ history'[i] = e
    <3> HIDE DEF T, e
    <3> QED
      BY <2>1
  <2>3. m_max_trx_id' = m_max_trx_id + 1 /\ IsActive(c) /\ trx[c].no = LsnMax
    BY <1>4 DEF CommitNumber
  <2>4. \A d \in Clients : /\ IsActive(d)' => IsActive(d)
                           /\ trx'[d].id = trx[d].id
                           /\ d # c => trx'[d].no = trx[d].no
    BY <1>1, <1>4 DEF CommitNumber, IsActive
  <2>5. trx'[c].no = m_max_trx_id
    BY <1>1, <1>4 DEF CommitNumber
  <2>6. \A i \in DOMAIN history : history[i].id # trx[c].id
    BY <1>1, <1>2, <2>3, IdAssumption DEF LogsNumbered, TrxIds, LsnMax
  <2>7. \A d \in Clients : IsActive(d) /\ trx[d].id = trx[c].id => d = c
    BY <1>1, <2>3 DEF IdsUnique
  <2>8. e.id < m_max_trx_id /\ e.id = trx[c].id /\ e.no = m_max_trx_id
    BY <1>1, <2>3 DEF IdsUnique
  <2> SUFFICES ASSUME NEW i \in DOMAIN history'
               PROVE  /\ history'[i].id < m_max_trx_id'
                      /\ \A d \in Clients : IsActive(d)' /\ trx'[d].id = history'[i].id
                                               => trx'[d].no = history'[i].no
    BY DEF LogsNumbered
  <2>9. CASE history'[i] = e
    <3> HIDE DEF e
    <3>1. e.id < m_max_trx_id'
      BY <1>1, <2>3, <2>8, trx[c].id \in 0 .. MaxTrxId DEF TrxIds
    <3> QED
      BY <2>4, <2>5, <2>7, <2>8, <2>9, <3>1
  <2>10. CASE i \in DOMAIN history /\ history'[i] = history[i]
    <3>1. history[i].id < m_max_trx_id'
      BY <1>1, <1>2, <2>3, <2>10 DEF LogsNumbered, TrxIds
    <3> QED
      BY <1>1, <2>4, <2>6, <2>10, <3>1 DEF LogsNumbered
  <2> QED
    BY <2>2, <2>9, <2>10
<1>5. ASSUME NEW c \in Clients, CommitInMemory(c)  PROVE LogsNumbered'
  BY <1>1, <1>5 DEF CommitInMemory, LogsNumbered, IsActive, NotStarted
<1>6. CASE UNCHANGED <<m_max_trx_id, trx, history>>
  BY <1>1, <1>6 DEF LogsNumbered, IsActive
<1> QED
  BY <1>3, <1>4, <1>5, <1>6 DEF RNext, assign_read_view, RenewPurgeView, rvars

\* Every member of the new list of views was in the old list, or is the
\* view that the step opens; the order of the old ones is kept.
LEMMA ListSteps ==
  ASSUME RInv, [RNext]_rvars
  PROVE  \/ \E c \in Clients :
              /\ assign_read_view(c)
              /\ DOMAIN m_view_list' = 1 .. Len(m_view_list) + 1
              /\ m_view_list'[1] = read_view_open_now(trx[c].id)
              /\ \A i \in 2 .. Len(m_view_list) + 1 :
                   i - 1 \in DOMAIN m_view_list /\ m_view_list'[i] = m_view_list[i - 1]
         \/ \E j \in DOMAIN m_view_list :
              /\ m_view' = m_view
              /\ DOMAIN m_view_list' = 1 .. Len(m_view_list) - 1
              /\ \A i \in DOMAIN m_view_list' :
                   LET k == IF i < j THEN i ELSE i + 1
                   IN  k \in DOMAIN m_view_list /\ m_view_list'[i] = m_view_list[k]
         \/ m_view_list' = m_view_list
<1>1. m_view_list \in Seq(View)
  BY DEF RInv, TypeOKR
<1>2. ASSUME NEW c \in Clients, assign_read_view(c)
      PROVE  /\ DOMAIN m_view_list' = 1 .. Len(m_view_list) + 1
             /\ m_view_list'[1] = read_view_open_now(trx[c].id)
             /\ \A i \in 2 .. Len(m_view_list) + 1 :
                  i - 1 \in DOMAIN m_view_list /\ m_view_list'[i] = m_view_list[i - 1]
  <2>1. m_view_list' = <<read_view_open_now(trx[c].id)>> \o m_view_list
    BY <1>2 DEF assign_read_view
  <2>2. read_view_open_now(trx[c].id) \in View
    BY <1>2, AssignedView
  <2> QED
    BY <1>1, <2>1, <2>2, PrependFacts
<1>3. ASSUME NEW c \in Clients, CommitInMemory(c), m_view_list' # m_view_list
      PROVE  \E j \in DOMAIN m_view_list :
               /\ m_view' = m_view
               /\ DOMAIN m_view_list' = 1 .. Len(m_view_list) - 1
               /\ \A i \in DOMAIN m_view_list' :
                    LET k == IF i < j THEN i ELSE i + 1
                    IN  k \in DOMAIN m_view_list /\ m_view_list'[i] = m_view_list[k]
  <2>1. PICK j \in DOMAIN m_view_list : m_view_list' = WithoutAt(m_view_list, j)
    BY <1>3 DEF CommitInMemory, ViewsOf
  <2>2. m_view' = m_view
    BY <1>3 DEF CommitInMemory
  <2>3. /\ DOMAIN WithoutAt(m_view_list, j) = 1 .. Len(m_view_list) - 1
        /\ \A i \in DOMAIN WithoutAt(m_view_list, j) :
             LET k == IF i < j THEN i ELSE i + 1
             IN  k \in DOMAIN m_view_list /\ WithoutAt(m_view_list, j)[i] = m_view_list[k]
    BY <1>1, WithoutAtFacts
  <2> QED
    BY <2>1, <2>2, <2>3
<1>4. CASE m_view_list' = m_view_list
  BY <1>4
<1>5. \/ \E c \in Clients : assign_read_view(c)
      \/ \E c \in Clients : CommitInMemory(c)
      \/ m_view_list' = m_view_list
  BY DEF RNext, start_low, CommitNumber, RenewPurgeView, rvars
<1> QED
  BY <1>2, <1>3, <1>4, <1>5

\* The open views and the purge view stay good.
LEMMA ViewsKept ==
  ASSUME RInv, [RNext]_rvars
  PROVE  /\ \A i \in DOMAIN m_view_list' : ViewOK(m_view_list[i])'
         /\ ViewOK(m_view)' /\ m_view'.creator = 0
<1>1. m_view_list \in Seq(View) /\ m_view \in View /\ DOMAIN m_view_list = 1 .. Len(m_view_list)
      /\ Len(m_view_list) \in Nat
  BY DEF RInv, TypeOKR
<1> DEFINE Good(v) == v \in View /\ ViewOK(v)
<1>2. \A i \in DOMAIN m_view_list : Good(m_view_list[i])
  BY <1>1 DEF RInv
<1>3. \A c \in Clients : assign_read_view(c) => Good(read_view_open_now(trx[c].id))
  BY AssignedView
<1>4. \A i \in DOMAIN m_view_list' : \E v \in View : v = m_view_list'[i] /\ ViewOK(v)
  <2>1. \A i \in DOMAIN m_view_list' : Good(m_view_list'[i])
    <3> HIDE DEF Good
    <3>1. ASSUME NEW c \in Clients, assign_read_view(c),
                 DOMAIN m_view_list' = 1 .. Len(m_view_list) + 1,
                 m_view_list'[1] = read_view_open_now(trx[c].id),
                 \A i \in 2 .. Len(m_view_list) + 1 :
                   i - 1 \in DOMAIN m_view_list /\ m_view_list'[i] = m_view_list[i - 1]
          PROVE  \A i \in DOMAIN m_view_list' : Good(m_view_list'[i])
      <4> TAKE i \in DOMAIN m_view_list'
      <4>1. i = 1 \/ i \in 2 .. Len(m_view_list) + 1
        BY <1>1, <3>1
      <4> QED
        BY <1>2, <1>3, <3>1, <4>1
    <3> QED
      BY <1>2, <3>1, ListSteps
  <2> QED
    BY <2>1
<1>5. \A i \in DOMAIN m_view_list' : ViewOK(m_view_list[i])'
  <2> TAKE i \in DOMAIN m_view_list'
  <2>1. PICK v \in View : v = m_view_list'[i] /\ ViewOK(v)
    BY <1>4
  <2>2. ViewOK(v)'
    BY <2>1, ViewKept
  <2> QED
    BY <2>1, <2>2 DEF ViewOK, WellFormed, HidesActive, LogsBelowSeen, Sees
<1>6. \E v \in View : v = m_view' /\ ViewOK(v) /\ v.creator = 0
  <2>1. m_view' = m_view \/ m_view' = read_view_oldest_copy_or_open_new
    BY DEF RNext, start_low, assign_read_view, CommitNumber, CommitInMemory, RenewPurgeView, rvars
  <2>2. ViewOK(m_view) /\ m_view.creator = 0
    BY DEF RInv
  <2> QED
    BY <1>1, <2>1, <2>2, RenewedView
<1>7. ViewOK(m_view)' /\ m_view'.creator = 0
  <2>1. PICK v \in View : v = m_view' /\ ViewOK(v) /\ v.creator = 0
    BY <1>6
  <2>2. ViewOK(v)'
    BY <2>1, ViewKept
  <2> QED
    BY <2>1, <2>2 DEF ViewOK, WellFormed, HidesActive, LogsBelowSeen, Sees
<1> QED
  BY <1>5, <1>7

\* The order of the list stays the order of what the views see.
LEMMA OrderKept ==
  ASSUME RInv, [RNext]_rvars
  PROVE  OlderSeesLess'
<1>1. m_view_list \in Seq(View) /\ DOMAIN m_view_list = 1 .. Len(m_view_list)
      /\ Len(m_view_list) \in Nat
  BY DEF RInv, TypeOKR
<1> DEFINE Less(w, v) == \A id \in TrxIds : Sees(w, id) /\ id # w.creator => Sees(v, id)
<1>2. \A i, j \in DOMAIN m_view_list : i < j => Less(m_view_list[j], m_view_list[i])
  BY DEF RInv, OlderSeesLess
<1>3. \A c \in Clients : assign_read_view(c) =>
        \A j \in DOMAIN m_view_list : Less(m_view_list[j], read_view_open_now(trx[c].id))
  <2> TAKE c \in Clients
  <2> HAVE assign_read_view(c)
  <2> TAKE j \in DOMAIN m_view_list
  <2> TAKE id \in TrxIds
  <2> HAVE Sees(m_view_list[j], id) /\ id # m_view_list[j].creator
  <2>1. IsActive(c) /\ m_view_list[j] \in View /\ ViewOK(m_view_list[j])
    BY <1>1 DEF assign_read_view, RInv
  <2> QED
    BY <2>1, NewestSeesMost
<1>4. SUFFICES \A i, j \in DOMAIN m_view_list' : i < j => Less(m_view_list'[j], m_view_list'[i])
  <2>1. ASSUME NEW i \in DOMAIN m_view_list', NEW j \in DOMAIN m_view_list',
               Less(m_view_list'[j], m_view_list'[i]), NEW id \in TrxIds
        PROVE  (Sees(m_view_list[j], id) /\ id # m_view_list[j].creator => Sees(m_view_list[i], id))'
    BY <2>1 DEF Sees
  <2> QED
    BY <2>1 DEF OlderSeesLess
<1> HIDE DEF Less
<1>5. SUFFICES ASSUME NEW i \in DOMAIN m_view_list', NEW j \in DOMAIN m_view_list', i < j
               PROVE  Less(m_view_list'[j], m_view_list'[i])
  OBVIOUS
<1>6. ASSUME NEW c \in Clients, assign_read_view(c),
             DOMAIN m_view_list' = 1 .. Len(m_view_list) + 1,
             m_view_list'[1] = read_view_open_now(trx[c].id),
             \A k \in 2 .. Len(m_view_list) + 1 :
               k - 1 \in DOMAIN m_view_list /\ m_view_list'[k] = m_view_list[k - 1]
      PROVE  Less(m_view_list'[j], m_view_list'[i])
  <2>1. j \in 2 .. Len(m_view_list) + 1 /\ (i = 1 \/ i \in 2 .. Len(m_view_list) + 1)
        /\ i - 1 < j - 1
    BY <1>1, <1>5, <1>6
  <2> QED
    BY <1>2, <1>3, <1>6, <2>1
<1>7. ASSUME NEW m \in DOMAIN m_view_list,
             DOMAIN m_view_list' = 1 .. Len(m_view_list) - 1,
             \A n \in DOMAIN m_view_list' :
               LET k == IF n < m THEN n ELSE n + 1
               IN  k \in DOMAIN m_view_list /\ m_view_list'[n] = m_view_list[k]
      PROVE  Less(m_view_list'[j], m_view_list'[i])
  <2> DEFINE K(n) == IF n < m THEN n ELSE n + 1
  <2>1. K(i) < K(j)
    BY <1>1, <1>5, <1>7
  <2>2. /\ K(i) \in DOMAIN m_view_list /\ m_view_list'[i] = m_view_list[K(i)]
        /\ K(j) \in DOMAIN m_view_list /\ m_view_list'[j] = m_view_list[K(j)]
    BY <1>5, <1>7
  <2> HIDE DEF K
  <2> QED
    BY <1>2, <2>1, <2>2
<1>8. CASE m_view_list' = m_view_list
  BY <1>2, <1>5, <1>8
<1> QED
  BY <1>6, <1>7, <1>8, ListSteps

\* The purge view keeps seeing no more than the open views.
LEMMA PurgeKept ==
  ASSUME RInv, [RNext]_rvars
  PROVE  PurgeSeesLess'
<1>1. m_view_list \in Seq(View) /\ DOMAIN m_view_list = 1 .. Len(m_view_list)
      /\ Len(m_view_list) \in Nat /\ m_view \in View /\ ViewOK(m_view) /\ m_view.creator = 0
  BY DEF RInv, TypeOKR
<1> DEFINE Less(w, v) == \A id \in TrxIds : Sees(w, id) => Sees(v, id)
<1>2. \A i \in DOMAIN m_view_list : Less(m_view, m_view_list[i])
  BY DEF RInv, PurgeSeesLess
<1>3. \A c \in Clients : assign_read_view(c) => Less(m_view, read_view_open_now(trx[c].id))
  <2> TAKE c \in Clients
  <2> HAVE assign_read_view(c)
  <2> TAKE id \in TrxIds
  <2> HAVE Sees(m_view, id)
  <2>1. IsActive(c) /\ id # m_view.creator
    BY <1>1, IdAssumption DEF assign_read_view, TrxIds
  <2> QED
    BY <1>1, <2>1, NewestSeesMost
<1>4. RenewPurgeView => \A i \in DOMAIN m_view_list : Less(m_view', m_view_list[i])
  BY RenewedView DEF RenewPurgeView
<1>5. SUFFICES \A i \in DOMAIN m_view_list' : Less(m_view', m_view_list'[i])
  <2>1. ASSUME NEW i \in DOMAIN m_view_list', Less(m_view', m_view_list'[i]), NEW id \in TrxIds
        PROVE  (Sees(m_view, id) => Sees(m_view_list[i], id))'
    BY <2>1 DEF Sees
  <2> QED
    BY <2>1 DEF PurgeSeesLess
<1> HIDE DEF Less
<1>6. ASSUME NEW c \in Clients, assign_read_view(c),
             DOMAIN m_view_list' = 1 .. Len(m_view_list) + 1,
             m_view_list'[1] = read_view_open_now(trx[c].id),
             \A k \in 2 .. Len(m_view_list) + 1 :
               k - 1 \in DOMAIN m_view_list /\ m_view_list'[k] = m_view_list[k - 1]
      PROVE  \A i \in DOMAIN m_view_list' : Less(m_view', m_view_list'[i])
  <2> TAKE i \in DOMAIN m_view_list'
  <2>1. i = 1 \/ i \in 2 .. Len(m_view_list) + 1
    BY <1>1, <1>6
  <2>2. m_view' = m_view
    BY <1>6 DEF assign_read_view
  <2> QED
    BY <1>2, <1>3, <1>6, <2>1, <2>2
<1>7. CASE m_view_list' = m_view_list
  <2>1. m_view' = m_view \/ RenewPurgeView
    BY DEF RNext, start_low, assign_read_view, CommitNumber, CommitInMemory, rvars
  <2> QED
    BY <1>2, <1>4, <1>7, <2>1
<1> QED
  BY <1>2, <1>6, <1>7, ListSteps

-----------------------------------------------------------------------------
(* The theorems.                                                           *)

\* Server start: no transaction, no view, an empty history list.
LEMMA InitGood == RInit => RInv
<1> SUFFICES ASSUME RInit  PROVE RInv
  OBVIOUS
<1>1. m_view \in View /\ ViewOK(m_view) /\ m_view.creator = 0
  BY IdAssumption DEF RInit, View, TrxIds, ViewOK, WellFormed, HidesActive, LogsBelowSeen,
                      IsActive, NotStarted
<1>2. TypeOKR
  <2>1. NotStarted \in [state: {"not_started", "active"}, id: 0 .. MaxTrxId, no: 1 .. LsnMax]
    BY IdAssumption DEF NotStarted, LsnMax
  <2>2. m_max_trx_id \in TrxIds
    BY IdAssumption DEF RInit, TrxIds
  <2> QED
    BY <1>1, <2>1, <2>2 DEF RInit, TypeOKR
<1>3. IdsUnique /\ LogsNumbered /\ OlderSeesLess /\ PurgeSeesLess
  BY DEF RInit, IdsUnique, LogsNumbered, OlderSeesLess, PurgeSeesLess, IsActive, NotStarted
<1> QED
  BY <1>1, <1>2, <1>3 DEF RInit, RInv

\* Each critical section keeps the invariant.
LEMMA StepGood == RInv /\ [RNext]_rvars => RInv'
  BY TypesKept, IdsKept, LogsKept, ViewsKept, OrderKept, PurgeKept DEF RInv

\* The inductive invariant holds in every reachable state.
THEOREM RInvariant == RSpec => []RInv
  BY InitGood, StepGood, PTL DEF RSpec

\* The purge view sees nothing that an open view does not see
\* (read_view_oldest_copy_or_open_new), for every history of starts,
\* commits and renewals.
THEOREM PurgeViewOldest == RSpec => []PurgeViewIsOldest
<1>1. RInv => PurgeViewIsOldest
  <2> SUFFICES ASSUME RInv, NEW i \in DOMAIN m_view_list, NEW id \in TrxIds,
                      read_view_sees_trx_id(m_view, id)
               PROVE  read_view_sees_trx_id(m_view_list[i], id)
    BY DEF PurgeViewIsOldest, Views
  <2>1. m_view \in View /\ WellFormed(m_view) /\ m_view_list[i] \in View /\ WellFormed(m_view_list[i])
    BY DEF RInv, TypeOKR, ViewOK
  <2>2. Sees(m_view_list[i], id)
    BY <2>1, SeesMeaning DEF RInv, PurgeSeesLess
  <2> QED
    BY <2>1, <2>2, SeesMeaning
<1> QED
  BY <1>1, RInvariant, PTL

\* FACT C of read0read.cc: the logs that purge may handle belong to
\* transactions that the purge view and every open view see.
THEOREM FactCHolds == RSpec => []FactC
<1>1. RInv => FactC
  <2> SUFFICES ASSUME RInv, NEW i \in DOMAIN history, history[i].no < m_view.low_limit_no
               PROVE  /\ read_view_sees_trx_id(m_view, history[i].id)
                      /\ \A k \in DOMAIN m_view_list :
                           read_view_sees_trx_id(m_view_list[k], history[i].id)
    BY DEF FactC, Views
  <2>1. history[i].id \in TrxIds
    BY HistoryTyped DEF RInv
  <2>2. Sees(m_view, history[i].id)
    BY DEF RInv, ViewOK, LogsBelowSeen
  <2>3. m_view \in View /\ WellFormed(m_view)
    BY DEF RInv, TypeOKR, ViewOK
  <2>4. \A k \in DOMAIN m_view_list : /\ m_view_list[k] \in View /\ WellFormed(m_view_list[k])
                                      /\ Sees(m_view_list[k], history[i].id)
    BY <2>1, <2>2 DEF RInv, TypeOKR, ViewOK, PurgeSeesLess
  <2> QED
    BY <2>1, <2>2, <2>3, <2>4, SeesMeaning
<1> QED
  BY <1>1, RInvariant, PTL

-----------------------------------------------------------------------------
(* The composition.                                                        *)

\* A difference stored in an unsigned number is not negative.
LEMMA UnsignedIsNat ==
  ASSUME NEW x \in Int
  PROVE  Unsigned(x) >= 0
<1>1. 2 * IntMax + 2 \in Nat /\ 2 * IntMax + 2 > 0
  BY IdAssumption
<1> DEFINE m == 2 * IntMax + 2
<1>2. x % m \in 0 .. m - 1
  <2>1. m \in Nat /\ m > 0
    BY <1>1
  <2> HIDE DEF m
  <2> QED
    BY <2>1
<1> QED
  BY <1>1, <1>2 DEF Unsigned

\* truncate_rseg_history frees no log: the test of the oldest log always
\* stops it.
LEMMA TruncationFreesNothing ==
  ASSUME TypeOKR, NEW limit \in Int
  PROVE  truncate_rseg_history(limit) = history
<1> DEFINE T == [id: TrxIds, no: TrxIds]
           kept == {i \in DOMAIN history : Unsigned(history[i].no - limit) >= 0}
<1>1. history \in Seq(T)
  BY DEF TypeOKR
<1>2. \A i \in DOMAIN history : history[i].no - limit \in Int
  BY HistoryTyped DEF TrxIds
<1>3. kept = DOMAIN history
  BY <1>2, UnsignedIsNat
<1>4. kept = 1 .. Len(history) /\ Len(history) \in Nat
  <2> HIDE DEF T, kept
  <2> QED
    BY <1>1, <1>3
<1> HIDE DEF T, kept
<1>5. /\ kept = {} => MinOr(kept, Len(history) + 1) = Len(history) + 1
      /\ kept # {} => MinOr(kept, Len(history) + 1) \in kept
      /\ \A n \in kept : MinOr(kept, Len(history) + 1) <= n
  <2>1. kept \in SUBSET Nat /\ Len(history) + 1 \in Nat
    BY <1>4
  <2> QED
    BY <2>1, MinOrFacts
<1>6. MinOr(kept, Len(history) + 1) = 1
  <2>1. CASE Len(history) = 0
    BY <1>4, <1>5, <2>1
  <2>2. CASE Len(history) # 0
    <3>1. 1 \in kept
      BY <1>4, <2>2
    <3> QED
      BY <1>4, <1>5, <3>1
  <2> QED
    BY <2>1, <2>2
<1>7. SubSeq(history, 1, Len(history)) = history
  BY <1>1
<1> QED
  BY <1>6, <1>7 DEF truncate_rseg_history, kept

\* What choose_next_log leaves is a position of the history list.
LEMMA ChosenPosition ==
  ASSUME TypeOKR, NEW p, NEW last \in 0 .. Len(history),
         p = [f \in PurgeFields |-> p[f]], p.log \in Nat, p.trx_no \in Nat
  PROVE  LET q == choose_next_log(p, last)
         IN  /\ q = [f \in PurgeFields |-> q[f]]
             /\ q.log \in Nat /\ q.trx_no \in Nat
             /\ q.stored => q.log \in DOMAIN history
             /\ q.on = p.on /\ q.todo = p.todo /\ q.handled = p.handled
<1> DEFINE T == [id: TrxIds, no: TrxIds]
<1>1. history \in Seq(T)
  BY DEF TypeOKR
<1>2. DOMAIN history = 1 .. Len(history) /\ Len(history) \in Nat
  <2> HIDE DEF T
  <2> QED
    BY <1>1
<1>3. CASE last = 0
  BY <1>3 DEF choose_next_log, PurgeFields
<1>4. CASE last # 0
  <2>1. last \in DOMAIN history /\ last \in Nat
    BY <1>2, <1>4
  <2>2. history[last].no \in Nat
    BY <2>1, HistoryTyped DEF TrxIds
  <2> DEFINE r == MinOr(LogRecs(history[last].id, Updating), 0)
  <2>3. choose_next_log(p, last) =
          [p EXCEPT !.stored = TRUE, !.log = last, !.trx_no = history[last].no, !.rec = r]
    BY <1>4 DEF choose_next_log
  <2> HIDE DEF r
  <2> QED
    BY <2>1, <2>2, <2>3 DEF PurgeFields
<1> QED
  BY <1>3, <1>4

\* The position that a batch starts from.
LEMMA FetchablePosition ==
  ASSUME TypeOKR, PurgePositionOK
  PROVE  /\ Fetchable = [f \in PurgeFields |-> Fetchable[f]]
         /\ Fetchable.log \in Nat /\ Fetchable.trx_no \in Nat
         /\ Fetchable.stored => Fetchable.log \in DOMAIN history
<1>1. CASE purge.stored
  BY <1>1 DEF Fetchable, PurgePositionOK
<1>2. CASE ~purge.stored
  BY <1>2, ChosenPosition DEF Fetchable, PurgePositionOK
<1> QED
  BY <1>1, <1>2

\* A batch ends with the history list as it was.
LEMMA EndPurgeKeepsHistory ==
  ASSUME RInv, PurgePositionOK, EndPurge
  PROVE  /\ UNCHANGED rvars
         /\ rseg_last' = rseg_last
         /\ purge' = [Fetchable EXCEPT !.on = FALSE, !.handled = 0]
<1>1. TypeOKR
  BY DEF RInv
<1> DEFINE p == Fetchable
           left == truncate_rseg_history(TruncateLimit(p))
           gone == Len(history) - Len(left)
<1>2. /\ p = [f \in PurgeFields |-> p[f]] /\ p.log \in Nat /\ p.trx_no \in Nat
  BY <1>1, FetchablePosition
<1>3. TruncateLimit(p) \in Int
  BY <1>1, <1>2 DEF TruncateLimit, TypeOKR, View, TrxIds
<1>4. left = history
  BY <1>1, <1>3, TruncationFreesNothing
<1>5. gone = 0
  <2>1. Len(history) \in Nat
    BY <1>1 DEF TypeOKR
  <2> QED
    BY <1>4, <2>1
<1>6. /\ purge' = [p EXCEPT !.on = FALSE, !.handled = 0, !.log = IF @ > gone THEN @ - gone ELSE 0]
      /\ history' = left
      /\ rseg_last' = IF rseg_last > gone THEN rseg_last - gone ELSE 0
      /\ UNCHANGED <<m_max_trx_id, trx, m_view_list, m_view>>
  BY DEF EndPurge
<1>7. rseg_last \in Nat
  BY DEF PurgePositionOK
<1> HIDE DEF p, left, gone
<1>8. purge' = [p EXCEPT !.on = FALSE, !.handled = 0]
  <2>1. (IF p.log > gone THEN p.log - gone ELSE 0) = p.log
    BY <1>2, <1>5
  <2>2. purge' = [p EXCEPT !.on = FALSE, !.handled = 0, !.log = p.log]
    BY <1>6, <2>1
  <2> QED
    BY <1>2, <2>2 DEF PurgeFields
<1>9. rseg_last' = rseg_last
  BY <1>5, <1>6, <1>7
<1> QED
  BY <1>4, <1>6, <1>8, <1>9 DEF rvars, p

\* Every step is a step of ReadView, or leaves its variables alone.
LEMMA StepRefines ==
  ASSUME RInv, PurgePositionOK, [Next]_vars
  PROVE  [RNext]_rvars
<1>1. ASSUME NEW c \in Clients, ClientNext(c)
      PROVE  \/ start_low(c) \/ assign_read_view(c) \/ CommitNumber(c) \/ CommitInMemory(c)
             \/ UNCHANGED rvars
  <2>1. CASE Begin(c) \/ OpenView(c) \/ NumberTrx(c) \/ EndTrx(c)
    BY <2>1 DEF Begin, OpenView, NumberTrx, EndTrx
  <2>2. ASSUME NEW k \in Keys, NEW v \in Vals, InsertRow(c, k, v) \/ UpdateRow(c, k, v) \/ DeleteRow(c, k)
        PROVE  UNCHANGED rvars
    BY <2>2 DEF InsertRow, UpdateRow, DeleteRow, Write
  <2>3. ASSUME NEW k \in Keys, DeleteRow(c, k)
        PROVE  UNCHANGED rvars
    BY <2>3 DEF DeleteRow, Write
  <2>4. CASE SecMark(c) \/ SecInsert(c) \/ UndoSecRemove(c) \/ UndoSecMarkOrRemove(c) \/ UndoSecUnmark(c)
    BY <2>4 DEF SecMark, SecInsert, UndoSecRemove, UndoSecMarkOrRemove, UndoSecUnmark, SetSec
  <2>5. CASE StartRollback(c) \/ UndoNext(c) \/ UndoPop(c)
    BY <2>5 DEF StartRollback, UndoNext, UndoPop
  <2>6. CASE UndoRestore(c) \/ UndoDrop(c) \/ UndoDropMarked(c)
    BY <2>6 DEF UndoRestore, UndoDrop, UndoDropMarked, SetClust
  <2> QED
    BY <1>1, <2>1, <2>2, <2>3, <2>4, <2>5, <2>6 DEF ClientNext
<1>2. RunPurge => RenewPurgeView
  BY DEF RunPurge
<1>3. FetchRec \/ PurgeSec \/ PurgeClust => UNCHANGED rvars
  BY DEF FetchRec, PurgeSec, PurgeClust
<1>4. EndPurge => UNCHANGED rvars
  BY EndPurgeKeepsHistory
<1>5. UNCHANGED vars => UNCHANGED rvars
  BY DEF vars
<1> QED
  BY <1>1, <1>2, <1>3, <1>4, <1>5 DEF Next, RNext

\* The position of purge stays a position of the history list.
LEMMA PositionKept ==
  ASSUME RInv, PurgePositionOK, [Next]_vars
  PROVE  PurgePositionOK'
<1> DEFINE T == [id: TrxIds, no: TrxIds]
<1>1. TypeOKR /\ history \in Seq(T)
  BY DEF RInv, TypeOKR
<1>2. DOMAIN history = 1 .. Len(history) /\ Len(history) \in Nat
  <2> HIDE DEF T
  <2> QED
    BY <1>1
<1>3. CASE UNCHANGED <<purge, rseg_last, history>>
  BY <1>3 DEF PurgePositionOK
<1>4. ASSUME NEW c \in Clients, NumberTrx(c)  PROVE PurgePositionOK'
  <2> DEFINE e == [id |-> trx[c].id, no |-> m_max_trx_id]
  <2>1. history' = Append(history, e) /\ UNCHANGED purge
        /\ rseg_last' = IF rseg_last = 0 THEN Len(history') ELSE rseg_last
    BY <1>4 DEF NumberTrx, CommitNumber
  <2>2. Len(history') = Len(history) + 1 /\ DOMAIN history' = 1 .. Len(history) + 1
    <3> HIDE DEF T, e
    <3> QED
      BY <1>1, <2>1
  <2> HIDE DEF e
  <2> QED
    BY <1>2, <2>1, <2>2 DEF PurgePositionOK
<1>5. CASE RunPurge
  <2>1. purge' = [purge EXCEPT !.on = TRUE] /\ UNCHANGED <<rseg_last, history>>
    BY <1>5 DEF RunPurge, RenewPurgeView
  <2> QED
    BY <2>1 DEF PurgePositionOK, PurgeFields
<1>6. CASE PurgeSec \/ PurgeClust
  <2>1. PICK t : purge' = [purge EXCEPT !.todo = t]
    BY <1>6 DEF PurgeSec, PurgeClust
  <2>2. UNCHANGED <<rseg_last, history>>
    BY <1>6 DEF PurgeSec, PurgeClust, rvars
  <2> QED
    BY <2>1, <2>2 DEF PurgePositionOK, PurgeFields
<1>7. CASE EndPurge
  <2>1. /\ UNCHANGED <<rseg_last, history>>
        /\ purge' = [Fetchable EXCEPT !.on = FALSE, !.handled = 0]
    BY <1>7, EndPurgeKeepsHistory DEF rvars
  <2>2. /\ Fetchable = [f \in PurgeFields |-> Fetchable[f]]
        /\ Fetchable.log \in Nat /\ Fetchable.trx_no \in Nat
        /\ Fetchable.stored => Fetchable.log \in DOMAIN history
    BY <1>1, FetchablePosition
  <2> QED
    BY <2>1, <2>2 DEF PurgePositionOK, PurgeFields
<1>8. CASE FetchRec
  <2> DEFINE p == Fetchable
             log == history[p.log]
             last == NextLog(rseg_last)
  <2>1. /\ p = [f \in PurgeFields |-> p[f]] /\ p.log \in Nat /\ p.trx_no \in Nat
        /\ p.stored => p.log \in DOMAIN history
    BY <1>1, FetchablePosition
  <2>2. p.stored
    BY <1>8 DEF FetchRec, CanFetch
  <2>3. log.no \in Nat
    BY <1>1, <2>1, <2>2, HistoryTyped DEF TrxIds
  <2>4. last \in 0 .. Len(history)
    BY <1>2 DEF NextLog, PurgePositionOK
  <2>5. UNCHANGED history
    BY <1>8 DEF FetchRec, rvars
  <2>6. PICK next, ops, h :
          \/ purge' = [p EXCEPT !.rec = next, !.todo = ops] /\ UNCHANGED rseg_last
          \/ /\ rseg_last' = last
             /\ purge' = choose_next_log(
                    [p EXCEPT !.trx_no = log.no + 1, !.handled = h, !.todo = ops], last)
    BY <1>8 DEF FetchRec
  <2> HIDE DEF p, log, last
  <2>7. CASE purge' = [p EXCEPT !.rec = next, !.todo = ops] /\ UNCHANGED rseg_last
    BY <2>1, <2>5, <2>7 DEF PurgePositionOK, PurgeFields
  <2>8. ASSUME rseg_last' = last,
               purge' = choose_next_log(
                    [p EXCEPT !.trx_no = log.no + 1, !.handled = h, !.todo = ops], last)
        PROVE  PurgePositionOK'
    <3> DEFINE no == log.no + 1
               q == [p EXCEPT !.trx_no = no, !.handled = h, !.todo = ops]
    <3>0. no \in Nat
      BY <2>3
    <3>1. q = [f \in PurgeFields |-> q[f]] /\ q.log \in Nat /\ q.trx_no \in Nat
      <4> HIDE DEF no
      <4>1. q = [f \in PurgeFields |-> q[f]]
        BY <2>1 DEF PurgeFields
      <4>2. q.log = p.log /\ q.trx_no = no
        BY <2>1 DEF PurgeFields
      <4> HIDE DEF q
      <4> QED
        BY <2>1, <3>0, <4>1, <4>2
    <3>2. purge' = choose_next_log(q, last)
      BY <2>8
    <3> HIDE DEF q
    <3>3. /\ purge' = [f \in PurgeFields |-> purge'[f]]
          /\ purge'.log \in Nat /\ purge'.trx_no \in Nat
          /\ purge'.stored => purge'.log \in DOMAIN history
      BY <1>1, <2>4, <3>1, <3>2, ChosenPosition
    <3> QED
      BY <2>4, <2>5, <2>8, <3>3 DEF PurgePositionOK
  <2> QED
    BY <2>6, <2>7, <2>8
<1>9. ASSUME NEW c \in Clients, ClientNext(c), ~NumberTrx(c)
      PROVE  UNCHANGED <<purge, rseg_last, history>>
  <2>1. CASE Begin(c) \/ OpenView(c) \/ EndTrx(c)
    BY <2>1 DEF Begin, OpenView, EndTrx, start_low, assign_read_view, CommitInMemory
  <2>2. ASSUME NEW k \in Keys, NEW v \in Vals, InsertRow(c, k, v) \/ UpdateRow(c, k, v)
        PROVE  UNCHANGED <<purge, rseg_last, history>>
    BY <2>2 DEF InsertRow, UpdateRow, Write, rvars
  <2>3. ASSUME NEW k \in Keys, DeleteRow(c, k)
        PROVE  UNCHANGED <<purge, rseg_last, history>>
    BY <2>3 DEF DeleteRow, Write, rvars
  <2>4. CASE SecMark(c) \/ SecInsert(c) \/ UndoSecRemove(c) \/ UndoSecMarkOrRemove(c) \/ UndoSecUnmark(c)
    BY <2>4 DEF SecMark, SecInsert, UndoSecRemove, UndoSecMarkOrRemove, UndoSecUnmark, SetSec, rvars
  <2>5. CASE StartRollback(c) \/ UndoNext(c) \/ UndoPop(c)
    BY <2>5 DEF StartRollback, UndoNext, UndoPop, rvars
  <2>6. CASE UndoRestore(c) \/ UndoDrop(c) \/ UndoDropMarked(c)
    BY <2>6 DEF UndoRestore, UndoDrop, UndoDropMarked, SetClust, rvars
  <2> QED
    BY <1>9, <2>1, <2>2, <2>3, <2>4, <2>5, <2>6 DEF ClientNext
<1>10. CASE UNCHANGED vars
  BY <1>3, <1>10 DEF vars, rvars
<1> QED
  BY <1>3, <1>4, <1>5, <1>6, <1>7, <1>8, <1>9, <1>10 DEF Next

-----------------------------------------------------------------------------
(* The theorems.                                                           *)

\* Purge starts before any log.
LEMMA InitPosition == Init => RInit /\ PurgePositionOK
<1> SUFFICES ASSUME Init  PROVE RInit /\ PurgePositionOK
  OBVIOUS
<1>1. purge = [f \in PurgeFields |-> purge[f]] /\ purge.log = 0 /\ purge.trx_no = 0 /\ ~purge.stored
  BY DEF Init, PurgeFields
<1>2. RInit /\ rseg_last = 0 /\ Len(history) = 0
  BY DEF Init, RInit
<1> QED
  BY <1>1, <1>2 DEF PurgePositionOK

\* The composition implements ReadView: whatever rows are written, rolled
\* back or purged, transactions, views and the history list change only as
\* the critical sections of the kernel mutex let them.
THEOREM MvccRefines == Spec => RSpec /\ []RInv
<1>1. Init => RInit /\ PurgePositionOK
  BY InitPosition
<1>2. RInit => RInv
  BY InitGood
<1>3. RInv /\ PurgePositionOK /\ [Next]_vars => [RNext]_rvars
  BY StepRefines
<1>4. RInv /\ [RNext]_rvars => RInv'
  BY StepGood
<1>5. RInv /\ PurgePositionOK /\ [Next]_vars => PurgePositionOK'
  BY PositionKept
<1> QED
  BY <1>1, <1>2, <1>3, <1>4, <1>5, PTL DEF Spec, RSpec

\* Purge never takes for committed what a reader's view does not see.
THEOREM MvccPurgeViewOldest == Spec => []PurgeViewIsOldest
  BY MvccRefines, PurgeViewOldest, PTL

\* FACT C of read0read.cc, for the whole life of the rows.
THEOREM MvccFactC == Spec => []FactC
  BY MvccRefines, FactCHolds, PTL

-----------------------------------------------------------------------------
(* Records, undo logs and active transactions.                             *)

\* What a record of the clustered index may be.
LEMMA RecordFacts ==
  ASSUME NEW r \in Record
  PROVE  /\ r.trx_id \in 0 .. MaxTrxId
         /\ r.roll.ins \in BOOLEAN /\ r.del \in BOOLEAN
         /\ r.trx_id = 0 => r \in {NoRec, OldRow} /\ r.roll.ins /\ ~r.del
         /\ r.trx_id # 0 => /\ r \notin {NoRec, OldRow} /\ r.trx_id \in TrxIds /\ r.val \in Vals
                            /\ r.roll \in Pointers
         /\ r = NoRec => r.trx_id = 0 /\ r.val = 0 /\ r.roll.ins /\ ~r.del
         /\ r # NoRec => r.val \in Vals
<1>1. /\ NoRec.trx_id = 0 /\ NoRec.roll.ins = TRUE /\ NoRec.del = FALSE /\ NoRec.val = 0
  BY DEF NoRec
<1>2. /\ OldRow.trx_id = 0 /\ OldRow.roll.ins = TRUE /\ OldRow.del = FALSE /\ OldRow.val = InitialVal
  BY DEF OldRow, NoRec
<1>3. 0 \in 0 .. MaxTrxId /\ TrxIds \subseteq 0 .. MaxTrxId /\ 0 \notin TrxIds
  BY IdAssumption DEF TrxIds
<1>4. CASE r = NoRec
  BY <1>1, <1>3, <1>4
<1>5. CASE r = OldRow
  <2>1. r # NoRec
    BY <1>1, <1>2, <1>5, RowAssumption
  <2> QED
    BY <1>2, <1>3, <1>5, <2>1, RowAssumption
<1>6. CASE r \in [trx_id: TrxIds, roll: Pointers, del: BOOLEAN, val: Vals]
  <2>1. /\ r.trx_id \in TrxIds /\ r.roll \in Pointers /\ r.del \in BOOLEAN /\ r.val \in Vals
    BY <1>6
  <2>2. r.trx_id # 0 /\ r # NoRec /\ r # OldRow
    BY <1>1, <1>2, <1>3, <2>1
  <2>3. r.roll.ins \in BOOLEAN
    BY <2>1 DEF Pointers
  <2> QED
    BY <1>3, <2>1, <2>2, <2>3
<1> QED
  BY <1>4, <1>5, <1>6 DEF Record

\* The row that a record holds.
LEMMA RowTyped ==
  ASSUME NEW r \in Record
  PROVE  RowOf(r) \in Vals \cup {0}
  BY RecordFacts DEF RowOf

\* No record, and a row that was there before any transaction.
LEMMA NoRecFacts ==
  /\ NoRec \in Record /\ OldRow \in Record
  /\ NoRec.trx_id = 0 /\ OldRow.trx_id = 0 /\ RowOf(NoRec) = 0 /\ RowOf(OldRow) = InitialVal
  BY DEF Record, NoRec, OldRow, RowOf

\* The records of an undo log.
LEMMA UndoAt ==
  ASSUME undo \in [TrxIds -> Seq(UndoRec)], NEW id \in TrxIds
  PROVE  /\ undo[id] \in Seq(UndoRec)
         /\ Len(undo[id]) \in Nat
         /\ DOMAIN undo[id] = 1 .. Len(undo[id])
         /\ \A n \in DOMAIN undo[id] : /\ undo[id][n] \in UndoRec
                                       /\ undo[id][n].type \in Types
                                       /\ undo[id][n].key \in Keys
                                       /\ undo[id][n].old \in Record
<1>1. undo[id] \in Seq(UndoRec)
  OBVIOUS
<1>2. \A n \in DOMAIN undo[id] : undo[id][n] \in UndoRec
  BY <1>1
<1> QED
  BY <1>1, <1>2 DEF UndoRec

\* Active transactions have ids of their own below the counter.
LEMMA ActiveFacts ==
  ASSUME RInv
  PROVE  /\ ActiveIds \subseteq TrxIds
         /\ \A id \in ActiveIds : id < m_max_trx_id /\ id # 0
         /\ \A c \in Clients : IsActive(c) => trx[c].id \in ActiveIds /\ trx[c].id \in TrxIds
         /\ \A id \in ActiveIds : \E c \in Clients : IsActive(c) /\ trx[c].id = id
         /\ \A c, d \in Clients : IsActive(c) /\ IsActive(d) /\ c # d => trx[c].id # trx[d].id
<1>1. \A c \in Clients : IsActive(c) => trx[c].id \in TrxIds /\ trx[c].id < m_max_trx_id /\ trx[c].id # 0
  <2> SUFFICES ASSUME NEW c \in Clients, IsActive(c)
               PROVE  trx[c].id \in TrxIds /\ trx[c].id < m_max_trx_id /\ trx[c].id # 0
    OBVIOUS
  <2>1. 0 < trx[c].id /\ trx[c].id < m_max_trx_id
    BY DEF RInv, IdsUnique
  <2>2. trx[c].id \in 0 .. MaxTrxId
    BY DEF RInv, TypeOKR
  <2> QED
    BY <2>1, <2>2, IdAssumption DEF TrxIds
<1>2. \A c, d \in Clients : IsActive(c) /\ IsActive(d) /\ c # d => trx[c].id # trx[d].id
  BY DEF RInv, IdsUnique
<1> QED
  BY <1>1, <1>2 DEF ActiveIds

\* The purge view sees no active transaction.
LEMMA PurgeSeesNoActive ==
  ASSUME RInv, NEW id \in ActiveIds
  PROVE  ~Sees(m_view, id)
<1>1. PICK c \in Clients : IsActive(c) /\ trx[c].id = id
  BY ActiveFacts
<1>2. id # 0
  BY ActiveFacts
<1>3. HidesActive(m_view) /\ m_view.creator = 0
  BY DEF RInv, ViewOK
<1> QED
  BY <1>1, <1>2, <1>3 DEF HidesActive

\* Every open view hides the active transactions, and purge sees nothing
\* that a view hides.
LEMMA HiddenFacts ==
  ASSUME RInv, NEW i \in DOMAIN m_view_list
  PROVE  /\ ActiveIds \subseteq Hidden(m_view_list[i])
         /\ Hidden(m_view_list[i]) \subseteq TrxIds
         /\ \A id \in TrxIds : Sees(m_view, id) /\ m_view_list[i].creator \in ActiveIds
                                  => id \notin Hidden(m_view_list[i])
<1>1. ActiveIds \subseteq Hidden(m_view_list[i])
  <2> SUFFICES ASSUME NEW id \in ActiveIds  PROVE id \in Hidden(m_view_list[i])
    OBVIOUS
  <2>1. PICK c \in Clients : IsActive(c) /\ trx[c].id = id
    BY ActiveFacts
  <2>2. HidesActive(m_view_list[i])
    BY DEF RInv, ViewOK
  <2> QED
    BY <2>1, <2>2, ActiveFacts DEF HidesActive, Hidden
<1>2. ASSUME NEW id \in TrxIds, Sees(m_view, id), m_view_list[i].creator \in ActiveIds
      PROVE  id \notin Hidden(m_view_list[i])
  <2>1. Sees(m_view_list[i], id)
    BY <1>2 DEF RInv, PurgeSeesLess
  <2>2. id \notin ActiveIds
    BY <1>2, PurgeSeesNoActive
  <2> QED
    BY <1>2, <2>1, <2>2 DEF Hidden
<1> QED
  BY <1>1, <1>2 DEF Hidden

-----------------------------------------------------------------------------
(* The number of undo records.                                             *)

\* An undo record is a pair of a transaction id and a number.
LEMMA UndoRecsMeaning ==
  ASSUME NEW id, NEW n
  PROVE  <<id, n>> \in UndoRecs <=> id \in TrxIds /\ n \in DOMAIN undo[id]
  BY DEF UndoRecs

\* There are finitely many, and no log is longer than all of them.
LEMMA UndoRecsFinite ==
  ASSUME undo \in [TrxIds -> Seq(UndoRec)], NEW b \in Nat, \A id \in TrxIds : Len(undo[id]) <= b
  PROVE  /\ IsFiniteSet(UndoRecs) /\ Cardinality(UndoRecs) \in Nat
         /\ \A id \in TrxIds : Len(undo[id]) <= Cardinality(UndoRecs)
<1>1. \A id \in TrxIds : DOMAIN undo[id] = 1 .. Len(undo[id]) /\ Len(undo[id]) \in Nat
  BY UndoAt
<1>2. UndoRecs \subseteq TrxIds \X (1 .. b)
  BY <1>1 DEF UndoRecs
<1>3. IsFiniteSet(TrxIds) /\ IsFiniteSet(1 .. b)
  BY FS_Interval, IdAssumption DEF TrxIds
<1>4. IsFiniteSet(TrxIds \X (1 .. b))
  BY <1>3, FS_Product
<1>5. IsFiniteSet(UndoRecs)
  BY <1>2, <1>4, FS_Subset
<1>6. Cardinality(UndoRecs) \in Nat
  BY <1>5, FS_CardinalityType
<1>7. ASSUME NEW id \in TrxIds  PROVE Len(undo[id]) <= Cardinality(UndoRecs)
  <2>1. PICK l \in Nat : l = Len(undo[id])
    BY <1>1
  <2> DEFINE f == [n \in 1 .. l |-> <<id, n>>]
  <2>2. f \in Injection(1 .. l, UndoRecs)
    <3>1. \A n \in 1 .. l : <<id, n>> \in UndoRecs
      BY <1>1, <2>1, UndoRecsMeaning
    <3> QED
      BY <3>1 DEF Injection, IsInjective
  <2>3. Cardinality(1 .. l) <= Cardinality(UndoRecs)
    BY <1>5, <2>2, FS_Injection
  <2>4. Cardinality(1 .. l) = l
    BY FS_Interval
  <2> QED
    BY <2>1, <2>3, <2>4
<1> QED
  BY <1>5, <1>6, <1>7

-----------------------------------------------------------------------------
(* What the steps of a row operation, a rollback and purge change.         *)

\* A row operation appends one record to the undo log of its transaction,
\* and puts a new version in front of the one that the record holds.
LEMMA WriteFacts ==
  ASSUME RInv, TypesOK, UndoBounded, NEW c \in Clients, NEW k \in Keys, CanWrite(c, k),
         NEW type \in Types, NEW del \in BOOLEAN, NEW val \in Vals, NEW todo,
         Write(c, k, type, del, val, todo),
         NEW id, id = trx[c].id, NEW n, n = Len(undo[id]) + 1
  PROVE  /\ id \in ActiveIds /\ id \in TrxIds /\ n \in 1 .. MaxUndo /\ n \notin DOMAIN undo[id]
         /\ clust' = [clust EXCEPT ![k] = [trx_id |-> id, del |-> del, val |-> val,
                         roll |-> [trx |-> id, n |-> n, ins |-> type = "insert"]]]
         /\ undo' \in [TrxIds -> Seq(UndoRec)]
         /\ DOMAIN undo'[id] = 1 .. n
         /\ undo'[id][n] = [type |-> type, key |-> k, old |-> clust[k]]
         /\ \A j \in TrxIds : \A m \in DOMAIN undo[j] :
                m \in DOMAIN undo'[j] /\ undo'[j][m] = undo[j][m]
         /\ \A j \in TrxIds : \A m \in DOMAIN undo'[j] :
                m \in DOMAIN undo[j] \/ (j = id /\ m = n)
         /\ UNCHANGED <<rvars, purge, committed, snap>>
<1>1. IsActive(c)
  BY DEF CanWrite
<1>2. id \in ActiveIds /\ id \in TrxIds
  BY <1>1, ActiveFacts
<1>3. undo \in [TrxIds -> Seq(UndoRec)] /\ clust \in [Keys -> Record]
  BY DEF TypesOK
<1> DEFINE u == [type |-> type, key |-> k, old |-> clust[k]]
<1>4. u \in UndoRec
  BY <1>3 DEF UndoRec
<1>5. undo' = [undo EXCEPT ![id] = Append(@, u)]
  BY DEF Write
<1>6. PICK l \in Nat : l = Len(undo[id])
  BY <1>2, <1>3, UndoAt
<1>7. l < MaxUndo
  <2>1. MaxUndo \in Nat
    BY RowAssumption
  <2>2. l <= Cardinality(UndoRecs) /\ Cardinality(UndoRecs) \in Nat
    BY <1>2, <1>3, <1>6, <2>1, UndoRecsFinite DEF UndoBounded
  <2> QED
    BY <2>1, <2>2 DEF CanWrite
<1>8. n = l + 1 /\ n \in 1 .. MaxUndo
  BY <1>6, <1>7, RowAssumption
<1> HIDE DEF u
<1>9. /\ undo'[id] = Append(undo[id], u)
      /\ \A j \in TrxIds \ {id} : undo'[j] = undo[j]
  BY <1>2, <1>3, <1>5
<1>10. /\ undo[id] \in Seq(UndoRec) /\ DOMAIN undo[id] = 1 .. l
  BY <1>2, <1>3, <1>6, UndoAt
<1>11. /\ undo'[id] \in Seq(UndoRec) /\ DOMAIN undo'[id] = 1 .. n
       /\ undo'[id][n] = u
       /\ \A m \in 1 .. l : undo'[id][m] = undo[id][m]
  BY <1>4, <1>6, <1>8, <1>9, <1>10
<1>12. undo' \in [TrxIds -> Seq(UndoRec)]
  BY <1>2, <1>3, <1>5, <1>9, <1>11
<1>13. \A j \in TrxIds : \A m \in DOMAIN undo[j] :
           m \in DOMAIN undo'[j] /\ undo'[j][m] = undo[j][m]
  <2> SUFFICES ASSUME NEW j \in TrxIds, NEW m \in DOMAIN undo[j]
               PROVE  m \in DOMAIN undo'[j] /\ undo'[j][m] = undo[j][m]
    OBVIOUS
  <2>1. CASE j = id
    BY <1>8, <1>10, <1>11, <2>1
  <2> QED
    BY <1>9, <2>1
<1>14. \A j \in TrxIds : \A m \in DOMAIN undo'[j] :
           m \in DOMAIN undo[j] \/ (j = id /\ m = n)
  <2> SUFFICES ASSUME NEW j \in TrxIds, NEW m \in DOMAIN undo'[j], ~(j = id /\ m = n)
               PROVE  m \in DOMAIN undo[j]
    OBVIOUS
  <2>1. CASE j = id
    BY <1>8, <1>10, <1>11, <2>1
  <2> QED
    BY <1>9, <2>1
<1>15. n \notin DOMAIN undo[id]
  BY <1>8, <1>10
<1>16. clust' = [clust EXCEPT ![k] = [trx_id |-> id, del |-> del, val |-> val,
                         roll |-> [trx |-> id, n |-> n, ins |-> type = "insert"]]]
  BY DEF Write
<1>17. UNCHANGED <<rvars, purge, committed, snap>>
  BY DEF Write, ghosts
<1> QED
  BY <1>2, <1>8, <1>11, <1>12, <1>13, <1>14, <1>15, <1>16, <1>17 DEF u

\* What a row operation on record r of key k has left to do in the secondary
\* index: the entry of the old row is marked, the one of the new row inserted.
RowList(k, r, del, val, todo) ==
  /\ \A i \in DOMAIN todo : /\ todo[i].key = k
                            /\ todo[i].op = "mark" => todo[i].val = RowOf(r)
                            /\ todo[i].op = "insert" => todo[i].val = val /\ ~del
  /\ ~del => Has(todo, {"insert"})
  /\ RowOf(r) # 0 => HasOp(todo, "mark", RowOf(r))
  /\ \A i, j \in DOMAIN todo : i < j => todo[i].op = "mark" /\ todo[j].op = "insert"

\* A row operation on key k that writes an undo record of the given type.
RowStep(c, k, type, del, val, todo) ==
  /\ CanWrite(c, k)
  /\ type \in Types /\ del \in BOOLEAN /\ val \in Vals
  /\ type = "insert" <=> clust[k] = NoRec
  /\ type = "upd_del" <=> clust[k].del
  /\ type = "del_mark" <=> del
  /\ todo \in Seq(RowOp) /\ todo # << >>
  /\ \A i \in DOMAIN todo : todo[i].op \in {"mark", "insert"} /\ todo[i].val \in Vals
  /\ RowList(k, clust[k], del, val, todo)
  /\ Write(c, k, type, del, val, todo)

\* Inserts, updates and delete markings are such operations.
LEMMA RowSteps ==
  ASSUME TypesOK, NEW c \in Clients, NEW k \in Keys, NEW v \in Vals,
         InsertRow(c, k, v) \/ UpdateRow(c, k, v) \/ DeleteRow(c, k)
  PROVE  \E type, del, val, todo : RowStep(c, k, type, del, val, todo)
<1>1. clust[k] \in Record
  BY DEF TypesOK
<1>2. /\ clust[k] = NoRec => ~clust[k].del
      /\ clust[k] # NoRec => clust[k].val \in Vals
      /\ clust[k].del \in BOOLEAN
      /\ RowOf(clust[k]) = IF clust[k] = NoRec \/ clust[k].del THEN 0 ELSE clust[k].val
  BY <1>1, RecordFacts DEF RowOf
<1>3. ASSUME NEW w \in Vals
      PROVE  Op("insert", k, w) \in RowOp /\ Op("mark", k, w) \in RowOp
  BY <1>3 DEF Op, RowOp, SecOps
<1>4. ASSUME NEW w \in Vals
      PROVE  /\ Op("insert", k, w).op = "insert" /\ Op("insert", k, w).val = w /\ Op("insert", k, w).key = k
             /\ Op("mark", k, w).op = "mark" /\ Op("mark", k, w).val = w /\ Op("mark", k, w).key = k
  BY DEF Op
<1>5. CASE InsertRow(c, k, v)
  <2> DEFINE o == Op("insert", k, v)
             todo == <<o>>
  <2>1. o \in RowOp /\ o.op = "insert" /\ o.val = v /\ o.key = k
    BY <1>3, <1>4
  <2>2. CanWrite(c, k)
    BY <1>5 DEF InsertRow
  <2>3. \/ clust[k] = NoRec /\ Write(c, k, "insert", FALSE, v, todo)
        \/ clust[k].del /\ Write(c, k, "upd_del", FALSE, v, todo)
    BY <1>5 DEF InsertRow
  <2> HIDE DEF o
  <2>4. todo \in Seq(RowOp) /\ todo # << >>
        /\ \A i \in DOMAIN todo : todo[i].op \in {"mark", "insert"} /\ todo[i].val \in Vals
    BY <2>1
  <2>5. RowOf(clust[k]) = 0
    BY <1>2, <2>3
  <2>6. RowList(k, clust[k], FALSE, v, todo)
    <3>1. todo[1] = o /\ DOMAIN todo = {1}
      OBVIOUS
    <3> HIDE DEF todo
    <3>2. Has(todo, {"insert"})
      BY <2>1, <3>1 DEF Has
    <3> QED
      BY <2>1, <2>5, <3>1, <3>2 DEF RowList
  <2> HIDE DEF todo
  <2>7. CASE clust[k] = NoRec /\ Write(c, k, "insert", FALSE, v, todo)
    <3>1. RowStep(c, k, "insert", FALSE, v, todo)
      BY <1>2, <2>2, <2>4, <2>7, <2>6 DEF RowStep, Types
    <3> QED
      BY <3>1
  <2>8. CASE clust[k].del /\ Write(c, k, "upd_del", FALSE, v, todo)
    <3>1. RowStep(c, k, "upd_del", FALSE, v, todo)
      BY <1>2, <2>2, <2>4, <2>8, <2>6 DEF RowStep, Types
    <3> QED
      BY <3>1
  <2> QED
    BY <2>3, <2>7, <2>8
<1>6. CASE UpdateRow(c, k, v)
  <2> DEFINE o1 == Op("mark", k, clust[k].val)
             o2 == Op("insert", k, v)
             todo == <<o1, o2>>
  <2>1. /\ CanWrite(c, k) /\ clust[k] # NoRec /\ ~clust[k].del
        /\ Write(c, k, "upd_exist", FALSE, v, todo)
    BY <1>6 DEF UpdateRow
  <2>2. o1 \in RowOp /\ o1.op = "mark" /\ o1.val \in Vals /\ o2 \in RowOp /\ o2.op = "insert" /\ o2.val \in Vals
        /\ o1.key = k /\ o2.key = k /\ o1.val = clust[k].val /\ o2.val = v
    BY <1>2, <1>3, <1>4, <2>1
  <2> HIDE DEF o1, o2
  <2>3. todo \in Seq(RowOp) /\ todo # << >>
        /\ \A i \in DOMAIN todo : todo[i].op \in {"mark", "insert"} /\ todo[i].val \in Vals
    BY <2>2
  <2>4. RowList(k, clust[k], FALSE, v, todo)
    BY <1>2, <2>1, <2>2 DEF RowList, Has, HasOp
  <2> HIDE DEF todo
  <2>5. RowStep(c, k, "upd_exist", FALSE, v, todo)
    BY <2>1, <2>3, <2>4 DEF RowStep, Types
  <2> QED
    BY <2>5
<1>7. CASE DeleteRow(c, k)
  <2> DEFINE o == Op("mark", k, clust[k].val)
             todo == <<o>>
  <2>1. /\ CanWrite(c, k) /\ clust[k] # NoRec /\ ~clust[k].del
        /\ Write(c, k, "del_mark", TRUE, clust[k].val, todo)
    BY <1>7 DEF DeleteRow
  <2>2. o \in RowOp /\ o.op = "mark" /\ o.val \in Vals /\ clust[k].val \in Vals /\ o.key = k /\ o.val = clust[k].val
    BY <1>2, <1>3, <1>4, <2>1
  <2> HIDE DEF o
  <2>3. todo \in Seq(RowOp) /\ todo # << >>
        /\ \A i \in DOMAIN todo : todo[i].op \in {"mark", "insert"} /\ todo[i].val \in Vals
    BY <2>2
  <2>4. RowList(k, clust[k], TRUE, clust[k].val, todo)
    BY <1>2, <2>1, <2>2 DEF RowList, HasOp
  <2> HIDE DEF todo
  <2>5. RowStep(c, k, "del_mark", TRUE, clust[k].val, todo)
    BY <2>1, <2>2, <2>3, <2>4 DEF RowStep, Types
  <2> QED
    BY <2>5
<1> QED
  BY <1>5, <1>6, <1>7

\* No undo record is added, and the ones that stay are as they were.
UndoShrinks ==
  /\ undo' \in [TrxIds -> Seq(UndoRec)]
  /\ \A j \in TrxIds :
       /\ Len(undo'[j]) <= Len(undo[j])
       /\ \A m \in DOMAIN undo'[j] : m \in DOMAIN undo[j] /\ undo'[j][m] = undo[j][m]

\* The last step of undoing a record removes it.
LEMMA PopFacts ==
  ASSUME RInv, TypesOK, TodoOK, NEW c \in Clients, UndoPop(c)
  PROVE  /\ IsActive(c) /\ UndoShrinks
         /\ undo[trx[c].id] # << >> => Len(undo[trx[c].id]) > 0
         /\ \A j \in TrxIds : \A m \in DOMAIN undo[j] :
                j # trx[c].id \/ m # Len(undo[trx[c].id]) => m \in DOMAIN undo'[j]
         /\ Len(undo[trx[c].id]) \notin DOMAIN undo'[trx[c].id]
         /\ UNCHANGED <<rvars, clust, sec, max_trx_id, rseg_last, purge, stopped, committed, snap>>
<1>1. work[c].todo # << >>
  BY DEF UndoPop, Doing
<1>2. IsActive(c)
  BY <1>1 DEF TodoOK, WorkOK
<1>3. PICK id \in TrxIds : id = trx[c].id
  BY <1>2, ActiveFacts
<1>4. undo \in [TrxIds -> Seq(UndoRec)]
  BY DEF TypesOK
<1>5. PICK l \in Nat : l = Len(undo[id])
  BY <1>4, UndoAt
<1>6. undo[id] \in Seq(UndoRec) /\ DOMAIN undo[id] = 1 .. l
  BY <1>4, <1>5, UndoAt
<1>7. undo' = [undo EXCEPT ![id] = SubSeq(@, 1, Len(@) - 1)]
  BY <1>3 DEF UndoPop
<1>8. undo'[id] = SubSeq(undo[id], 1, l - 1) /\ \A j \in TrxIds \ {id} : undo'[j] = undo[j]
  BY <1>4, <1>5, <1>7
<1>9. /\ undo'[id] \in Seq(UndoRec) /\ Len(undo'[id]) = (IF l = 0 THEN 0 ELSE l - 1)
      /\ DOMAIN undo'[id] = 1 .. l - 1
      /\ \A m \in 1 .. l - 1 : undo'[id][m] = undo[id][m]
  BY <1>5, <1>6, <1>8
<1>10. undo' \in [TrxIds -> Seq(UndoRec)]
  BY <1>4, <1>7, <1>8, <1>9
<1>11. \A j \in TrxIds : Len(undo[j]) \in Nat
  BY <1>4, UndoAt
<1>12. UndoShrinks
  <2> SUFFICES ASSUME NEW j \in TrxIds
               PROVE  /\ Len(undo'[j]) <= Len(undo[j])
                      /\ \A m \in DOMAIN undo'[j] : m \in DOMAIN undo[j] /\ undo'[j][m] = undo[j][m]
    BY <1>10 DEF UndoShrinks
  <2>1. CASE j = id
    BY <1>5, <1>6, <1>9, <2>1
  <2>2. CASE j # id
    BY <1>8, <1>11, <2>2
  <2> QED
    BY <2>1, <2>2
<1>13. \A j \in TrxIds : \A m \in DOMAIN undo[j] : j # id \/ m # l => m \in DOMAIN undo'[j]
  <2> SUFFICES ASSUME NEW j \in TrxIds, NEW m \in DOMAIN undo[j], j # id \/ m # l
               PROVE  m \in DOMAIN undo'[j]
    OBVIOUS
  <2>1. CASE j = id
    BY <1>6, <1>9, <2>1
  <2>2. CASE j # id
    BY <1>8, <2>2
  <2> QED
    BY <2>1, <2>2
<1>14. l \notin DOMAIN undo'[id]
  BY <1>9
<1>15. undo[id] # << >> => l > 0
  BY <1>5, <1>6
<1>16. UNCHANGED <<rvars, clust, sec, max_trx_id, rseg_last, purge, stopped, committed, snap>>
  BY DEF UndoPop, rows, ghosts
<1> QED
  BY <1>2, <1>3, <1>5, <1>12, <1>13, <1>14, <1>15, <1>16

\* The end of a transaction frees its undo log, or leaves it to purge.
LEMMA EndTrxFacts ==
  ASSUME RInv, TypesOK, NEW c \in Clients, EndTrx(c), NEW id, id = trx[c].id
  PROVE  /\ IsActive(c) /\ id \in TrxIds /\ UndoShrinks
         /\ \A j \in TrxIds : j # id \/ work[c].upd => undo'[j] = undo[j]
         /\ ~work[c].upd => undo'[id] = << >>
         /\ ActiveIds' = ActiveIds \ {id}
         /\ \A d \in Clients : IsActive(d)' <=> IsActive(d) /\ d # c
         /\ \A d \in Clients \ {c} : trx'[d] = trx[d] /\ work'[d] = work[d]
         /\ work'[c] = Idle
         /\ UNCHANGED <<m_max_trx_id, m_view, history, clust, sec, max_trx_id, rseg_last, purge, stopped>>
<1>1. CommitInMemory(c) /\ IsActive(c)
  BY DEF EndTrx, CommitInMemory
<1>2. id \in TrxIds
  BY <1>1, ActiveFacts
<1>3. undo \in [TrxIds -> Seq(UndoRec)]
  BY DEF TypesOK
<1>4. /\ undo' = [undo EXCEPT ![id] = IF work[c].upd THEN @ ELSE << >>]
      /\ work' = [work EXCEPT ![c] = Idle]
      /\ UNCHANGED <<clust, sec, max_trx_id, rseg_last, purge, stopped>>
  BY DEF EndTrx, rows
<1>5. /\ \A j \in TrxIds : j # id \/ work[c].upd => undo'[j] = undo[j]
      /\ ~work[c].upd => undo'[id] = << >>
      /\ undo' \in [TrxIds -> Seq(UndoRec)]
  BY <1>2, <1>3, <1>4
<1>6. UndoShrinks
  <2> SUFFICES ASSUME NEW j \in TrxIds
               PROVE  /\ Len(undo'[j]) <= Len(undo[j])
                      /\ \A m \in DOMAIN undo'[j] : m \in DOMAIN undo[j] /\ undo'[j][m] = undo[j][m]
    BY <1>5 DEF UndoShrinks
  <2>1. Len(undo[j]) \in Nat
    BY <1>3, UndoAt
  <2>2. CASE undo'[j] = undo[j]
    BY <2>1, <2>2
  <2>3. CASE undo'[j] = << >>
    <3>1. Len(undo'[j]) = 0 /\ DOMAIN undo'[j] = {}
      BY <2>3
    <3> QED
      BY <2>1, <3>1
  <2> QED
    BY <1>5, <2>2, <2>3
<1>7. trx \in [Clients -> [state: {"not_started", "active"}, id: 0 .. MaxTrxId, no: 1 .. LsnMax]]
  BY DEF RInv, TypeOKR
<1>8. trx' = [trx EXCEPT ![c] = NotStarted] /\ UNCHANGED <<m_max_trx_id, m_view, history>>
  BY <1>1 DEF CommitInMemory
<1>9. /\ trx'[c].state = "not_started"
      /\ \A d \in Clients \ {c} : trx'[d] = trx[d]
  BY <1>7, <1>8 DEF NotStarted
<1>10. /\ work'[c] = Idle
       /\ \A d \in Clients \ {c} : work'[d] = work[d]
  BY <1>4 DEF TypesOK
<1>11. \A d \in Clients : IsActive(d)' <=> IsActive(d) /\ d # c
  BY <1>9 DEF IsActive
<1>12. ActiveIds' = ActiveIds \ {id}
  <2>1. \A d \in Clients : IsActive(d) /\ d # c => trx[d].id # id
    BY <1>1, ActiveFacts
  <2>2. ActiveIds' = {trx'[d].id : d \in {e \in Clients : IsActive(e)'}}
    BY DEF ActiveIds
  <2> QED
    BY <1>1, <1>9, <1>11, <2>1, <2>2 DEF ActiveIds
<1> QED
  BY <1>1, <1>2, <1>4, <1>5, <1>6, <1>8, <1>9, <1>10, <1>11, <1>12

\* A transaction starts with the next id.
LEMMA BeginFacts ==
  ASSUME RInv, TypesOK, NEW c \in Clients, Begin(c), NEW id, id = m_max_trx_id
  PROVE  /\ ~IsActive(c) /\ id \in TrxIds /\ id \notin ActiveIds
         /\ ActiveIds' = ActiveIds \cup {id}
         /\ m_max_trx_id' = id + 1
         /\ \A d \in Clients : IsActive(d)' <=> IsActive(d) \/ d = c
         /\ \A d \in Clients \ {c} : trx'[d] = trx[d] /\ work'[d] = work[d]
         /\ trx'[c].id = id /\ trx'[c].no = LsnMax /\ work'[c] = Idle
         /\ UNCHANGED <<m_view_list, m_view, history, clust, sec, max_trx_id, undo, rseg_last, purge,
                        stopped, committed, snap>>
<1>1. /\ ~IsActive(c)
      /\ trx' = [trx EXCEPT ![c] = [state |-> "active", id |-> id, no |-> LsnMax]]
      /\ m_max_trx_id' = id + 1
      /\ UNCHANGED <<m_view_list, m_view, history>>
  BY DEF Begin, start_low, IsActive
<1>2. trx \in [Clients -> [state: {"not_started", "active"}, id: 0 .. MaxTrxId, no: 1 .. LsnMax]]
  BY DEF RInv, TypeOKR
<1>3. /\ trx'[c].state = "active" /\ trx'[c].id = id /\ trx'[c].no = LsnMax
      /\ \A d \in Clients \ {c} : trx'[d] = trx[d]
  BY <1>1, <1>2
<1>4. \A d \in Clients : IsActive(d)' <=> IsActive(d) \/ d = c
  BY <1>3 DEF IsActive
<1>5. id \in TrxIds
  BY DEF RInv, TypeOKR
<1>6. id \notin ActiveIds
  BY <1>5, ActiveFacts DEF TrxIds
<1>7. ActiveIds' = ActiveIds \cup {id}
  <2>1. ActiveIds' = {trx'[d].id : d \in {e \in Clients : IsActive(e)'}}
    BY DEF ActiveIds
  <2> QED
    BY <1>1, <1>3, <1>4, <2>1 DEF ActiveIds
<1>8. /\ work' = [work EXCEPT ![c] = Idle]
      /\ UNCHANGED <<clust, sec, max_trx_id, undo, rseg_last, purge, stopped, committed, snap>>
  BY DEF Begin, rows, ghosts
<1>9. work'[c] = Idle /\ \A d \in Clients \ {c} : work'[d] = work[d]
  BY <1>8 DEF TypesOK
<1> QED
  BY <1>1, <1>3, <1>4, <1>5, <1>6, <1>7, <1>8, <1>9

\* A transaction gets its number; it is active as before.
LEMMA NumberFacts ==
  ASSUME RInv, NEW c \in Clients, NumberTrx(c)
  PROVE  /\ IsActive(c) /\ ActiveIds' = ActiveIds
         /\ m_max_trx_id' = m_max_trx_id + 1
         /\ \A d \in Clients : (IsActive(d)' <=> IsActive(d)) /\ trx'[d].id = trx[d].id
         /\ \A d \in Clients \ {c} : trx'[d] = trx[d]
         /\ history' = Append(history, [id |-> trx[c].id, no |-> m_max_trx_id])
         /\ UNCHANGED <<m_view_list, m_view, clust, sec, max_trx_id, undo, work, purge,
                        stopped, committed, snap>>
<1>1. /\ IsActive(c)
      /\ trx' = [trx EXCEPT ![c].no = m_max_trx_id]
      /\ m_max_trx_id' = m_max_trx_id + 1
      /\ history' = Append(history, [id |-> trx[c].id, no |-> m_max_trx_id])
      /\ UNCHANGED <<m_view_list, m_view>>
  BY DEF NumberTrx, CommitNumber
<1>2. trx \in [Clients -> [state: {"not_started", "active"}, id: 0 .. MaxTrxId, no: 1 .. LsnMax]]
  BY DEF RInv, TypeOKR
<1>3. /\ \A d \in Clients : trx'[d].state = trx[d].state /\ trx'[d].id = trx[d].id
      /\ \A d \in Clients \ {c} : trx'[d] = trx[d]
  BY <1>1, <1>2
<1>4. \A d \in Clients : IsActive(d)' <=> IsActive(d)
  BY <1>3 DEF IsActive
<1>5. ActiveIds' = ActiveIds
  <2>1. ActiveIds' = {trx'[d].id : d \in {e \in Clients : IsActive(e)'}}
    BY DEF ActiveIds
  <2> QED
    BY <1>3, <1>4, <2>1 DEF ActiveIds
<1>6. UNCHANGED <<clust, sec, max_trx_id, undo, work, purge, stopped, committed, snap>>
  BY DEF NumberTrx, rows, ghosts
<1> QED
  BY <1>1, <1>3, <1>4, <1>5, <1>6

\* The first operation of a list of work, and what is left after it.
LEMMA TailFacts ==
  ASSUME NEW T, NEW s \in Seq(T), s # << >>
  PROVE  /\ 1 \in DOMAIN s /\ Head(s) = s[1] /\ Head(s) \in T /\ Tail(s) \in Seq(T)
         /\ \A i \in DOMAIN Tail(s) : i \in Nat /\ i + 1 \in DOMAIN s /\ Tail(s)[i] = s[i + 1]
         /\ \A j \in DOMAIN s : j # 1 => j - 1 \in DOMAIN Tail(s) /\ Tail(s)[j - 1] = s[j]
<1>1. PICK l \in Nat : l = Len(s)
  OBVIOUS
<1>2. DOMAIN s = 1 .. l /\ l # 0
  BY <1>1
<1>3. Head(s) = s[1] /\ Head(s) \in T
  BY <1>2
<1>4. Tail(s) \in Seq(T) /\ Len(Tail(s)) = l - 1 /\ DOMAIN Tail(s) = 1 .. l - 1
  BY <1>1, <1>2
<1>5. \A i \in 1 .. l - 1 : Tail(s)[i] = s[i + 1]
  BY <1>1, <1>2
<1> QED
  BY <1>2, <1>3, <1>4, <1>5

\* A client that undoes a change of the clustered index: its top undo
\* record is about the row, and the version is the one on top, or has just
\* been put back.
LEMMA UndoClustFacts ==
  ASSUME RInv, TypesOK, TodoOK, LocksOK, NEW c \in Clients, NEW name \in {"restore", "drop", "drop_marked", "pop"},
         Doing(c, name), NEW id, id = trx[c].id, NEW n, n = Len(undo[id]), NEW k, k = Head(work[c].todo).key
  PROVE  /\ IsActive(c) /\ work[c].rolling /\ id \in TrxIds /\ id \in ActiveIds
         /\ n \in DOMAIN undo[id] /\ Top(c) = undo[id][n] /\ Top(c) \in UndoRec
         /\ Top(c).key = k /\ k \in Keys
         /\ name \in ClustOps => clust[k].trx_id = id /\ clust[k].roll.n = n
         /\ name \notin ClustOps => ~(clust[k].trx_id = id /\ clust[k].roll.n = n)
         /\ name = "restore" => Top(c).type # "insert"
         /\ name = "drop" => Top(c).type = "insert"
         /\ name = "drop_marked" => Top(c).type = "upd_del" /\ clust[k] \in {Top(c).old, NoRec}
<1>1. PICK s \in Seq(RowOp) : s = work[c].todo
  BY DEF TypesOK, Work
<1>2. s # << >> /\ Head(s).op = name
  BY <1>1 DEF Doing
<1>3. 1 \in DOMAIN s /\ Head(s) = s[1] /\ Head(s) \in RowOp
  BY <1>2, TailFacts
<1>4. /\ IsActive(c) /\ OrderOK(s)
      /\ s[1].op \in {"mark", "insert"} <=> ~work[c].rolling
      /\ work[c].rolling => UndoingOK(c, s)
  BY <1>1, <1>2, <1>3 DEF TodoOK, WorkOK
<1>5. work[c].rolling /\ UndoingOK(c, s)
  BY <1>2, <1>3, <1>4
<1>6. id \in TrxIds /\ id \in ActiveIds
  BY <1>4, ActiveFacts
<1>7. undo \in [TrxIds -> Seq(UndoRec)]
  BY DEF TypesOK
<1>8. n \in DOMAIN undo[id] /\ Top(c) = undo[id][n] /\ Top(c) \in UndoRec
  <2>1. undo[id] # << >> /\ undo[id] \in Seq(UndoRec)
    BY <1>5, <1>6, <1>7 DEF UndoingOK
  <2>2. n \in DOMAIN undo[id]
    BY <2>1
  <2> QED
    BY <1>6, <1>7, <2>2, UndoAt DEF Top
<1>9. Top(c).key = k /\ k \in Keys
  BY <1>1, <1>3, <1>5 DEF UndoingOK, RowOp
<1>10. Has(s, {name})
  BY <1>2, <1>3 DEF Has
<1>11. name \notin ClustOps => ~Has(s, ClustOps)
  <2> SUFFICES ASSUME name \notin ClustOps, NEW i \in DOMAIN s, s[i].op \in ClustOps  PROVE FALSE
    BY DEF Has
  <2>1. i # 1 /\ i \in Nat /\ 1 < i
    BY <1>2, <1>3
  <2>2. name # "pop"
    BY <1>2, <1>3, <1>4, <2>1 DEF OrderOK
  <2>3. name = "drop_marked"
    BY <2>2 DEF ClustOps
  <2>4. s[i].op \in {"restore", "drop"} /\ s[1].op = "drop_marked"
    BY <1>2, <1>3, <2>3 DEF ClustOps
  <2> QED
    BY <1>3, <1>4, <2>1, <2>4 DEF OrderOK
<1>12. Has(s, ClustOps) <=> (clust[k].trx_id = id /\ clust[k].roll.n = n)
  BY <1>5, <1>9 DEF UndoingOK, IsTop
<1>13. name \in ClustOps => Has(s, ClustOps)
  BY <1>2, <1>3 DEF Has
<1>14. name = "drop_marked" => Top(c).type = "upd_del" /\ clust[k] \in {Top(c).old, NoRec}
  BY <1>5, <1>9, <1>10, <1>11 DEF UndoingOK, ClustOps
<1>15. name = "restore" => Top(c).type # "insert"
  BY <1>5, <1>10 DEF UndoingOK
<1>16. name = "drop" => Top(c).type = "insert"
  BY <1>5, <1>10 DEF UndoingOK
<1> QED
  BY <1>4, <1>5, <1>6, <1>8, <1>9, <1>11, <1>12, <1>13, <1>14, <1>15, <1>16

\* A version of an active transaction has its undo record.
LEMMA ActiveVersion ==
  ASSUME RInv, TypesOK, NEW k \in Keys, NEW r \in Record, VersionOK(r, k), r.trx_id \in ActiveIds
  PROVE  /\ r.trx_id \in TrxIds /\ r.roll.n \in DOMAIN undo[r.trx_id]
         /\ undo[r.trx_id][r.roll.n] \in UndoRec
         /\ undo[r.trx_id][r.roll.n].key = k
         /\ undo[r.trx_id][r.roll.n].type = "insert" <=> r.roll.ins
         /\ undo[r.trx_id][r.roll.n].type = "del_mark" <=> r.del
<1>1. r.trx_id \in TrxIds /\ r.trx_id # 0
  BY ActiveFacts
<1> QED
  BY <1>1, UndoAt DEF VersionOK, TypesOK

\* The version of key k that becomes the current one when the last change
\* of an active transaction is undone.
Undone(k, r) ==
  /\ clust[k].trx_id \in ActiveIds
  /\ r = undo[clust[k].trx_id][clust[k].roll.n].old

\* The row of key k goes: it is delete-marked, and everybody sees that.
Purged(k, r) ==
  /\ r = NoRec
  /\ clust[k].del
  /\ Sees(m_view, clust[k].trx_id)

\* A step that changes the clustered index and writes no undo record.
ClustStep(k, r) ==
  /\ clust' = [clust EXCEPT ![k] = r]
  /\ r \in Record
  /\ r = clust[k] \/ Undone(k, r) \/ Purged(k, r)
  /\ UNCHANGED <<rvars, undo, sec, max_trx_id, stopped, committed, snap>>

\* The purge view as a set of ids.
LEMMA PurgeViewMeaning ==
  ASSUME RInv, NEW id \in TrxIds
  PROVE  ~update_undo_must_exist(id) <=> Sees(m_view, id)
<1>1. m_view \in View /\ WellFormed(m_view)
  BY DEF RInv, TypeOKR, ViewOK
<1> QED
  BY <1>1, SeesMeaning DEF update_undo_must_exist

\* Rollback of a change of the clustered index.
LEMMA RollbackSteps ==
  ASSUME RInv, TypesOK, VersionsOK, TodoOK, LocksOK, NEW c \in Clients,
         UndoRestore(c) \/ UndoDrop(c) \/ UndoDropMarked(c)
  PROVE  LET k == Head(work[c].todo).key
         IN  /\ k \in Keys
             /\ \E r : ClustStep(k, r) /\ (r = clust[k] \/ r = Top(c).old \/ r = NoRec)
             /\ UndoRestore(c) \/ UndoDrop(c) => Undone(k, clust'[k]) /\ clust'[k] = Top(c).old
             /\ UndoDropMarked(c) => clust'[k] \in {clust[k], NoRec}
             /\ UNCHANGED purge
<1>1. PICK k : k = Head(work[c].todo).key
  OBVIOUS
<1>2. PICK id : id = trx[c].id
  OBVIOUS
<1>3. PICK n : n = Len(undo[id])
  OBVIOUS
<1>4. clust \in [Keys -> Record]
  BY DEF TypesOK
<1>5. ASSUME NEW name \in {"restore", "drop", "drop_marked"}, Doing(c, name)
      PROVE  /\ id \in TrxIds /\ id \in ActiveIds /\ n \in DOMAIN undo[id] /\ Top(c) = undo[id][n]
             /\ Top(c) \in UndoRec /\ Top(c).key = k /\ k \in Keys /\ clust[k] \in Record
             /\ Top(c).old \in Record /\ VersionOK(clust[k], k) /\ UndoRecOK(id, n, Top(c))
             /\ name \in ClustOps => clust[k].trx_id = id /\ clust[k].roll.n = n
             /\ name = "restore" => Top(c).type # "insert"
             /\ name = "drop" => Top(c).type = "insert"
             /\ name = "drop_marked" => Top(c).type = "upd_del" /\ clust[k] \in {Top(c).old, NoRec}
  <2>1. /\ id \in TrxIds /\ id \in ActiveIds
        /\ n \in DOMAIN undo[id] /\ Top(c) = undo[id][n] /\ Top(c) \in UndoRec
        /\ Top(c).key = k /\ k \in Keys
        /\ name \in ClustOps => clust[k].trx_id = id /\ clust[k].roll.n = n
        /\ name = "restore" => Top(c).type # "insert"
        /\ name = "drop" => Top(c).type = "insert"
        /\ name = "drop_marked" => Top(c).type = "upd_del" /\ clust[k] \in {Top(c).old, NoRec}
    BY <1>1, <1>2, <1>3, <1>5, UndoClustFacts
  <2>2. Top(c).old \in Record
    BY <2>1 DEF UndoRec
  <2>3. VersionOK(clust[k], k) /\ UndoRecOK(id, n, Top(c))
    BY <2>1 DEF VersionsOK
  <2> QED
    BY <1>4, <2>1, <2>2, <2>3
<1>6. CASE UndoRestore(c)
  <2>1. Doing(c, "restore") /\ SetClust(c, k, Top(c).old)
    BY <1>1, <1>6 DEF UndoRestore
  <2>2. Undone(k, Top(c).old)
    BY <1>5, <2>1 DEF Undone, ClustOps
  <2>3. ClustStep(k, Top(c).old) /\ UNCHANGED purge /\ k \in Keys
    BY <1>5, <2>1, <2>2 DEF SetClust, ClustStep, ghosts, rows
  <2>4. clust'[k] = Top(c).old
    BY <1>4, <2>3 DEF ClustStep
  <2>5. UndoDropMarked(c) => clust'[k] \in {clust[k], NoRec}
    BY <2>1 DEF UndoDropMarked, Doing
  <2> QED
    BY <1>1, <2>2, <2>3, <2>4, <2>5
<1>7. CASE UndoDrop(c)
  <2>1. Doing(c, "drop") /\ SetClust(c, k, NoRec)
    BY <1>1, <1>7 DEF UndoDrop
  <2>2. Top(c).old = NoRec
    BY <1>5, <2>1 DEF UndoRecOK
  <2>3. Undone(k, NoRec)
    BY <1>5, <2>1, <2>2 DEF Undone, ClustOps
  <2>4. ClustStep(k, NoRec) /\ UNCHANGED purge /\ k \in Keys
    BY <1>5, <2>1, <2>3, NoRecFacts DEF SetClust, ClustStep, ghosts, rows
  <2>5. clust'[k] = NoRec
    BY <1>4, <2>4 DEF ClustStep
  <2> QED
    BY <1>1, <2>2, <2>3, <2>4, <2>5
<1>8. CASE UndoDropMarked(c)
  <2> DEFINE gone == clust[k] = NoRec \/ ~update_undo_must_exist(Top(c).old.trx_id)
             r == IF gone THEN NoRec ELSE clust[k]
  <2>1. Doing(c, "drop_marked") /\ SetClust(c, k, r)
    BY <1>1, <1>8 DEF UndoDropMarked
  <2>2. /\ Top(c).old \in Record /\ Top(c).old.del /\ clust[k] \in {Top(c).old, NoRec} /\ clust[k] \in Record
        /\ k \in Keys
    BY <1>5, <2>1 DEF UndoRecOK
  <2>3. Top(c).old.trx_id \in TrxIds
    BY <2>2, RecordFacts
  <2>4. r = clust[k] \/ Purged(k, r)
    BY <2>2, <2>3, PurgeViewMeaning DEF Purged
  <2> HIDE DEF r
  <2>5. r \in {clust[k], NoRec}
    BY DEF r
  <2>6. ClustStep(k, r) /\ UNCHANGED purge
    BY <2>1, <2>2, <2>4, <2>5, NoRecFacts DEF SetClust, ClustStep, ghosts, rows
  <2>7. clust'[k] = r
    BY <1>4, <2>2, <2>6 DEF ClustStep
  <2>8. ~UndoRestore(c) /\ ~UndoDrop(c)
    BY <2>1 DEF UndoRestore, UndoDrop, Doing
  <2> QED
    BY <1>1, <2>2, <2>5, <2>6, <2>7, <2>8
<1> QED
  BY <1>6, <1>7, <1>8

\* Purge of a row.
LEMMA PurgeClustStep ==
  ASSUME RInv, TypesOK, VersionsOK, PurgeOK, PurgeClust
  PROVE  LET k == Head(purge.todo).key
         IN  /\ k \in Keys
             /\ \E r : ClustStep(k, r) /\ (r = clust[k] \/ Purged(k, r))
             /\ UNCHANGED work
<1>1. PICK s \in Seq(Job) : s = purge.todo
  BY DEF PurgeOK
<1>2. s # << >> /\ Head(s).op = "clust"
  BY <1>1 DEF PurgeClust, PurgeDoes
<1>3. PICK o \in Job : o = Head(s) /\ o = s[1] /\ 1 \in DOMAIN s
  BY <1>2, TailFacts
<1>4. JobOK(o)
  BY <1>1, <1>3 DEF PurgeOK
<1>5. clust \in [Keys -> Record]
  BY DEF TypesOK
<1>6. PICK k \in Keys : k = o.key
  BY DEF Job
<1> DEFINE r == IF clust[k].roll = o.roll THEN NoRec ELSE clust[k]
<1>7. clust' = [clust EXCEPT ![k] = r]
  BY <1>1, <1>3, <1>6 DEF PurgeClust
<1>8. UNCHANGED <<rvars, undo, sec, max_trx_id, stopped, committed, snap, work>>
  BY DEF PurgeClust, ghosts
<1>9. ASSUME clust[k].roll = o.roll  PROVE Purged(k, NoRec)
  <2>1. clust[k] \in Record /\ ~clust[k].roll.ins /\ VersionOK(clust[k], k)
    BY <1>4, <1>5, <1>9 DEF JobOK, VersionsOK
  <2>2. clust[k].trx_id # 0
    BY <2>1, RecordFacts
  <2>3. clust[k].trx_id = o.roll.trx /\ clust[k].roll.n = o.roll.n
    BY <1>9, <2>1, <2>2 DEF VersionOK
  <2>4. clust[k].del
    BY <1>2, <1>3, <1>4, <2>1, <2>2, <2>3 DEF VersionOK, JobOK
  <2> QED
    BY <1>4, <2>3, <2>4 DEF Purged, JobOK
<1>10. r \in {clust[k], NoRec} /\ (r = clust[k] \/ Purged(k, r))
  BY <1>9
<1> HIDE DEF r
<1>11. r \in Record
  BY <1>5, <1>10, NoRecFacts
<1>12. ClustStep(k, r)
  BY <1>7, <1>8, <1>10, <1>11 DEF ClustStep
<1> QED
  BY <1>1, <1>3, <1>6, <1>8, <1>10, <1>12

\* A step that changes no row and no undo log.
Quiet == UNCHANGED <<m_max_trx_id, trx, m_view_list, history, clust, undo, committed, snap>>

\* What a step may do to rows, undo logs and transactions.
LEMMA StepKinds ==
  ASSUME RInv, PurgePositionOK, TypesOK, VersionsOK, TodoOK, LocksOK, PurgeOK, [Next]_vars
  PROVE  \/ \E c \in Clients : \E k \in Keys : \E type, del, val, todo : RowStep(c, k, type, del, val, todo)
         \/ \E c \in Clients : Begin(c) \/ OpenView(c) \/ NumberTrx(c) \/ EndTrx(c) \/ UndoPop(c)
         \/ \E k \in Keys : \E r : ClustStep(k, r)
         \/ Quiet
<1>1. ASSUME NEW c \in Clients, ClientNext(c)
      PROVE  \/ \E k \in Keys : \E type, del, val, todo : RowStep(c, k, type, del, val, todo)
             \/ Begin(c) \/ OpenView(c) \/ NumberTrx(c) \/ EndTrx(c) \/ UndoPop(c)
             \/ \E k \in Keys : \E r : ClustStep(k, r)
             \/ Quiet
  <2>1. ASSUME NEW k \in Keys, NEW v \in Vals, InsertRow(c, k, v) \/ UpdateRow(c, k, v)
        PROVE  \E type, del, val, todo : RowStep(c, k, type, del, val, todo)
    BY <2>1, RowSteps
  <2>2. ASSUME NEW k \in Keys, DeleteRow(c, k)
        PROVE  \E type, del, val, todo : RowStep(c, k, type, del, val, todo)
    BY <2>2, RowSteps, RowAssumption
  <2>3. CASE SecMark(c) \/ SecInsert(c) \/ UndoSecRemove(c) \/ UndoSecMarkOrRemove(c) \/ UndoSecUnmark(c)
    BY <2>3 DEF SecMark, SecInsert, UndoSecRemove, UndoSecMarkOrRemove, UndoSecUnmark, SetSec, rvars, Quiet, ghosts
  <2>4. CASE StartRollback(c) \/ UndoNext(c)
    BY <2>4 DEF StartRollback, UndoNext, rvars, rows, ghosts, Quiet
  <2>5. CASE UndoRestore(c) \/ UndoDrop(c) \/ UndoDropMarked(c)
    BY <2>5, RollbackSteps
  <2> QED
    BY <1>1, <2>1, <2>2, <2>3, <2>4, <2>5 DEF ClientNext
<1>2. RunPurge \/ FetchRec \/ PurgeSec => Quiet
  BY DEF RunPurge, RenewPurgeView, FetchRec, PurgeSec, rvars, rows, ghosts, Quiet
<1>3. EndPurge => Quiet
  <2> SUFFICES ASSUME EndPurge  PROVE Quiet
    OBVIOUS
  <2>1. UNCHANGED rvars
    BY EndPurgeKeepsHistory
  <2> QED
    BY <2>1 DEF EndPurge, rvars, rows, ghosts, Quiet
<1>4. PurgeClust => \E k \in Keys : \E r : ClustStep(k, r)
  BY PurgeClustStep
<1>5. UNCHANGED vars => Quiet
  BY DEF vars, rvars, rows, ghosts, Quiet
<1> QED
  BY <1>1, <1>2, <1>3, <1>4, <1>5 DEF Next

-----------------------------------------------------------------------------
(* Roll pointers stay good.                                                *)

\* A version stays good while its undo record stays.
LEMMA VersionKept ==
  ASSUME NEW r \in Record, NEW k \in Keys, VersionOK(r, k), m_max_trx_id \in Nat, m_max_trx_id' \in Nat,
         m_max_trx_id <= m_max_trx_id',
         r.trx_id \in ActiveIds' /\ r.trx_id < m_max_trx_id => r.trx_id \in ActiveIds,
         r.trx_id # 0 /\ (~r.roll.ins \/ r.trx_id \in ActiveIds') =>
             /\ r.roll.n \in DOMAIN undo'[r.trx_id]
             /\ undo'[r.trx_id][r.roll.n] = undo[r.trx_id][r.roll.n]
  PROVE  VersionOK(r, k)'
<1> SUFFICES ASSUME r.trx_id # 0
             PROVE  /\ r.roll.trx = r.trx_id
                    /\ r.trx_id < m_max_trx_id'
                    /\ r.roll.ins => ~r.del
                    /\ ~r.roll.ins \/ r.trx_id \in ActiveIds' =>
                         /\ r.roll.n \in DOMAIN undo'[r.trx_id]
                         /\ undo'[r.trx_id][r.roll.n].key = k
                         /\ undo'[r.trx_id][r.roll.n].type = "insert" <=> r.roll.ins
                         /\ undo'[r.trx_id][r.roll.n].type = "del_mark" <=> r.del
  BY DEF VersionOK
<1>1. r.roll.trx = r.trx_id /\ r.trx_id < m_max_trx_id /\ (r.roll.ins => ~r.del)
  BY DEF VersionOK
<1>2. r.trx_id < m_max_trx_id'
  <2>1. r.trx_id \in 0 .. MaxTrxId /\ MaxTrxId \in Nat
    BY RecordFacts, IdAssumption
  <2> QED
    BY <1>1, <2>1
<1>3. ASSUME ~r.roll.ins \/ r.trx_id \in ActiveIds'
      PROVE  /\ r.roll.n \in DOMAIN undo'[r.trx_id]
             /\ undo'[r.trx_id][r.roll.n].key = k
             /\ undo'[r.trx_id][r.roll.n].type = "insert" <=> r.roll.ins
             /\ undo'[r.trx_id][r.roll.n].type = "del_mark" <=> r.del
  BY <1>1, <1>3 DEF VersionOK
<1> QED
  BY <1>1, <1>2, <1>3

\* If all versions stay good, and active transactions are no more than new
\* ones, the undo records that stay are good.
LEMMA UndoRecKept ==
  ASSUME NEW id \in TrxIds, NEW n, NEW u \in UndoRec, UndoRecOK(id, n, u), VersionOK(u.old, u.key)',
         m_max_trx_id \in Nat, m_max_trx_id' \in Nat, m_max_trx_id <= m_max_trx_id',
         u.old.trx_id \in ActiveIds' /\ u.old.trx_id < m_max_trx_id => u.old.trx_id \in ActiveIds,
         0 \notin ActiveIds'
  PROVE  UndoRecOK(id, n, u)'
<1>1. id < m_max_trx_id'
  BY DEF UndoRecOK, TrxIds
<1>2. u.old.trx_id \in ActiveIds' => u.old.trx_id = id /\ u.old.roll.n < n
  BY DEF UndoRecOK, VersionOK
<1> QED
  BY <1>1, <1>2 DEF UndoRecOK

\* Versions stay good when a row operation adds one.
LEMMA VersionsWritten ==
  ASSUME RInv, TypesOK, UndoBounded, VersionsOK, NEW c \in Clients, NEW k \in Keys,
         NEW type, NEW del, NEW val, NEW todo, RowStep(c, k, type, del, val, todo)
  PROVE  VersionsOK'
<1>1. PICK id : id = trx[c].id
  OBVIOUS
<1>2. PICK n : n = Len(undo[id]) + 1
  OBVIOUS
<1>3. /\ type \in Types /\ del \in BOOLEAN /\ val \in Vals /\ CanWrite(c, k)
      /\ type = "insert" <=> clust[k] = NoRec
      /\ type = "upd_del" <=> clust[k].del
      /\ type = "del_mark" <=> del
      /\ Write(c, k, type, del, val, todo)
  BY DEF RowStep
<1> DEFINE new == [trx_id |-> id, del |-> del, val |-> val,
                   roll |-> [trx |-> id, n |-> n, ins |-> type = "insert"]]
           u == [type |-> type, key |-> k, old |-> clust[k]]
<1>4. /\ id \in ActiveIds /\ id \in TrxIds /\ n \in 1 .. MaxUndo
      /\ clust' = [clust EXCEPT ![k] = new]
      /\ undo' \in [TrxIds -> Seq(UndoRec)]
      /\ DOMAIN undo'[id] = 1 .. n
      /\ undo'[id][n] = u
      /\ \A j \in TrxIds : \A m \in DOMAIN undo[j] :
             m \in DOMAIN undo'[j] /\ undo'[j][m] = undo[j][m]
      /\ \A j \in TrxIds : \A m \in DOMAIN undo'[j] :
             m \in DOMAIN undo[j] \/ (j = id /\ m = n)
      /\ UNCHANGED <<rvars, purge, committed, snap>>
  BY <1>1, <1>2, <1>3, WriteFacts
<1>5. clust \in [Keys -> Record] /\ undo \in [TrxIds -> Seq(UndoRec)]
  BY DEF TypesOK
<1>6. UNCHANGED <<m_max_trx_id, trx>> /\ ActiveIds' = ActiveIds /\ m_max_trx_id \in Nat
  BY <1>4 DEF rvars, ActiveIds, IsActive, RInv, TypeOKR, TrxIds
<1>7. ASSUME NEW r \in Record, NEW j \in Keys, VersionOK(r, j)  PROVE VersionOK(r, j)'
  <2>1. r.trx_id # 0 => r.trx_id \in TrxIds
    BY RecordFacts
  <2>2. r.trx_id # 0 /\ (~r.roll.ins \/ r.trx_id \in ActiveIds) => r.roll.n \in DOMAIN undo[r.trx_id]
    BY <1>7 DEF VersionOK
  <2>3. r.trx_id # 0 /\ (~r.roll.ins \/ r.trx_id \in ActiveIds') =>
          /\ r.roll.n \in DOMAIN undo'[r.trx_id]
          /\ undo'[r.trx_id][r.roll.n] = undo[r.trx_id][r.roll.n]
    BY <1>4, <1>6, <2>1, <2>2
  <2>4. m_max_trx_id' = m_max_trx_id /\ m_max_trx_id <= m_max_trx_id' /\ m_max_trx_id' \in Nat
    BY <1>6
  <2> QED
    BY <1>6, <1>7, <2>3, <2>4, VersionKept
<1>8. VersionOK(new, k)'
  <2>1. new.trx_id = id /\ new.del = del /\ new.roll.trx = id /\ new.roll.n = n /\ new.roll.ins = (type = "insert")
    OBVIOUS
  <2>2. id < m_max_trx_id'
    BY <1>4, <1>6, ActiveFacts
  <2>3. u.type = type /\ u.key = k
    OBVIOUS
  <2>4. n \in DOMAIN undo'[id]
    BY <1>4
  <2> HIDE DEF new, u
  <2> QED
    BY <1>3, <1>4, <2>1, <2>2, <2>3, <2>4 DEF VersionOK
<1>9. \A j \in Keys : VersionOK(clust[j], j)'
  <2> SUFFICES ASSUME NEW j \in Keys  PROVE VersionOK(clust[j], j)'
    OBVIOUS
  <2>1. CASE j = k
    <3> HIDE DEF new
    <3>1. clust'[j] = new
      BY <1>4, <1>5, <2>1
    <3> QED
      BY <1>8, <2>1, <3>1 DEF VersionOK
  <2>2. CASE j # k
    <3>1. PICK r \in Record : r = clust[j]
      BY <1>5
    <3>2. clust'[j] = r
      BY <1>4, <1>5, <2>2, <3>1
    <3>3. VersionOK(r, j)
      BY <3>1 DEF VersionsOK
    <3>4. VersionOK(r, j)'
      BY <1>7, <3>3
    <3> QED
      BY <3>2, <3>4 DEF VersionOK
  <2> QED
    BY <2>1, <2>2
<1>10. ASSUME NEW j \in TrxIds, NEW m \in DOMAIN undo'[j]  PROVE UndoRecOK(j, m, undo[j][m])'
  <2>1. PICK w \in UndoRec : w = undo'[j][m]
    BY <1>4
  <2>2. CASE m \in DOMAIN undo[j]
    <3>1. w = undo[j][m]
      BY <1>4, <2>1, <2>2
    <3>2. UndoRecOK(j, m, w)
      BY <2>2, <3>1 DEF VersionsOK
    <3>3. w.key \in Keys /\ w.old \in Record
      BY DEF UndoRec
    <3>4. VersionOK(w.old, w.key)'
      BY <1>7, <3>2, <3>3 DEF UndoRecOK
    <3>5. UndoRecOK(j, m, w)'
      BY <1>6, <3>2, <3>4, UndoRecKept, ActiveFacts
    <3> QED
      BY <2>1, <3>5
  <2>3. CASE j = id /\ m = n
    <3>1. PICK r \in Record : r = clust[k]
      BY <1>5
    <3>2. w.type = type /\ w.key = k /\ w.old = r
      BY <1>4, <2>1, <2>3, <3>1
    <3>3. VersionOK(r, k) /\ VersionOK(r, k)'
      BY <1>7, <3>1 DEF VersionsOK
    <3>4. id < m_max_trx_id'
      BY <1>4, <1>6, ActiveFacts
    <3>5. r.trx_id \in ActiveIds => r.trx_id = id /\ r.roll.n < n
      <4> SUFFICES ASSUME r.trx_id \in ActiveIds  PROVE r.trx_id = id /\ r.roll.n < n
        OBVIOUS
      <4>1. PICK d \in Clients : IsActive(d) /\ trx[d].id = r.trx_id
        BY ActiveFacts
      <4>2. d = c
        BY <1>3, <3>1, <4>1 DEF CanWrite
      <4>3. r.trx_id = id
        BY <1>1, <4>1, <4>2
      <4>4. r.roll.n \in DOMAIN undo[id]
        BY <3>3, <4>3, ActiveVersion
      <4>5. DOMAIN undo[id] = 1 .. Len(undo[id]) /\ Len(undo[id]) \in Nat
        BY <1>4, <1>5, UndoAt
      <4> QED
        BY <1>2, <4>3, <4>4, <4>5
    <3>6. UndoRecOK(id, n, w)'
      BY <1>3, <1>6, <3>1, <3>2, <3>3, <3>4, <3>5 DEF UndoRecOK
    <3> QED
      BY <2>1, <2>3, <3>6
  <2> QED
    BY <1>4, <2>2, <2>3
<1> QED
  BY <1>9, <1>10 DEF VersionsOK

\* The undo record of the version stays, if it matters.
Anchored(r) ==
  r.trx_id # 0 /\ (~r.roll.ins \/ r.trx_id \in ActiveIds') => r.roll.n \in DOMAIN undo'[r.trx_id]

\* Versions stay good when no undo record is written and none that matters
\* is lost.
LEMMA VersionsShrunk ==
  ASSUME RInv, RInv', TypesOK, VersionsOK, UndoShrinks, clust' \in [Keys -> Record],
         m_max_trx_id <= m_max_trx_id',
         \A id \in ActiveIds' : id < m_max_trx_id => id \in ActiveIds,
         \A k \in Keys :
             /\ Anchored(clust'[k])
             /\ \/ clust'[k] \in {clust[k], NoRec}
                \/ \E id \in TrxIds : \E n \in DOMAIN undo[id] :
                       undo[id][n].key = k /\ clust'[k] = undo[id][n].old,
         \A id \in TrxIds : \A n \in DOMAIN undo'[id] : Anchored(undo[id][n].old)
  PROVE  VersionsOK'
<1>1. clust \in [Keys -> Record] /\ undo \in [TrxIds -> Seq(UndoRec)] /\ undo' \in [TrxIds -> Seq(UndoRec)]
  BY DEF TypesOK, UndoShrinks
<1>2. m_max_trx_id \in Nat /\ m_max_trx_id' \in Nat /\ 0 \notin ActiveIds'
  <2>1. m_max_trx_id \in Nat /\ m_max_trx_id' \in Nat
    BY DEF RInv, TypeOKR, TrxIds
  <2>2. ActiveIds' \subseteq TrxIds
    <3>1. \A c \in Clients : IsActive(c)' => 0 < trx'[c].id /\ trx'[c].id \in 0 .. MaxTrxId
      BY DEF RInv, IdsUnique, TypeOKR
    <3> QED
      BY <3>1, IdAssumption DEF ActiveIds, TrxIds
  <2> QED
    BY <2>1, <2>2 DEF TrxIds
<1>3. ASSUME NEW r \in Record, NEW k \in Keys, VersionOK(r, k), Anchored(r)  PROVE VersionOK(r, k)'
  <2>1. r.trx_id # 0 => r.trx_id \in TrxIds
    BY RecordFacts
  <2>2. r.trx_id # 0 /\ (~r.roll.ins \/ r.trx_id \in ActiveIds') =>
             /\ r.roll.n \in DOMAIN undo'[r.trx_id]
             /\ undo'[r.trx_id][r.roll.n] = undo[r.trx_id][r.roll.n]
    BY <1>3, <2>1 DEF Anchored, UndoShrinks
  <2>3. r.trx_id \in ActiveIds' /\ r.trx_id < m_max_trx_id => r.trx_id \in ActiveIds
    OBVIOUS
  <2> QED
    BY <1>2, <1>3, <2>2, <2>3, VersionKept
<1>4. ASSUME NEW k \in Keys  PROVE VersionOK(clust[k], k)'
  <2>1. PICK r \in Record : r = clust'[k]
    OBVIOUS
  <2>2. VersionOK(r, k)
    <3>1. CASE r = clust[k]
      BY <3>1 DEF VersionsOK
    <3>2. CASE r = NoRec
      BY <3>2, NoRecFacts DEF VersionOK
    <3>3. ASSUME NEW id \in TrxIds, NEW n \in DOMAIN undo[id], undo[id][n].key = k, r = undo[id][n].old
          PROVE  VersionOK(r, k)
      BY <3>3 DEF VersionsOK, UndoRecOK
    <3> QED
      BY <2>1, <3>1, <3>2, <3>3
  <2>3. VersionOK(r, k)'
    BY <1>3, <2>1, <2>2
  <2> QED
    BY <2>1, <2>3
<1>5. ASSUME NEW id \in TrxIds, NEW n \in DOMAIN undo'[id]  PROVE UndoRecOK(id, n, undo[id][n])'
  <2>1. PICK u \in UndoRec : u = undo'[id][n]
    BY <1>1
  <2>2. u = undo[id][n] /\ n \in DOMAIN undo[id]
    BY <2>1 DEF UndoShrinks
  <2>3. UndoRecOK(id, n, u) /\ VersionOK(u.old, u.key) /\ Anchored(u.old)
    BY <2>2 DEF VersionsOK, UndoRecOK
  <2>4. u.key \in Keys /\ u.old \in Record
    BY DEF UndoRec
  <2>5. VersionOK(u.old, u.key)'
    BY <1>3, <2>3, <2>4
  <2>6. u.old.trx_id \in ActiveIds' /\ u.old.trx_id < m_max_trx_id => u.old.trx_id \in ActiveIds
    OBVIOUS
  <2>7. UndoRecOK(id, n, u)'
    BY <1>2, <2>3, <2>5, <2>6, UndoRecKept
  <2> QED
    BY <2>1, <2>7
<1> QED
  BY <1>4, <1>5 DEF VersionsOK

\* In particular when no undo record is lost.
LEMMA VersionsStay ==
  ASSUME RInv, RInv', TypesOK, VersionsOK, UNCHANGED undo, clust' \in [Keys -> Record],
         m_max_trx_id <= m_max_trx_id',
         \A id \in ActiveIds' : id < m_max_trx_id => id \in ActiveIds,
         \A k \in Keys :
             \/ clust'[k] \in {clust[k], NoRec}
             \/ \E id \in TrxIds : \E n \in DOMAIN undo[id] :
                    undo[id][n].key = k /\ clust'[k] = undo[id][n].old
  PROVE  VersionsOK'
<1>1. undo \in [TrxIds -> Seq(UndoRec)]
  BY DEF TypesOK
<1>2. UndoShrinks
  BY <1>1, UndoAt DEF UndoShrinks
<1>3. ASSUME NEW r \in Record, NEW k \in Keys, VersionOK(r, k)  PROVE Anchored(r)
  BY <1>3 DEF VersionOK, Anchored
<1>4. \A id \in TrxIds : \A n \in DOMAIN undo[id] :
        Anchored(undo[id][n].old) /\ VersionOK(undo[id][n].old, undo[id][n].key)
  BY <1>1, <1>3, UndoAt DEF VersionsOK, UndoRecOK
<1>5. ASSUME NEW k \in Keys  PROVE Anchored(clust'[k])
  <2>1. CASE clust'[k] = clust[k]
    BY <1>3, <1>5, <2>1 DEF VersionsOK
  <2>2. CASE clust'[k] = NoRec
    BY <2>2, NoRecFacts DEF Anchored
  <2> QED
    BY <1>4, <2>1, <2>2
<1> QED
  BY <1>2, <1>4, <1>5, VersionsShrunk

\* Nothing that matters is lost when a record that has been undone is
\* removed.
LEMMA VersionsPopped ==
  ASSUME RInv, RInv', TypesOK, TypesOK', VersionsOK, TodoOK, LocksOK, NEW c \in Clients, UndoPop(c)
  PROVE  VersionsOK'
<1>1. PICK id : id = trx[c].id
  OBVIOUS
<1>2. PICK l : l = Len(undo[id])
  OBVIOUS
<1>3. /\ UndoShrinks
      /\ \A j \in TrxIds : \A m \in DOMAIN undo[j] : j # id \/ m # l => m \in DOMAIN undo'[j]
      /\ l \notin DOMAIN undo'[id]
      /\ UNCHANGED <<rvars, clust>>
  BY <1>1, <1>2, PopFacts
<1>4. Doing(c, "pop")
  BY DEF UndoPop
<1>5. PICK k : k = Head(work[c].todo).key
  OBVIOUS
<1>6. /\ id \in TrxIds /\ id \in ActiveIds /\ l \in DOMAIN undo[id] /\ Top(c) = undo[id][l] /\ Top(c).key = k
      /\ ~(clust[k].trx_id = id /\ clust[k].roll.n = l)
  BY <1>1, <1>2, <1>4, <1>5, UndoClustFacts DEF ClustOps
<1>7. ActiveIds' = ActiveIds /\ m_max_trx_id' = m_max_trx_id /\ m_max_trx_id \in Nat
  BY <1>3 DEF rvars, ActiveIds, IsActive, RInv, TypeOKR, TrxIds
<1>8. clust \in [Keys -> Record] /\ undo \in [TrxIds -> Seq(UndoRec)]
  BY DEF TypesOK
<1>9. ASSUME NEW r \in Record, NEW j \in Keys, VersionOK(r, j), ~(r.trx_id = id /\ r.roll.n = l)
      PROVE  Anchored(r)
  <2>1. r.trx_id # 0 => r.trx_id \in TrxIds
    BY RecordFacts
  <2>2. r.trx_id # 0 /\ (~r.roll.ins \/ r.trx_id \in ActiveIds) => r.roll.n \in DOMAIN undo[r.trx_id]
    BY <1>9 DEF VersionOK
  <2> QED
    BY <1>3, <1>7, <1>9, <2>1, <2>2 DEF Anchored
<1>10. ASSUME NEW j \in Keys  PROVE Anchored(clust'[j])
  <2>1. clust'[j] = clust[j] /\ clust[j] \in Record /\ VersionOK(clust[j], j)
    BY <1>3, <1>8 DEF VersionsOK
  <2>2. ~(clust[j].trx_id = id /\ clust[j].roll.n = l)
    <3> SUFFICES ASSUME clust[j].trx_id = id, clust[j].roll.n = l  PROVE FALSE
      OBVIOUS
    <3>1. undo[id][l].key = j
      BY <1>6, <2>1, ActiveVersion
    <3> QED
      BY <1>6, <3>1
  <2> QED
    BY <1>9, <2>1, <2>2
<1>11. ASSUME NEW j \in TrxIds, NEW m \in DOMAIN undo'[j]  PROVE Anchored(undo[j][m].old)
  <2>1. m \in DOMAIN undo[j] /\ ~(j = id /\ m = l)
    BY <1>3 DEF UndoShrinks
  <2>2. PICK u \in UndoRec : u = undo[j][m] /\ u.key \in Keys /\ u.old \in Record
    BY <1>8, <2>1, UndoAt
  <2>3. UndoRecOK(j, m, u)
    BY <2>1, <2>2 DEF VersionsOK
  <2>4. ~(u.old.trx_id = id /\ u.old.roll.n = l)
    <3> SUFFICES ASSUME u.old.trx_id = id, u.old.roll.n = l  PROVE FALSE
      OBVIOUS
    <3>1. j = id /\ l < m
      BY <1>6, <2>3 DEF UndoRecOK
    <3>2. DOMAIN undo[id] = 1 .. l /\ l \in Nat
      BY <1>2, <1>6, <1>8, UndoAt
    <3> QED
      BY <2>1, <3>1, <3>2
  <2> QED
    BY <1>9, <2>2, <2>3, <2>4 DEF UndoRecOK
<1>12. clust' \in [Keys -> Record]
  BY DEF TypesOK
<1>13. m_max_trx_id <= m_max_trx_id'
  BY <1>7
<1> QED
  BY <1>3, <1>7, <1>10, <1>11, <1>12, <1>13, VersionsShrunk

\* Nothing that matters is lost when a transaction ends.
LEMMA VersionsEnded ==
  ASSUME RInv, RInv', TypesOK, TypesOK', VersionsOK, LocksOK, NEW c \in Clients, EndTrx(c)
  PROVE  VersionsOK'
<1>1. PICK id : id = trx[c].id
  OBVIOUS
<1>2. /\ IsActive(c) /\ id \in TrxIds /\ UndoShrinks
      /\ \A j \in TrxIds : j # id \/ work[c].upd => undo'[j] = undo[j]
      /\ ActiveIds' = ActiveIds \ {id}
      /\ UNCHANGED <<m_max_trx_id, clust>>
  BY <1>1, EndTrxFacts
<1>3. clust \in [Keys -> Record] /\ clust' \in [Keys -> Record] /\ undo \in [TrxIds -> Seq(UndoRec)]
  BY DEF TypesOK
<1>4. ASSUME NEW r \in Record, NEW j \in Keys, VersionOK(r, j)
      PROVE  Anchored(r)
  <2> SUFFICES ASSUME r.trx_id # 0, ~r.roll.ins \/ r.trx_id \in ActiveIds'
               PROVE  r.roll.n \in DOMAIN undo'[r.trx_id]
    BY DEF Anchored
  <2>1. r.trx_id \in TrxIds
    BY RecordFacts
  <2>2. /\ r.roll.n \in DOMAIN undo[r.trx_id]
        /\ undo[r.trx_id][r.roll.n].type = "insert" <=> r.roll.ins
    BY <1>2, <1>4 DEF VersionOK
  <2>3. r.trx_id = id => work[c].upd
    BY <1>1, <1>2, <2>2 DEF LocksOK
  <2> QED
    BY <1>2, <2>1, <2>2, <2>3
<1>5. ASSUME NEW j \in Keys  PROVE Anchored(clust'[j])
  <2>1. clust'[j] = clust[j] /\ clust[j] \in Record /\ VersionOK(clust[j], j)
    BY <1>2, <1>3 DEF VersionsOK
  <2> QED
    BY <1>4, <2>1
<1>6. ASSUME NEW j \in TrxIds, NEW m \in DOMAIN undo'[j]  PROVE Anchored(undo[j][m].old)
  <2>1. m \in DOMAIN undo[j]
    BY <1>2 DEF UndoShrinks
  <2>2. PICK u \in UndoRec : u = undo[j][m] /\ u.key \in Keys /\ u.old \in Record
    BY <1>3, <2>1, UndoAt
  <2>3. VersionOK(u.old, u.key)
    BY <2>1, <2>2 DEF VersionsOK, UndoRecOK
  <2> QED
    BY <1>4, <2>2, <2>3
<1>7. m_max_trx_id <= m_max_trx_id'
  BY <1>2 DEF RInv, TypeOKR, TrxIds
<1> QED
  BY <1>2, <1>3, <1>5, <1>6, <1>7, VersionsShrunk

\* Every step keeps the versions good.
LEMMA VersionsKept ==
  ASSUME RInv, RInv', PurgePositionOK, TypesOK, TypesOK', UndoBounded, VersionsOK, TodoOK, LocksOK, PurgeOK,
         [Next]_vars
  PROVE  VersionsOK'
<1>1. clust \in [Keys -> Record] /\ clust' \in [Keys -> Record]
  BY DEF TypesOK
<1>2. m_max_trx_id \in Nat /\ m_max_trx_id \in TrxIds
  BY DEF RInv, TypeOKR, TrxIds
<1>3. ASSUME NEW c \in Clients, NEW k \in Keys, NEW type, NEW del, NEW val, NEW todo,
             RowStep(c, k, type, del, val, todo)
      PROVE  VersionsOK'
  BY <1>3, VersionsWritten
<1>4. ASSUME NEW c \in Clients, Begin(c)  PROVE VersionsOK'
  <2>1. /\ ActiveIds' = ActiveIds \cup {m_max_trx_id}
        /\ m_max_trx_id' = m_max_trx_id + 1
        /\ UNCHANGED <<clust, undo>>
    BY <1>4, BeginFacts
  <2>2. \A id \in ActiveIds' : id < m_max_trx_id => id \in ActiveIds
    BY <1>2, <2>1
  <2>3. m_max_trx_id <= m_max_trx_id'
    BY <1>2, <2>1
  <2> QED
    BY <1>1, <2>1, <2>2, <2>3, VersionsStay
<1>5. ASSUME NEW c \in Clients, NumberTrx(c)  PROVE VersionsOK'
  <2>1. /\ ActiveIds' = ActiveIds
        /\ m_max_trx_id' = m_max_trx_id + 1
        /\ UNCHANGED <<clust, undo>>
    BY <1>5, NumberFacts
  <2>2. m_max_trx_id <= m_max_trx_id'
    BY <1>2, <2>1
  <2> QED
    BY <1>1, <2>1, <2>2, VersionsStay
<1>6. ASSUME UNCHANGED <<trx, m_max_trx_id, undo>>,
             \A k \in Keys :
               \/ clust'[k] \in {clust[k], NoRec}
               \/ \E id \in TrxIds : \E n \in DOMAIN undo[id] :
                      undo[id][n].key = k /\ clust'[k] = undo[id][n].old
      PROVE  VersionsOK'
  <2>1. ActiveIds' = ActiveIds
    BY <1>6 DEF ActiveIds, IsActive
  <2>2. m_max_trx_id <= m_max_trx_id'
    BY <1>2, <1>6
  <2> QED
    BY <1>1, <1>6, <2>1, <2>2, VersionsStay
<1>7. ASSUME NEW c \in Clients, OpenView(c)  PROVE VersionsOK'
  <2>1. UNCHANGED <<trx, m_max_trx_id, undo, clust>>
    BY <1>7 DEF OpenView, assign_read_view, rows
  <2> QED
    BY <1>6, <2>1
<1>8. ASSUME NEW k \in Keys, NEW r, ClustStep(k, r)  PROVE VersionsOK'
  <2>1. clust' = [clust EXCEPT ![k] = r] /\ UNCHANGED <<trx, m_max_trx_id, undo>>
    BY <1>8 DEF ClustStep, rvars
  <2>2. \/ r \in {clust[k], NoRec}
        \/ \E id \in TrxIds : \E n \in DOMAIN undo[id] : undo[id][n].key = k /\ r = undo[id][n].old
    <3>1. CASE Undone(k, r)
      BY <1>1, <3>1, ActiveVersion DEF Undone, VersionsOK
    <3> QED
      BY <1>8, <3>1 DEF ClustStep, Purged
  <2>3. \A j \in Keys : clust'[j] = IF j = k THEN r ELSE clust[j]
    BY <1>1, <2>1
  <2> QED
    BY <1>6, <2>1, <2>2, <2>3
<1>9. Quiet => VersionsOK'
  <2> SUFFICES ASSUME Quiet  PROVE VersionsOK'
    OBVIOUS
  <2>1. UNCHANGED <<trx, m_max_trx_id, undo, clust>>
    BY DEF Quiet
  <2> QED
    BY <1>6, <2>1
<1>10. ASSUME NEW c \in Clients, EndTrx(c)  PROVE VersionsOK'
  BY <1>10, VersionsEnded
<1>11. ASSUME NEW c \in Clients, UndoPop(c)  PROVE VersionsOK'
  BY <1>11, VersionsPopped
<1> QED
  BY <1>3, <1>4, <1>5, <1>7, <1>8, <1>9, <1>10, <1>11, StepKinds

-----------------------------------------------------------------------------
(* The chains of versions stay without cycles, and the bound on undo       *)
(* records holds.                                                          *)

\* Without a new undo record nothing is to be shown.
LEMMA BoundShrunk ==
  ASSUME undo \in [TrxIds -> Seq(UndoRec)], UndoBounded, UndoShrinks
  PROVE  UndoBounded'
<1>1. \A id \in TrxIds : Len(undo[id]) \in Nat
  BY UndoAt
<1>2. undo' \in [TrxIds -> Seq(UndoRec)]
  BY DEF UndoShrinks
<1>3. \A id \in TrxIds : Len(undo'[id]) \in Nat
  BY <1>2
<1>4. \A id \in TrxIds : Len(undo'[id]) <= MaxUndo
  BY <1>1, <1>3, RowAssumption DEF UndoShrinks, UndoBounded
<1>5. UndoRecs' \subseteq UndoRecs
  BY DEF UndoShrinks, UndoRecs
<1>6. IsFiniteSet(UndoRecs) /\ Cardinality(UndoRecs) \in Nat
  BY UndoRecsFinite, RowAssumption DEF UndoBounded
<1>7. PICK S : S = UndoRecs
  OBVIOUS
<1>8. PICK T : T = UndoRecs'
  OBVIOUS
<1>9. IsFiniteSet(T) /\ Cardinality(T) <= Cardinality(S)
  BY <1>5, <1>6, <1>7, <1>8, FS_Subset
<1>10. Cardinality(T) \in Nat
  BY <1>9, FS_CardinalityType
<1>11. Cardinality(UndoRecs') <= MaxUndo
  BY <1>6, <1>7, <1>8, <1>9, <1>10, RowAssumption DEF UndoBounded
<1> QED
  BY <1>4, <1>11 DEF UndoBounded

\* A row operation needs room for its undo record.
LEMMA BoundWritten ==
  ASSUME RInv, TypesOK, UndoBounded, NEW c \in Clients, NEW k \in Keys,
         NEW type, NEW del, NEW val, NEW todo, RowStep(c, k, type, del, val, todo)
  PROVE  UndoBounded'
<1>1. PICK id : id = trx[c].id
  OBVIOUS
<1>2. PICK n : n = Len(undo[id]) + 1
  OBVIOUS
<1>3. /\ type \in Types /\ del \in BOOLEAN /\ val \in Vals /\ CanWrite(c, k)
      /\ Write(c, k, type, del, val, todo)
  BY DEF RowStep
<1>4. /\ id \in TrxIds /\ n \in 1 .. MaxUndo /\ n \notin DOMAIN undo[id]
      /\ undo' \in [TrxIds -> Seq(UndoRec)]
      /\ DOMAIN undo'[id] = 1 .. n
      /\ undo'[id][n] = [type |-> type, key |-> k, old |-> clust[k]]
      /\ \A j \in TrxIds : \A m \in DOMAIN undo[j] :
             m \in DOMAIN undo'[j] /\ undo'[j][m] = undo[j][m]
      /\ \A j \in TrxIds : \A m \in DOMAIN undo'[j] :
             m \in DOMAIN undo[j] \/ (j = id /\ m = n)
  BY <1>1, <1>2, <1>3, WriteFacts
<1>5. UndoRecs' = UndoRecs \cup {<<id, n>>}
  <2>1. n \in DOMAIN undo'[id]
    BY <1>4
  <2> QED
    BY <1>4, <2>1 DEF UndoRecs
<1>6. undo \in [TrxIds -> Seq(UndoRec)]
  BY DEF TypesOK
<1>7. IsFiniteSet(UndoRecs) /\ Cardinality(UndoRecs) \in Nat
  BY <1>6, UndoRecsFinite, RowAssumption DEF UndoBounded
<1>8. Cardinality(UndoRecs') <= MaxUndo
  <2>1. PICK S : S = UndoRecs
    OBVIOUS
  <2>3. PICK x \in Nat : x = Cardinality(S)
    BY <1>7, <2>1
  <2>2. Cardinality(S \cup {<<id, n>>}) <= x + 1
    <3>1. Cardinality(S \cup {<<id, n>>}) \in {x, x + 1}
      BY <1>7, <2>1, <2>3, FS_AddElement
    <3> QED
      BY <3>1
  <2>4. x < MaxUndo
    BY <1>3, <2>1, <2>3 DEF CanWrite
  <2>5. IsFiniteSet(S \cup {<<id, n>>})
    BY <1>7, <2>1, FS_AddElement
  <2>6. PICK y \in Nat : y = Cardinality(S \cup {<<id, n>>})
    BY <2>5, FS_CardinalityType
  <2>7. y <= MaxUndo
    BY <2>2, <2>3, <2>4, <2>6, RowAssumption
  <2> QED
    BY <1>5, <2>1, <2>6, <2>7
<1>9. ASSUME NEW j \in TrxIds  PROVE Len(undo'[j]) <= MaxUndo
  <2>1. PICK l \in Nat : l = Len(undo'[j]) /\ DOMAIN undo'[j] = 1 .. l
    BY <1>4
  <2>2. CASE j = id
    <3>1. PICK m \in Nat : m = n /\ m <= MaxUndo /\ m >= 1
      BY <1>4
    <3>2. l = m
      BY <1>4, <2>1, <2>2, <3>1
    <3> QED
      BY <2>1, <3>1, <3>2
  <2>3. CASE j # id
    <3>1. PICK m \in Nat : m = Len(undo[j]) /\ DOMAIN undo[j] = 1 .. m
      BY <1>6, UndoAt
    <3>2. m <= MaxUndo
      BY <3>1 DEF UndoBounded
    <3>3. l <= m
      <4>1. CASE l = 0
        BY <4>1
      <4>2. CASE l # 0
        <5>1. l \in DOMAIN undo'[j]
          BY <2>1, <4>2
        <5>2. l \in 1 .. m
          BY <1>4, <2>3, <3>1, <5>1
        <5> QED
          BY <5>2
      <4> QED
        BY <4>1, <4>2
    <3> QED
      BY <2>1, <3>2, <3>3, RowAssumption
  <2> QED
    BY <2>2, <2>3
<1> QED
  BY <1>8, <1>9 DEF UndoBounded

\* Where the depth of every record is known, it is known without the ones
\* that are lost, and with a new one.
LEMMA AcyclicShrunk ==
  ASSUME Acyclic, UndoShrinks
  PROVE  Acyclic'
<1>1. PICK d \in [TrxIds -> [Nat -> Nat]] :
        \A id \in TrxIds : \A n \in DOMAIN undo[id] : d[id][n] = 1 + DepthOf(d, undo[id][n].old)
  BY DEF Acyclic
<1>2. \A id \in TrxIds : \A n \in DOMAIN undo'[id] : d[id][n] = 1 + DepthOf(d, undo'[id][n].old)
  BY <1>1 DEF UndoShrinks
<1> QED
  BY <1>2 DEF Acyclic, DepthOf

\* A row operation adds a record on top of a chain: no cycle can close.
LEMMA AcyclicWritten ==
  ASSUME RInv, TypesOK, UndoBounded, VersionsOK, Acyclic, NEW c \in Clients, NEW k \in Keys,
         NEW type, NEW del, NEW val, NEW todo, RowStep(c, k, type, del, val, todo)
  PROVE  Acyclic'
<1>1. PICK id : id = trx[c].id
  OBVIOUS
<1>2. PICK n : n = Len(undo[id]) + 1
  OBVIOUS
<1>3. /\ type \in Types /\ del \in BOOLEAN /\ val \in Vals /\ CanWrite(c, k)
      /\ Write(c, k, type, del, val, todo)
  BY DEF RowStep
<1>4. /\ id \in TrxIds /\ n \in 1 .. MaxUndo /\ n \notin DOMAIN undo[id]
      /\ undo' \in [TrxIds -> Seq(UndoRec)]
      /\ undo'[id][n] = [type |-> type, key |-> k, old |-> clust[k]]
      /\ \A j \in TrxIds : \A m \in DOMAIN undo[j] : undo'[j][m] = undo[j][m]
      /\ \A j \in TrxIds : \A m \in DOMAIN undo'[j] :
             m \in DOMAIN undo[j] \/ (j = id /\ m = n)
  BY <1>1, <1>2, <1>3, WriteFacts
<1>5. PICK d \in [TrxIds -> [Nat -> Nat]] :
        \A j \in TrxIds : \A m \in DOMAIN undo[j] : d[j][m] = 1 + DepthOf(d, undo[j][m].old)
  BY DEF Acyclic
<1>6. PICK q \in Record : q = clust[k] /\ VersionOK(q, k)
  BY DEF TypesOK, VersionsOK
<1>7. undo \in [TrxIds -> Seq(UndoRec)]
  BY DEF TypesOK
\* A version that is there does not point to the new record.
<1>8. ASSUME NEW r \in Record, NEW j \in Keys, VersionOK(r, j), ~r.roll.ins
      PROVE  r.roll.trx \in TrxIds /\ r.roll.n \in Nat /\ ~(r.roll.trx = id /\ r.roll.n = n)
  <2>1. r.trx_id # 0 /\ r.trx_id \in TrxIds
    BY <1>8, RecordFacts
  <2>2. r.roll.trx = r.trx_id /\ r.roll.n \in DOMAIN undo[r.trx_id]
    BY <1>8, <2>1 DEF VersionOK
  <2>3. DOMAIN undo[r.trx_id] = 1 .. Len(undo[r.trx_id])
    BY <1>7, <2>1, UndoAt
  <2>4. r.roll.n \in Nat
    BY <2>2, <2>3
  <2> QED
    BY <1>4, <2>1, <2>2, <2>4
<1> DEFINE x == 1 + DepthOf(d, q)
           e == [d EXCEPT ![id] = [@ EXCEPT ![n] = x]]
<1>9. x \in Nat
  BY <1>5, <1>6, <1>8 DEF DepthOf
<1>10. n \in Nat
  BY <1>4
<1> HIDE DEF x
<1>11. e \in [TrxIds -> [Nat -> Nat]]
  BY <1>4, <1>5, <1>9, <1>10
<1>12. /\ e[id][n] = x
       /\ \A j \in TrxIds : \A m \in Nat : ~(j = id /\ m = n) => e[j][m] = d[j][m]
  BY <1>4, <1>5, <1>10
<1> HIDE DEF e
<1>13. ASSUME NEW r \in Record, NEW j \in Keys, VersionOK(r, j)
       PROVE  DepthOf(e, r) = DepthOf(d, r)
  BY <1>8, <1>12, <1>13 DEF DepthOf
<1>14. ASSUME NEW j \in TrxIds, NEW m \in DOMAIN undo'[j]
       PROVE  e[j][m] = 1 + DepthOf(e, undo'[j][m].old)
  <2>1. CASE j = id /\ m = n
    <3>1. undo'[j][m].old = q
      BY <1>4, <1>6, <2>1
    <3> QED
      BY <1>6, <1>12, <1>13, <2>1, <3>1 DEF x
  <2>2. CASE ~(j = id /\ m = n)
    <3>1. m \in DOMAIN undo[j] /\ m \in Nat
      <4>1. m \in DOMAIN undo[j]
        BY <1>4, <2>2
      <4>2. DOMAIN undo[j] = 1 .. Len(undo[j])
        BY <1>7, UndoAt
      <4> QED
        BY <4>1, <4>2
    <3>2. PICK u \in UndoRec : u = undo[j][m] /\ u.key \in Keys /\ u.old \in Record
      BY <1>7, <3>1, UndoAt
    <3>3. VersionOK(u.old, u.key)
      BY <3>1, <3>2 DEF VersionsOK, UndoRecOK
    <3>4. undo'[j][m] = u
      BY <1>4, <3>1, <3>2
    <3>5. e[j][m] = d[j][m] /\ d[j][m] = 1 + DepthOf(d, u.old)
      BY <1>5, <1>12, <2>2, <3>1, <3>2
    <3>6. DepthOf(e, u.old) = DepthOf(d, u.old)
      BY <1>13, <3>2, <3>3
    <3> QED
      BY <3>4, <3>5, <3>6
  <2> QED
    BY <2>1, <2>2
<1> QED
  BY <1>11, <1>14 DEF Acyclic, DepthOf

-----------------------------------------------------------------------------
(* What versions show, for a set of hidden transactions that contains the  *)
(* active ones.                                                            *)

\* A row operation of a hidden transaction changes nothing that is shown.
LEMMA ShowsWritten ==
  ASSUME RInv, TypesOK, UndoBounded, NEW c \in Clients, NEW k \in Keys,
         NEW type, NEW del, NEW val, NEW todo, RowStep(c, k, type, del, val, todo),
         NEW H \in SUBSET TrxIds, ActiveIds \subseteq H, NEW f, RowsShow(H, f)
  PROVE  RowsShow(H, f)'
<1>1. PICK id : id = trx[c].id
  OBVIOUS
<1>2. PICK n : n = Len(undo[id]) + 1
  OBVIOUS
<1>3. /\ type \in Types /\ del \in BOOLEAN /\ val \in Vals /\ CanWrite(c, k)
      /\ type = "insert" <=> clust[k] = NoRec
      /\ Write(c, k, type, del, val, todo)
  BY DEF RowStep
<1> DEFINE new == [trx_id |-> id, del |-> del, val |-> val,
                   roll |-> [trx |-> id, n |-> n, ins |-> type = "insert"]]
           u == [type |-> type, key |-> k, old |-> clust[k]]
<1>4. /\ id \in ActiveIds /\ id \in TrxIds /\ n \in 1 .. MaxUndo
      /\ clust' = [clust EXCEPT ![k] = new]
      /\ undo' \in [TrxIds -> Seq(UndoRec)]
      /\ DOMAIN undo'[id] = 1 .. n
      /\ undo'[id][n] = u
      /\ \A j \in TrxIds : \A m \in DOMAIN undo[j] :
             m \in DOMAIN undo'[j] /\ undo'[j][m] = undo[j][m]
      /\ \A j \in TrxIds : \A m \in DOMAIN undo'[j] :
             m \in DOMAIN undo[j] \/ (j = id /\ m = n)
      /\ UNCHANGED <<rvars, purge, committed, snap>>
  BY <1>1, <1>2, <1>3, WriteFacts
<1>5. clust \in [Keys -> Record]
  BY DEF TypesOK
<1>6. 0 \notin H
  BY DEF TrxIds
<1>7. type = "insert" => f[k] = 0
  <2> SUFFICES ASSUME type = "insert"  PROVE f[k] = 0
    OBVIOUS
  <2>1. RecShows(H, NoRec, f[k])
    BY <1>3 DEF RowsShow
  <2> QED
    BY <1>6, <2>1, NoRecFacts DEF RecShows
<1>8. new.trx_id = id /\ new.roll.ins = (type = "insert") /\ u.type = type /\ u.key = k /\ u.old = clust[k]
  OBVIOUS
<1> HIDE DEF new, u
<1>9. ASSUME NEW j \in Keys  PROVE RecShows(H, clust'[j], f[j])
  <2>1. CASE j = k
    <3>1. clust'[j] = new
      BY <1>4, <1>5, <2>1
    <3> QED
      BY <1>4, <1>7, <1>8, <2>1, <3>1 DEF RecShows
  <2>2. CASE j # k
    <3>1. clust'[j] = clust[j]
      BY <1>4, <1>5, <2>2
    <3> QED
      BY <3>1 DEF RowsShow
  <2> QED
    BY <2>1, <2>2
<1>10. ASSUME NEW j \in H, NEW m \in DOMAIN undo'[j], undo'[j][m].type # "insert"
       PROVE  RecShows(H, undo'[j][m].old, f[undo'[j][m].key])
  <2>1. CASE m \in DOMAIN undo[j]
    <3>1. undo'[j][m] = undo[j][m]
      BY <1>4, <2>1
    <3> QED
      BY <1>10, <2>1, <3>1 DEF RowsShow
  <2>2. CASE j = id /\ m = n
    <3>1. undo'[j][m] = u
      BY <1>4, <2>2
    <3> QED
      BY <1>8, <3>1 DEF RowsShow
  <2> QED
    BY <1>4, <2>1, <2>2
<1> QED
  BY <1>9, <1>10 DEF RowsShow

\* Nor does the rollback of a hidden change, or purge of a row that is
\* visibly deleted.
LEMMA ShowsBack ==
  ASSUME RInv, TypesOK, VersionsOK, NEW k \in Keys, NEW r, ClustStep(k, r),
         NEW H \in SUBSET TrxIds, ActiveIds \subseteq H,
         \A id \in TrxIds : Sees(m_view, id) => id \notin H,
         NEW f, RowsShow(H, f)
  PROVE  RowsShow(H, f)'
<1>1. clust' = [clust EXCEPT ![k] = r] /\ UNCHANGED undo /\ r \in Record
  BY DEF ClustStep
<1>2. clust \in [Keys -> Record] /\ VersionOK(clust[k], k)
  BY DEF TypesOK, VersionsOK
<1>3. 0 \notin H
  BY DEF TrxIds
<1>4. RecShows(H, clust[k], f[k])
  BY DEF RowsShow
<1>5. f[k] = 0 => RecShows(H, NoRec, f[k])
  BY <1>3, NoRecFacts DEF RecShows
<1>6. ASSUME Undone(k, r)  PROVE RecShows(H, r, f[k])
  <2>1. PICK id \in TrxIds : id = clust[k].trx_id /\ id \in H
    BY <1>6, ActiveFacts DEF Undone
  <2>2. PICK n \in DOMAIN undo[id] : n = clust[k].roll.n
    BY <1>2, <1>6, <2>1, ActiveVersion DEF Undone
  <2>3. /\ undo[id][n].key = k
        /\ undo[id][n].type = "insert" <=> clust[k].roll.ins
        /\ undo[id][n].type = "insert" <=> undo[id][n].old = NoRec
        /\ r = undo[id][n].old
    <3>1. /\ undo[id][n].key = k
          /\ undo[id][n].type = "insert" <=> clust[k].roll.ins
      BY <1>2, <1>6, <2>1, <2>2, ActiveVersion DEF Undone
    <3>2. undo[id][n].type = "insert" <=> undo[id][n].old = NoRec
      BY <2>1, <2>2 DEF VersionsOK, UndoRecOK
    <3> QED
      BY <1>6, <2>1, <2>2, <3>1, <3>2 DEF Undone
  <2>4. CASE clust[k].roll.ins
    BY <1>4, <1>5, <2>1, <2>3, <2>4 DEF RecShows
  <2>5. CASE ~clust[k].roll.ins
    BY <2>1, <2>3, <2>5 DEF RowsShow
  <2> QED
    BY <2>4, <2>5
<1>7. ASSUME Purged(k, r)  PROVE RecShows(H, r, f[k])
  <2>1. clust[k].trx_id \in TrxIds
    BY <1>2, <1>7, RecordFacts DEF Purged
  <2>2. clust[k].trx_id \notin H
    BY <1>7, <2>1 DEF Purged
  <2>3. f[k] = 0
    BY <1>4, <1>7, <2>2 DEF Purged, RecShows, RowOf
  <2> QED
    BY <1>5, <1>7, <2>3 DEF Purged
<1>8. RecShows(H, r, f[k])
  BY <1>4, <1>6, <1>7 DEF ClustStep
<1>9. \A j \in Keys : RecShows(H, clust'[j], f[j])
  <2> SUFFICES ASSUME NEW j \in Keys  PROVE RecShows(H, clust'[j], f[j])
    OBVIOUS
  <2>1. clust'[j] = IF j = k THEN r ELSE clust[j]
    BY <1>1, <1>2
  <2> QED
    BY <1>8, <2>1 DEF RowsShow
<1> QED
  BY <1>1, <1>9 DEF RowsShow

\* Nor does the loss of undo records.
LEMMA ShowsShrunk ==
  ASSUME UNCHANGED clust, UndoShrinks, NEW H \in SUBSET TrxIds, NEW f, RowsShow(H, f)
  PROVE  RowsShow(H, f)'
  BY DEF RowsShow, UndoShrinks

\* Which ids that are not yet in use are hidden is of no importance.
LEMMA ShowsSame ==
  ASSUME RInv, TypesOK, VersionsOK, NEW H \in SUBSET TrxIds, NEW G \in SUBSET TrxIds,
         \A id \in TrxIds : id < m_max_trx_id => (id \in H <=> id \in G), NEW f, RowsShow(H, f)
  PROVE  RowsShow(G, f)
<1>1. clust \in [Keys -> Record] /\ undo \in [TrxIds -> Seq(UndoRec)]
  BY DEF TypesOK
<1>2. ASSUME NEW r \in Record, NEW k \in Keys, VersionOK(r, k), RecShows(H, r, f[k])
      PROVE  RecShows(G, r, f[k])
  <2>1. r.trx_id \in H <=> r.trx_id \in G
    <3>1. CASE r.trx_id = 0
      BY <3>1 DEF TrxIds
    <3>2. CASE r.trx_id # 0
      BY <1>2, <3>2, RecordFacts DEF VersionOK
    <3> QED
      BY <3>1, <3>2
  <2> QED
    BY <1>2, <2>1 DEF RecShows
<1>3. \A k \in Keys : RecShows(G, clust[k], f[k])
  BY <1>1, <1>2 DEF VersionsOK, RowsShow
<1>4. ASSUME NEW id \in G, NEW n \in DOMAIN undo[id], undo[id][n].type # "insert"
      PROVE  RecShows(G, undo[id][n].old, f[undo[id][n].key])
  <2>1. PICK u \in UndoRec : u = undo[id][n] /\ u.key \in Keys /\ u.old \in Record
    BY <1>1, UndoAt
  <2>2. UndoRecOK(id, n, u)
    BY <2>1 DEF VersionsOK
  <2>3. id \in H /\ VersionOK(u.old, u.key)
    BY <2>2 DEF UndoRecOK
  <2>4. RecShows(H, u.old, f[u.key])
    BY <1>4, <2>1, <2>3 DEF RowsShow
  <2> QED
    BY <1>2, <2>1, <2>3, <2>4
<1> QED
  BY <1>3, <1>4 DEF RowsShow

\* When a transaction ends, what it has left in the index is the committed
\* row, and what the others have overwritten is what it was.
LEMMA ShowsEnded ==
  ASSUME RInv, TypesOK, VersionsOK, LocksOK, NEW c \in Clients, EndTrx(c), CommittedShown
  PROVE  CommittedShown'
<1>1. PICK id : id = trx[c].id
  OBVIOUS
<1>2. PICK H : H = ActiveIds
  OBVIOUS
<1>3. PICK f : f = committed
  OBVIOUS
<1>4. PICK G : G = H \ {id}
  OBVIOUS
<1>5. PICK g : g = committed'
  OBVIOUS
<1>6. /\ IsActive(c) /\ id \in TrxIds /\ UndoShrinks
      /\ \A j \in TrxIds : j # id \/ work[c].upd => undo'[j] = undo[j]
      /\ ActiveIds' = G
      /\ UNCHANGED clust
  BY <1>1, <1>2, <1>4, EndTrxFacts
<1>7. g = [k \in Keys |-> IF clust[k].trx_id # id THEN f[k] ELSE RowOf(clust[k])]
  BY <1>1, <1>3, <1>5 DEF EndTrx, RowOf
<1>8. RowsShow(H, f)
  BY <1>2, <1>3 DEF CommittedShown
<1>9. H \subseteq TrxIds
  BY <1>2, ActiveFacts
<1>10. ASSUME NEW k \in Keys  PROVE RecShows(G, clust[k], g[k])
  <2>1. CASE clust[k].trx_id = id
    BY <1>4, <1>7, <2>1 DEF RecShows
  <2>2. CASE clust[k].trx_id # id
    <3>1. g[k] = f[k] /\ (clust[k].trx_id \in G <=> clust[k].trx_id \in H)
      BY <1>4, <1>7, <2>2
    <3>2. RecShows(H, clust[k], f[k])
      BY <1>8 DEF RowsShow
    <3> QED
      BY <3>1, <3>2 DEF RecShows
  <2> QED
    BY <2>1, <2>2
<1>11. ASSUME NEW j \in G, NEW m \in DOMAIN undo'[j], undo'[j][m].type # "insert"
       PROVE  RecShows(G, undo'[j][m].old, g[undo'[j][m].key])
  <2>1. j \in H /\ j # id /\ j \in TrxIds
    BY <1>4, <1>9
  <2>2. PICK d \in Clients : IsActive(d) /\ trx[d].id = j
    BY <1>2, <2>1, ActiveFacts
  <2>3. undo'[j] = undo[j] /\ d # c
    BY <1>1, <1>6, <2>1, <2>2
  <2>4. PICK u \in UndoRec : u = undo[j][m] /\ u.key \in Keys /\ u.old \in Record
    BY <2>1, <2>3, UndoAt DEF TypesOK
  <2>5. UndoRecOK(j, m, u) /\ u.type # "insert" /\ m \in DOMAIN undo[j]
    BY <1>11, <2>1, <2>3, <2>4 DEF VersionsOK
  <2>6. u.key \in work[d].locks
    BY <2>2, <2>4, <2>5 DEF LocksOK
  <2>7. clust[u.key].trx_id # id
    BY <1>1, <1>6, <2>2, <2>3, <2>4, <2>6 DEF LocksOK
  <2>8. g[u.key] = f[u.key]
    BY <1>7, <2>4, <2>7
  <2>9. u.old.trx_id \in G <=> u.old.trx_id \in H
    BY <1>2, <1>4, <2>1, <2>5 DEF UndoRecOK
  <2>10. RecShows(H, u.old, f[u.key])
    BY <1>8, <2>1, <2>4, <2>5 DEF RowsShow
  <2>11. RecShows(G, u.old, g[u.key])
    BY <2>8, <2>9, <2>10 DEF RecShows
  <2> QED
    BY <2>3, <2>4, <2>11
<1>12. RowsShow(G, g)'
  BY <1>6, <1>10, <1>11 DEF RowsShow
<1> QED
  BY <1>5, <1>6, <1>12 DEF CommittedShown

\* Every step keeps what is shown without the changes of active
\* transactions: the committed rows.
LEMMA CommittedKept ==
  ASSUME RInv, RInv', PurgePositionOK, TypesOK, UndoBounded, VersionsOK, TodoOK, LocksOK, PurgeOK,
         CommittedShown, [Next]_vars
  PROVE  CommittedShown'
<1>1. PICK H : H = ActiveIds
  OBVIOUS
<1>2. PICK f : f = committed
  OBVIOUS
<1>3. H \in SUBSET TrxIds /\ ActiveIds \subseteq H /\ RowsShow(H, f)
  BY <1>1, <1>2, ActiveFacts DEF CommittedShown
<1>4. \A id \in TrxIds : Sees(m_view, id) => id \notin H
  BY <1>1, PurgeSeesNoActive
<1>5. ASSUME UNCHANGED <<trx, committed>>, RowsShow(H, f)'  PROVE CommittedShown'
  <2>1. ActiveIds' = H /\ committed' = f
    BY <1>1, <1>2, <1>5 DEF ActiveIds, IsActive
  <2> QED
    BY <1>5, <2>1 DEF CommittedShown
<1>6. ASSUME UNCHANGED <<clust, undo>>  PROVE RowsShow(H, f)'
  BY <1>3, <1>6 DEF RowsShow
<1>7. ASSUME NEW c \in Clients, NEW k \in Keys, NEW type, NEW del, NEW val, NEW todo,
             RowStep(c, k, type, del, val, todo)
      PROVE  CommittedShown'
  <2>1. RowsShow(H, f)'
    BY <1>3, <1>7, ShowsWritten
  <2>2. UNCHANGED <<trx, committed>>
    BY <1>7 DEF RowStep, Write, rvars, ghosts
  <2> QED
    BY <1>5, <2>1, <2>2
<1>8. ASSUME NEW c \in Clients, Begin(c)  PROVE CommittedShown'
  <2>1. PICK id \in TrxIds : id = m_max_trx_id
    BY DEF RInv, TypeOKR
  <2>2. ActiveIds' = H \cup {id} /\ UNCHANGED <<clust, undo, committed>>
    BY <1>1, <1>8, <2>1, BeginFacts
  <2>3. PICK G \in SUBSET TrxIds : G = H \cup {id}
    BY <1>3, <2>1
  <2>4. \A j \in TrxIds : j < m_max_trx_id => (j \in H <=> j \in G)
    BY <2>1, <2>3 DEF TrxIds
  <2>5. RowsShow(G, f)
    BY <1>3, <2>4, ShowsSame
  <2>6. RowsShow(G, f)'
    BY <2>2, <2>5 DEF RowsShow
  <2> QED
    BY <1>2, <2>2, <2>3, <2>6 DEF CommittedShown
<1>9. ASSUME NEW c \in Clients, OpenView(c)  PROVE CommittedShown'
  <2>1. UNCHANGED <<trx, clust, undo, committed>>
    BY <1>9 DEF OpenView, assign_read_view, rows
  <2> QED
    BY <1>5, <1>6, <2>1
<1>10. ASSUME NEW c \in Clients, NumberTrx(c)  PROVE CommittedShown'
  <2>1. ActiveIds' = H /\ UNCHANGED <<clust, undo, committed>>
    BY <1>1, <1>10, NumberFacts
  <2>2. RowsShow(H, f)'
    BY <1>6, <2>1
  <2> QED
    BY <1>2, <2>1, <2>2 DEF CommittedShown
<1>11. ASSUME NEW c \in Clients, EndTrx(c)  PROVE CommittedShown'
  BY <1>11, ShowsEnded
<1>12. ASSUME NEW c \in Clients, UndoPop(c)  PROVE CommittedShown'
  <2>1. UndoShrinks /\ UNCHANGED <<rvars, clust, committed>>
    BY <1>12, PopFacts
  <2>2. RowsShow(H, f)'
    BY <1>3, <2>1, ShowsShrunk
  <2> QED
    BY <1>5, <2>1, <2>2 DEF rvars
<1>13. ASSUME NEW k \in Keys, NEW r, ClustStep(k, r)  PROVE CommittedShown'
  <2>1. RowsShow(H, f)'
    BY <1>3, <1>4, <1>13, ShowsBack
  <2>2. UNCHANGED <<trx, committed>>
    BY <1>13 DEF ClustStep, rvars
  <2> QED
    BY <1>5, <2>1, <2>2
<1>14. Quiet => CommittedShown'
  BY <1>5, <1>6 DEF Quiet
<1> QED
  BY <1>7, <1>8, <1>9, <1>10, <1>11, <1>12, <1>13, <1>14, StepKinds

\* What a view shows to its creator stays, while the view is open.
LEMMA SnapsStay ==
  ASSUME RInv, SnapsShown,
         \A c \in Clients : \A i \in DOMAIN m_view_list' :
             IsActive(c)' /\ m_view_list'[i].creator = trx'[c].id =>
                 /\ IsActive(c) /\ trx'[c].id = trx[c].id /\ snap'[c] = snap[c]
                 /\ \E j \in DOMAIN m_view_list : m_view_list'[i] = m_view_list[j],
         \A H \in SUBSET TrxIds : \A f :
             /\ ActiveIds \subseteq H
             /\ \A id \in TrxIds : Sees(m_view, id) => id \notin H
             /\ RowsShow(H, f)
             => RowsShow(H, f)'
  PROVE  SnapsShown'
<1> SUFFICES ASSUME NEW c \in Clients, NEW i \in DOMAIN m_view_list',
                    IsActive(c)', m_view_list'[i].creator = trx'[c].id
             PROVE  RowsShow(Hidden(m_view_list[i]), snap[c])'
  BY DEF SnapsShown
<1>1. PICK j \in DOMAIN m_view_list : m_view_list'[i] = m_view_list[j]
  OBVIOUS
<1>2. IsActive(c) /\ m_view_list[j].creator = trx[c].id /\ snap'[c] = snap[c]
  BY <1>1
<1>3. PICK H : H = Hidden(m_view_list[j])
  OBVIOUS
<1>4. PICK f : f = snap[c]
  OBVIOUS
<1>5. RowsShow(H, f)
  BY <1>2, <1>3, <1>4 DEF SnapsShown
<1>6. m_view_list[j].creator \in ActiveIds
  BY <1>2, ActiveFacts
<1>7. /\ H \in SUBSET TrxIds /\ ActiveIds \subseteq H
      /\ \A id \in TrxIds : Sees(m_view, id) => id \notin H
  BY <1>3, <1>6, HiddenFacts
<1>8. RowsShow(H, f)'
  BY <1>5, <1>7
<1>9. Hidden(m_view_list'[i]) = H
  BY <1>1, <1>3
<1>10. snap'[c] = f
  BY <1>2, <1>4
<1> QED
  BY <1>8, <1>9, <1>10

\* A view that is opened shows its creator the committed rows.
LEMMA SnapsOpened ==
  ASSUME RInv, TypesOK, VersionsOK, CommittedShown, SnapsShown, NEW c \in Clients, OpenView(c)
  PROVE  SnapsShown'
<1>1. assign_read_view(c) /\ IsActive(c) /\ ~HasView(c)
  BY DEF OpenView, assign_read_view
<1>2. /\ snap' = [snap EXCEPT ![c] = committed]
      /\ UNCHANGED <<trx, clust, undo, committed>>
  BY DEF OpenView, assign_read_view, rows
<1>3. PICK cr \in TrxIds : cr = trx[c].id /\ cr \in ActiveIds
  BY <1>1, ActiveFacts
<1>4. PICK v \in View : v = read_view_open_now(cr)
  BY <1>1, <1>3, AssignedView
<1>5. v.creator = cr /\ v.low_limit_id = m_max_trx_id /\ v.trx_ids = Unseen(cr)
  BY <1>4 DEF read_view_open_now
<1>6. PICK list \in Seq(View) : list = m_view_list
  BY DEF RInv, TypeOKR
<1>7. m_view_list' = <<v>> \o list
  BY <1>1, <1>3, <1>4, <1>6 DEF assign_read_view
<1>8. /\ DOMAIN m_view_list' = 1 .. Len(list) + 1 /\ m_view_list'[1] = v
      /\ \A i \in 2 .. Len(list) + 1 : i - 1 \in DOMAIN list /\ m_view_list'[i] = list[i - 1]
  BY <1>7, PrependFacts
<1>9. PICK H : H = Hidden(v)
  OBVIOUS
<1>10. PICK A : A = ActiveIds
  OBVIOUS
<1>11. PICK f : f = committed
  OBVIOUS
<1>12. H \in SUBSET TrxIds /\ A \in SUBSET TrxIds
  BY <1>9, <1>10, ActiveFacts DEF Hidden
<1>13. \A id \in TrxIds : id < m_max_trx_id => (id \in A <=> id \in H)
  BY <1>3, <1>5, <1>9, <1>10 DEF Hidden, Sees, Unseen
<1>14. RowsShow(A, f)
  BY <1>10, <1>11 DEF CommittedShown
<1>15. RowsShow(H, f)
  BY <1>12, <1>13, <1>14, ShowsSame
<1>16. snap'[c] = f /\ \A d \in Clients \ {c} : snap'[d] = snap[d]
  BY <1>2, <1>11 DEF TypesOK
<1> SUFFICES ASSUME NEW d \in Clients, NEW i \in DOMAIN m_view_list',
                    IsActive(d)', m_view_list'[i].creator = trx'[d].id
             PROVE  RowsShow(Hidden(m_view_list[i]), snap[d])'
  BY DEF SnapsShown
<1>17. IsActive(d) /\ trx'[d].id = trx[d].id
  BY <1>2 DEF IsActive
<1>18. CASE i = 1
  <2>1. d = c
    BY <1>1, <1>3, <1>5, <1>8, <1>17, <1>18, ActiveFacts
  <2>2. Hidden(m_view_list'[i]) = H /\ snap'[d] = f
    BY <1>8, <1>9, <1>16, <1>18, <2>1
  <2>3. RowsShow(H, f)'
    BY <1>2, <1>15 DEF RowsShow
  <2> QED
    BY <2>2, <2>3
<1>19. CASE i # 1
  <2>1. PICK j \in DOMAIN list : m_view_list'[i] = list[j]
    BY <1>8, <1>19
  <2>2. list[j].creator = trx[d].id
    BY <1>17, <2>1
  <2>3. d # c
    BY <1>1, <1>6, <2>1, <2>2 DEF HasView, ViewsOf
  <2>4. PICK G : G = Hidden(list[j])
    OBVIOUS
  <2>5. PICK g : g = snap[d]
    OBVIOUS
  <2>6. RowsShow(G, g)
    BY <1>6, <1>17, <2>1, <2>2, <2>4, <2>5 DEF SnapsShown
  <2>7. RowsShow(G, g)'
    BY <1>2, <2>6 DEF RowsShow
  <2>8. Hidden(m_view_list'[i]) = G /\ snap'[d] = g
    BY <1>16, <2>1, <2>3, <2>4, <2>5
  <2> QED
    BY <2>7, <2>8
<1> QED
  BY <1>18, <1>19

\* Every step keeps what views show to their creators.
LEMMA SnapsKept ==
  ASSUME RInv, RInv', PurgePositionOK, TypesOK, UndoBounded, VersionsOK, TodoOK, LocksOK, PurgeOK,
         CommittedShown, SnapsShown, [Next]_vars
  PROVE  SnapsShown'
<1> DEFINE Keeps == \A H \in SUBSET TrxIds : \A f :
                        /\ ActiveIds \subseteq H
                        /\ \A id \in TrxIds : Sees(m_view, id) => id \notin H
                        /\ RowsShow(H, f)
                        => RowsShow(H, f)'
           From == \A c \in Clients : \A i \in DOMAIN m_view_list' :
                       IsActive(c)' /\ m_view_list'[i].creator = trx'[c].id =>
                           /\ IsActive(c) /\ trx'[c].id = trx[c].id /\ snap'[c] = snap[c]
                           /\ \E j \in DOMAIN m_view_list : m_view_list'[i] = m_view_list[j]
<1>1. ASSUME Keeps, From  PROVE SnapsShown'
  BY <1>1, SnapsStay
<1>2. ASSUME UNCHANGED <<trx, m_view_list, snap>>  PROVE From
  BY <1>2 DEF IsActive
<1>3. ASSUME UNCHANGED <<clust, undo>>  PROVE Keeps
  BY <1>3 DEF RowsShow
<1>4. ASSUME NEW c \in Clients, NEW k \in Keys, NEW type, NEW del, NEW val, NEW todo,
             RowStep(c, k, type, del, val, todo)
      PROVE  SnapsShown'
  <2>1. Keeps
    BY <1>4, ShowsWritten
  <2>2. UNCHANGED <<trx, m_view_list, snap>>
    BY <1>4 DEF RowStep, Write, rvars, ghosts
  <2> QED
    BY <1>1, <1>2, <2>1, <2>2
<1>5. ASSUME NEW c \in Clients, Begin(c)  PROVE SnapsShown'
  <2>1. PICK id \in TrxIds : id = m_max_trx_id
    BY DEF RInv, TypeOKR
  <2>2. /\ \A d \in Clients : IsActive(d)' <=> IsActive(d) \/ d = c
        /\ \A d \in Clients \ {c} : trx'[d] = trx[d]
        /\ trx'[c].id = id
        /\ UNCHANGED <<m_view_list, clust, undo, snap>>
    BY <1>5, <2>1, BeginFacts
  <2>3. \A i \in DOMAIN m_view_list : m_view_list[i].creator # id
    <3> SUFFICES ASSUME NEW i \in DOMAIN m_view_list  PROVE m_view_list[i].creator # id
      OBVIOUS
    <3>1. ViewOK(m_view_list[i]) /\ m_view_list[i] \in View
      BY DEF RInv, TypeOKR
    <3> QED
      BY <2>1, <3>1 DEF ViewOK, WellFormed, View, TrxIds
  <2>4. From
    BY <2>2, <2>3
  <2>5. Keeps
    BY <1>3, <2>2
  <2> QED
    BY <1>1, <2>4, <2>5
<1>6. ASSUME NEW c \in Clients, OpenView(c)  PROVE SnapsShown'
  BY <1>6, SnapsOpened
<1>7. ASSUME NEW c \in Clients, NumberTrx(c)  PROVE SnapsShown'
  <2>1. /\ \A d \in Clients : (IsActive(d)' <=> IsActive(d)) /\ trx'[d].id = trx[d].id
        /\ UNCHANGED <<m_view_list, clust, undo, snap>>
    BY <1>7, NumberFacts
  <2>2. From
    BY <2>1
  <2>3. Keeps
    BY <1>3, <2>1
  <2> QED
    BY <1>1, <2>2, <2>3
<1>8. ASSUME NEW c \in Clients, EndTrx(c)  PROVE SnapsShown'
  <2>1. PICK id : id = trx[c].id
    OBVIOUS
  <2>2. /\ UndoShrinks
        /\ \A d \in Clients : IsActive(d)' <=> IsActive(d) /\ d # c
        /\ \A d \in Clients \ {c} : trx'[d] = trx[d]
        /\ UNCHANGED clust
    BY <1>8, <2>1, EndTrxFacts
  <2>3. \A d \in Clients \ {c} : snap'[d] = snap[d]
    BY <1>8 DEF EndTrx, TypesOK
  <2>4. \A i \in DOMAIN m_view_list' : \E j \in DOMAIN m_view_list : m_view_list'[i] = m_view_list[j]
    <3>1. CASE m_view_list' = m_view_list
      BY <3>1
    <3>2. ASSUME NEW k \in ViewsOf(trx[c].id), m_view_list' = WithoutAt(m_view_list, k)
          PROVE  \A i \in DOMAIN m_view_list' : \E j \in DOMAIN m_view_list : m_view_list'[i] = m_view_list[j]
      <4>1. m_view_list \in Seq(View) /\ k \in DOMAIN m_view_list
        BY <3>2 DEF RInv, TypeOKR, ViewsOf
      <4> QED
        BY <3>2, <4>1, WithoutAtFacts
    <3> QED
      BY <1>8, <3>1, <3>2 DEF EndTrx, CommitInMemory
  <2>5. From
    BY <2>2, <2>3, <2>4
  <2>6. Keeps
    BY <2>2, ShowsShrunk
  <2> QED
    BY <1>1, <2>5, <2>6
<1>9. ASSUME NEW c \in Clients, UndoPop(c)  PROVE SnapsShown'
  <2>1. UndoShrinks /\ UNCHANGED <<rvars, clust, snap>>
    BY <1>9, PopFacts
  <2>2. Keeps
    BY <2>1, ShowsShrunk
  <2>3. UNCHANGED <<trx, m_view_list, snap>>
    BY <2>1 DEF rvars
  <2> QED
    BY <1>1, <1>2, <2>2, <2>3
<1>10. ASSUME NEW k \in Keys, NEW r, ClustStep(k, r)  PROVE SnapsShown'
  <2>1. Keeps
    BY <1>10, ShowsBack
  <2>2. UNCHANGED <<trx, m_view_list, snap>>
    BY <1>10 DEF ClustStep, rvars
  <2> QED
    BY <1>1, <1>2, <2>1, <2>2
<1>11. Quiet => SnapsShown'
  <2> SUFFICES ASSUME Quiet  PROVE SnapsShown'
    OBVIOUS
  <2>1. UNCHANGED <<trx, m_view_list, snap>> /\ UNCHANGED <<clust, undo>>
    BY DEF Quiet
  <2> HIDE DEF Keeps, From
  <2> QED
    BY <1>1, <1>2, <1>3, <2>1
<1> QED
  BY <1>4, <1>5, <1>6, <1>7, <1>8, <1>9, <1>10, <1>11, StepKinds

\* A view goes on to see what its creator does.
LEMMA SeesOwnKept ==
  ASSUME RInv, PurgePositionOK, TypesOK, VersionsOK, TodoOK, LocksOK, PurgeOK, SeesOwn, [Next]_vars
  PROVE  SeesOwn'
<1>1. ASSUME \A i \in DOMAIN m_view_list' : \E j \in DOMAIN m_view_list : m_view_list'[i] = m_view_list[j]
      PROVE  SeesOwn'
  BY <1>1 DEF SeesOwn
<1>2. ASSUME NEW c \in Clients, assign_read_view(c)  PROVE SeesOwn'
  <2>1. PICK v \in View : v = read_view_open_now(trx[c].id)
    BY <1>2, AssignedView
  <2>2. v.creator \notin v.trx_ids
    BY <2>1 DEF read_view_open_now, Unseen
  <2>3. PICK list \in Seq(View) : list = m_view_list
    BY DEF RInv, TypeOKR
  <2>4. m_view_list' = <<v>> \o list
    BY <1>2, <2>1, <2>3 DEF assign_read_view
  <2>5. /\ DOMAIN m_view_list' = 1 .. Len(list) + 1 /\ m_view_list'[1] = v
        /\ \A i \in 2 .. Len(list) + 1 : i - 1 \in DOMAIN list /\ m_view_list'[i] = list[i - 1]
    BY <2>4, PrependFacts
  <2> SUFFICES ASSUME NEW i \in DOMAIN m_view_list'
               PROVE  m_view_list'[i].creator \notin m_view_list'[i].trx_ids
    BY DEF SeesOwn
  <2>6. CASE i = 1
    BY <2>2, <2>5, <2>6
  <2>7. CASE i # 1
    <3>1. PICK j \in DOMAIN list : m_view_list'[i] = list[j]
      BY <2>5, <2>7
    <3> QED
      BY <2>3, <3>1 DEF SeesOwn
  <2> QED
    BY <2>6, <2>7
<1>3. ASSUME NEW c \in Clients, CommitInMemory(c)  PROVE SeesOwn'
  <2>1. CASE m_view_list' = m_view_list
    BY <1>1, <2>1
  <2>2. ASSUME NEW k \in ViewsOf(trx[c].id), m_view_list' = WithoutAt(m_view_list, k)  PROVE SeesOwn'
    <3>1. m_view_list \in Seq(View) /\ k \in DOMAIN m_view_list
      BY <2>2 DEF RInv, TypeOKR, ViewsOf
    <3> QED
      BY <1>1, <2>2, <3>1, WithoutAtFacts
  <2> QED
    BY <1>3, <2>1, <2>2 DEF CommitInMemory
<1>4. [RNext]_rvars
  BY StepRefines
<1>5. CASE UNCHANGED m_view_list
  BY <1>1, <1>5
<1> QED
  BY <1>2, <1>3, <1>4, <1>5 DEF RNext, rvars, start_low, CommitNumber, RenewPurgeView

-----------------------------------------------------------------------------
(* Lists of work.                                                          *)

\* A list of work that undoes a record of the given type.
ListOK(t, k, type) ==
  /\ t \in Seq(RowOp) /\ t # << >>
  /\ \A i \in DOMAIN t : /\ t[i].key = k
                         /\ t[i].op \notin {"mark", "insert"}
                         /\ t[i].op \in SecOps => t[i].val \in Vals
  /\ OrderOK(t)
  /\ Has(t, {"restore"}) => type # "insert"
  /\ Has(t, {"drop"}) => type = "insert"
  /\ Has(t, {"drop_marked"}) => type = "upd_del"

\* Lists that only pop, and the lists that UndoOps makes.
LEMMA PopList ==
  ASSUME NEW k \in Keys, NEW type
  PROVE  LET t == <<Op("pop", k, 0)>>
         IN  ListOK(t, k, type) /\ ~Has(t, ClustOps) /\ ~Has(t, {"drop_marked"})
<1> DEFINE o == Op("pop", k, 0)
           t == <<o>>
<1>1. o \in RowOp /\ o.op = "pop" /\ o.key = k
  BY DEF Op, RowOp
<1> HIDE DEF o
<1>2. t \in Seq(RowOp) /\ t # << >> /\ DOMAIN t = {1} /\ t[1] = o
  BY <1>1
<1> HIDE DEF t
<1>3. ListOK(t, k, type) /\ ~Has(t, ClustOps) /\ ~Has(t, {"drop_marked"})
  BY <1>1, <1>2 DEF ListOK, OrderOK, Has, SecOps, ClustOps
<1> QED
  BY <1>3 DEF t, o

\* The work of undoing an insert.
LEMMA InsertList ==
  ASSUME NEW k \in Keys, NEW v \in Vals
  PROVE  LET t == Append(<<Op("remove", k, v), Op("drop", k, 0)>>, Op("pop", k, 0))
         IN  ListOK(t, k, "insert") /\ Has(t, ClustOps)
<1> DEFINE a == Op("remove", k, v)
           b == Op("drop", k, 0)
           p == Op("pop", k, 0)
           t == Append(<<a, b>>, p)
<1>1. /\ a \in RowOp /\ a.op = "remove" /\ a.key = k /\ a.val \in Vals
      /\ b \in RowOp /\ b.op = "drop" /\ b.key = k
      /\ p \in RowOp /\ p.op = "pop" /\ p.key = k
  BY DEF Op, RowOp, SecOps, ClustOps
<1> HIDE DEF a, b, p
<1>2. t \in Seq(RowOp) /\ t # << >> /\ DOMAIN t = 1 .. 3 /\ t[1] = a /\ t[2] = b /\ t[3] = p
  BY <1>1
<1> HIDE DEF t
<1>3. \A i \in DOMAIN t : i = 1 \/ i = 2 \/ i = 3
  BY <1>2
<1>4. ListOK(t, k, "insert") /\ Has(t, ClustOps)
  BY <1>1, <1>2, <1>3 DEF ListOK, OrderOK, Has, SecOps, ClustOps
<1> QED
  BY <1>4 DEF t, a, b, p

\* The work of undoing an update.
LEMMA UpdateList ==
  ASSUME NEW k \in Keys, NEW v \in Vals, NEW w \in Vals
  PROVE  LET t == Append(<<Op("mark_or_remove", k, v), Op("unmark", k, w), Op("restore", k, 0)>>, Op("pop", k, 0))
         IN  ListOK(t, k, "upd_exist") /\ Has(t, ClustOps)
<1> DEFINE a == Op("mark_or_remove", k, v)
           b == Op("unmark", k, w)
           d == Op("restore", k, 0)
           p == Op("pop", k, 0)
           t == Append(<<a, b, d>>, p)
<1>1. /\ a \in RowOp /\ a.op = "mark_or_remove" /\ a.key = k /\ a.val \in Vals
      /\ b \in RowOp /\ b.op = "unmark" /\ b.key = k /\ b.val \in Vals
      /\ d \in RowOp /\ d.op = "restore" /\ d.key = k
      /\ p \in RowOp /\ p.op = "pop" /\ p.key = k
  BY DEF Op, RowOp, SecOps, ClustOps
<1> HIDE DEF a, b, d, p
<1>2. /\ t \in Seq(RowOp) /\ t # << >> /\ DOMAIN t = 1 .. 4
      /\ t[1] = a /\ t[2] = b /\ t[3] = d /\ t[4] = p
  BY <1>1
<1> HIDE DEF t
<1>3. \A i \in DOMAIN t : i = 1 \/ i = 2 \/ i = 3 \/ i = 4
  BY <1>2
<1>4. ListOK(t, k, "upd_exist") /\ Has(t, ClustOps)
  BY <1>1, <1>2, <1>3 DEF ListOK, OrderOK, Has, SecOps, ClustOps
<1> QED
  BY <1>4 DEF t, a, b, d, p

\* The work of undoing a delete marking.
LEMMA DeleteList ==
  ASSUME NEW k \in Keys, NEW w \in Vals
  PROVE  LET t == Append(<<Op("unmark", k, w), Op("restore", k, 0)>>, Op("pop", k, 0))
         IN  ListOK(t, k, "del_mark") /\ Has(t, ClustOps)
<1> DEFINE a == Op("unmark", k, w)
           b == Op("restore", k, 0)
           p == Op("pop", k, 0)
           t == Append(<<a, b>>, p)
<1>1. /\ a \in RowOp /\ a.op = "unmark" /\ a.key = k /\ a.val \in Vals
      /\ b \in RowOp /\ b.op = "restore" /\ b.key = k
      /\ p \in RowOp /\ p.op = "pop" /\ p.key = k
  BY DEF Op, RowOp, SecOps, ClustOps
<1> HIDE DEF a, b, p
<1>2. t \in Seq(RowOp) /\ t # << >> /\ DOMAIN t = 1 .. 3 /\ t[1] = a /\ t[2] = b /\ t[3] = p
  BY <1>1
<1> HIDE DEF t
<1>3. \A i \in DOMAIN t : i = 1 \/ i = 2 \/ i = 3
  BY <1>2
<1>4. ListOK(t, k, "del_mark") /\ Has(t, ClustOps)
  BY <1>1, <1>2, <1>3 DEF ListOK, OrderOK, Has, SecOps, ClustOps
<1> QED
  BY <1>4 DEF t, a, b, p

\* The work of undoing an insert over a delete-marked record.
LEMMA ReinsertList ==
  ASSUME NEW k \in Keys, NEW v \in Vals
  PROVE  LET t == Append(<<Op("mark_or_remove", k, v), Op("restore", k, 0), Op("drop_marked", k, 0)>>,
                         Op("pop", k, 0))
         IN  ListOK(t, k, "upd_del") /\ Has(t, ClustOps)
<1> DEFINE a == Op("mark_or_remove", k, v)
           b == Op("restore", k, 0)
           d == Op("drop_marked", k, 0)
           p == Op("pop", k, 0)
           t == Append(<<a, b, d>>, p)
<1>1. /\ a \in RowOp /\ a.op = "mark_or_remove" /\ a.key = k /\ a.val \in Vals
      /\ b \in RowOp /\ b.op = "restore" /\ b.key = k
      /\ d \in RowOp /\ d.op = "drop_marked" /\ d.key = k
      /\ p \in RowOp /\ p.op = "pop" /\ p.key = k
  BY DEF Op, RowOp, SecOps, ClustOps
<1> HIDE DEF a, b, d, p
<1>2. /\ t \in Seq(RowOp) /\ t # << >> /\ DOMAIN t = 1 .. 4
      /\ t[1] = a /\ t[2] = b /\ t[3] = d /\ t[4] = p
  BY <1>1
<1> HIDE DEF t
<1>3. \A i \in DOMAIN t : i = 1 \/ i = 2 \/ i = 3 \/ i = 4
  BY <1>2
<1>4. ListOK(t, k, "upd_del") /\ Has(t, ClustOps)
  BY <1>1, <1>2, <1>3 DEF ListOK, OrderOK, Has, SecOps, ClustOps
<1> QED
  BY <1>4 DEF t, a, b, d, p

\* The next undo record: the list of work fits it, and has a change of the
\* clustered index if the version there is the one that it is about.
LEMMA UndoNextFacts ==
  ASSUME RInv, TypesOK, VersionsOK, NEW c \in Clients, UndoNext(c), NEW id, id = trx[c].id,
         NEW n, n = Len(undo[id]), NEW k, k = Top(c).key
  PROVE  /\ IsActive(c) /\ id \in TrxIds /\ n \in DOMAIN undo[id] /\ k \in Keys /\ work[c].rolling
         /\ \E t : /\ work' = [work EXCEPT ![c].todo = t]
                   /\ ListOK(t, k, Top(c).type)
                   /\ Has(t, ClustOps) <=> IsTop(c)
                   /\ Has(t, {"drop_marked"}) => Has(t, ClustOps)
<1>1. IsActive(c) /\ undo[id] # << >> /\ work[c].rolling
  BY DEF UndoNext
<1>2. id \in TrxIds /\ id # 0
  BY <1>1, ActiveFacts DEF TrxIds
<1>3. undo \in [TrxIds -> Seq(UndoRec)] /\ clust \in [Keys -> Record]
  BY DEF TypesOK
<1>4. n \in DOMAIN undo[id]
  BY <1>1, <1>2, <1>3
<1>5. PICK u \in UndoRec : u = Top(c) /\ u = undo[id][n] /\ u.key = k /\ k \in Keys /\ u.old \in Record /\ u.type \in Types
  BY <1>2, <1>3, <1>4, UndoAt DEF Top
<1>6. UndoRecOK(id, n, u) /\ VersionOK(clust[k], k) /\ clust[k] \in Record
  BY <1>2, <1>3, <1>4, <1>5 DEF VersionsOK
<1> DEFINE mine == clust[k] # NoRec /\ clust[k].roll.trx = id /\ clust[k].roll.n = n
           t == IF mine THEN Append(UndoOps(u.type, k, u.old), Op("pop", k, 0)) ELSE <<Op("pop", k, 0)>>
<1>7. work' = [work EXCEPT ![c].todo = t]
  BY <1>5 DEF UndoNext
<1>8. mine <=> IsTop(c)
  <2>1. IsTop(c) <=> clust[k].trx_id = id /\ clust[k].roll.n = n
    BY <1>5 DEF IsTop
  <2>2. clust[k].trx_id = 0 => clust[k].roll.trx = 0
    <3>1. NoRec.roll.trx = 0 /\ OldRow.roll.trx = 0
      BY DEF NoRec, OldRow
    <3> QED
      BY <1>6, <3>1, RecordFacts
  <2>3. clust[k].trx_id # 0 => clust[k].roll.trx = clust[k].trx_id /\ clust[k] # NoRec
    BY <1>6, RecordFacts DEF VersionOK
  <2> QED
    BY <1>2, <2>1, <2>2, <2>3
<1>9. ASSUME mine
      PROVE  ListOK(t, k, u.type) /\ Has(t, ClustOps)
  <2>1. clust[k].val \in Vals
    BY <1>6, <1>9, RecordFacts
  <2>2. u.type # "insert" => u.old.val \in Vals
    BY <1>5, <1>6, RecordFacts DEF UndoRecOK
  <2>3. t = Append(UndoOps(u.type, k, u.old), Op("pop", k, 0))
    BY <1>9
  <2> HIDE DEF t, mine
  <2>4. CASE u.type = "insert"
    <3>1. UndoOps(u.type, k, u.old) = <<Op("remove", k, clust[k].val), Op("drop", k, 0)>>
      BY <2>4 DEF UndoOps
    <3> QED
      BY <1>5, <2>1, <2>3, <2>4, <3>1, InsertList
  <2>5. CASE u.type = "upd_exist"
    <3>1. UndoOps(u.type, k, u.old) =
            <<Op("mark_or_remove", k, clust[k].val), Op("unmark", k, u.old.val), Op("restore", k, 0)>>
      BY <2>5 DEF UndoOps
    <3> QED
      BY <1>5, <2>1, <2>2, <2>3, <2>5, <3>1, UpdateList
  <2>6. CASE u.type = "del_mark"
    <3>1. UndoOps(u.type, k, u.old) = <<Op("unmark", k, u.old.val), Op("restore", k, 0)>>
      BY <2>6 DEF UndoOps
    <3> QED
      BY <1>5, <2>2, <2>3, <2>6, <3>1, DeleteList
  <2>7. CASE u.type = "upd_del"
    <3>1. UndoOps(u.type, k, u.old) =
            <<Op("mark_or_remove", k, clust[k].val), Op("restore", k, 0), Op("drop_marked", k, 0)>>
      BY <2>7 DEF UndoOps
    <3> QED
      BY <1>5, <2>1, <2>3, <2>7, <3>1, ReinsertList
  <2> QED
    BY <1>5, <2>4, <2>5, <2>6, <2>7 DEF Types
<1>10. ASSUME ~mine
       PROVE  ListOK(t, k, u.type) /\ ~Has(t, ClustOps) /\ ~Has(t, {"drop_marked"})
  <2>1. t = <<Op("pop", k, 0)>>
    BY <1>10
  <2> HIDE DEF t, mine
  <2> QED
    BY <1>5, <2>1, PopList
<1> HIDE DEF t, mine
<1> QED
  BY <1>1, <1>2, <1>4, <1>5, <1>7, <1>8, <1>9, <1>10

-----------------------------------------------------------------------------
(* Types.                                                                  *)

\* Another list of work is work.
LEMMA WorkTyped ==
  ASSUME work \in [Clients -> Work], NEW c \in Clients, NEW t \in Seq(RowOp),
         work' = [work EXCEPT ![c].todo = t]
  PROVE  /\ work' \in [Clients -> Work]
         /\ work'[c].todo = t /\ work'[c].rolling = work[c].rolling
         /\ work'[c].upd = work[c].upd /\ work'[c].locks = work[c].locks
         /\ \A d \in Clients \ {c} : work'[d] = work[d]
<1>1. work[c] \in Work
  OBVIOUS
<1> DEFINE w == [work[c] EXCEPT !.todo = t]
<1>2. /\ w \in Work /\ w.todo = t /\ w.rolling = work[c].rolling
      /\ w.upd = work[c].upd /\ w.locks = work[c].locks
  BY <1>1 DEF Work
<1>3. work' = [work EXCEPT ![c] = w]
  OBVIOUS
<1> HIDE DEF w
<1> QED
  BY <1>2, <1>3

\* An operation on the secondary index, and the list without it.
LEMMA SecOpFacts ==
  ASSUME TypesOK, TodoOK, NEW c \in Clients, NEW name \in SecOps, Doing(c, name), NEW o, o = Head(work[c].todo)
  PROVE  /\ IsActive(c) /\ work[c].todo # << >> /\ o.key \in Keys /\ o.val \in Vals
         /\ Tail(work[c].todo) \in Seq(RowOp)
<1>1. PICK s \in Seq(RowOp) : s = work[c].todo
  BY DEF TypesOK, Work
<1>2. s # << >> /\ Head(s).op = name
  BY <1>1 DEF Doing
<1>3. 1 \in DOMAIN s /\ o = s[1] /\ o \in RowOp /\ Tail(s) \in Seq(RowOp)
  BY <1>1, <1>2, TailFacts
<1> QED
  BY <1>1, <1>2, <1>3 DEF TodoOK, WorkOK, RowOp

\* An entry of the secondary index is set.
LEMMA SecTyped ==
  ASSUME sec \in [Keys -> [Vals -> {"none", "live", "marked"}]], NEW k \in Keys, NEW v \in Vals,
         NEW e \in {"none", "live", "marked"}
  PROVE  [sec EXCEPT ![k][v] = e] \in [Keys -> [Vals -> {"none", "live", "marked"}]]
  OBVIOUS

\* The work on the secondary index.
LEMMA SecOpTypes ==
  ASSUME RInv, TypesOK, TodoOK, NEW c \in Clients,
         \/ SecMark(c) \/ SecInsert(c)
         \/ UndoSecRemove(c) \/ UndoSecMarkOrRemove(c) \/ UndoSecUnmark(c)
  PROVE  /\ sec' \in [Keys -> [Vals -> {"none", "live", "marked"}]]
         /\ max_trx_id' \in 0 .. MaxTrxId
         /\ stopped' \in BOOLEAN
         /\ work[c].todo # << >> /\ IsActive(c)
         /\ Tail(work[c].todo) \in Seq(RowOp)
         /\ work' = [work EXCEPT ![c].todo = Tail(work[c].todo)]
         /\ UNCHANGED <<rvars, clust, undo, rseg_last, purge, ghosts>>
         /\ Head(work[c].todo).op \in SecOps
<1>1. PICK o : o = Head(work[c].todo)
  OBVIOUS
<1>2. PICK name \in SecOps : Doing(c, name)
  BY DEF SecMark, SecInsert, UndoSecRemove, UndoSecMarkOrRemove, UndoSecUnmark, SecOps
<1>3. /\ IsActive(c) /\ work[c].todo # << >> /\ o.key \in Keys /\ o.val \in Vals
      /\ Tail(work[c].todo) \in Seq(RowOp)
  BY <1>1, <1>2, SecOpFacts
<1>4. Head(work[c].todo).op \in SecOps
  BY <1>2 DEF Doing
<1>5. /\ sec \in [Keys -> [Vals -> {"none", "live", "marked"}]]
      /\ max_trx_id \in 0 .. MaxTrxId /\ stopped \in BOOLEAN /\ trx[c].id \in 0 .. MaxTrxId
  BY DEF TypesOK, RInv, TypeOKR
<1>6. PICK e \in {"none", "live", "marked"} : SetSec(c, o, e)
  <2>1. sec[o.key][o.val] \in {"none", "live", "marked"}
    BY <1>3, <1>5
  <2> QED
    BY <1>1, <2>1 DEF SecMark, SecInsert, UndoSecRemove, UndoSecMarkOrRemove, UndoSecUnmark
<1>7. /\ sec' = [sec EXCEPT ![o.key][o.val] = e]
      /\ work' = [work EXCEPT ![c].todo = Tail(work[c].todo)]
      /\ UNCHANGED <<rvars, clust, undo, rseg_last, purge, ghosts>>
  BY <1>6 DEF SetSec
<1>8. max_trx_id' \in {max_trx_id, trx[c].id}
  BY DEF SecMark, SecInsert, UndoSecRemove, UndoSecMarkOrRemove, UndoSecUnmark, page_update_max_trx_id
<1>9. stopped' \in BOOLEAN
  BY <1>5 DEF SecMark, SecInsert, UndoSecRemove, UndoSecMarkOrRemove, UndoSecUnmark
<1>10. sec' \in [Keys -> [Vals -> {"none", "live", "marked"}]]
  BY <1>3, <1>5, <1>7, SecTyped
<1> QED
  BY <1>3, <1>4, <1>5, <1>7, <1>8, <1>9, <1>10

\* The client at work on the clustered index in a rollback.
LEMMA RollbackWork ==
  ASSUME TypesOK, TodoOK, NEW c \in Clients, UndoRestore(c) \/ UndoDrop(c) \/ UndoDropMarked(c)
  PROVE  /\ work[c].todo # << >> /\ IsActive(c)
         /\ Tail(work[c].todo) \in Seq(RowOp)
         /\ work' = [work EXCEPT ![c].todo = Tail(work[c].todo)]
         /\ UNCHANGED <<rvars, undo, sec, max_trx_id, rseg_last, purge, stopped, ghosts>>
<1>1. PICK s \in Seq(RowOp) : s = work[c].todo
  BY DEF TypesOK, Work
<1>2. s # << >>
  BY <1>1 DEF UndoRestore, UndoDrop, UndoDropMarked, Doing
<1>3. Tail(s) \in Seq(RowOp)
  BY <1>2, TailFacts
<1>4. IsActive(c)
  BY <1>1, <1>2 DEF TodoOK, WorkOK
<1>5. /\ work' = [work EXCEPT ![c].todo = Tail(work[c].todo)]
      /\ UNCHANGED <<rvars, undo, sec, max_trx_id, rseg_last, purge, stopped, ghosts>>
  BY DEF UndoRestore, UndoDrop, UndoDropMarked, SetClust
<1> QED
  BY <1>1, <1>2, <1>3, <1>4, <1>5

\* The rows after a row operation and its work.
LEMMA RowStepTypes ==
  ASSUME RInv, TypesOK, UndoBounded, NEW c \in Clients, NEW k \in Keys,
         NEW type, NEW del, NEW val, NEW todo, RowStep(c, k, type, del, val, todo)
  PROVE  /\ TypesOK'
         /\ work'[c].todo = todo /\ ~work'[c].rolling
         /\ work'[c].upd = (work[c].upd \/ type # "insert")
         /\ work'[c].locks = IF type = "insert" THEN work[c].locks ELSE work[c].locks \cup {k}
         /\ \A d \in Clients \ {c} : work'[d] = work[d]
<1>1. PICK id : id = trx[c].id
  OBVIOUS
<1>2. PICK n : n = Len(undo[id]) + 1
  OBVIOUS
<1>3. /\ type \in Types /\ del \in BOOLEAN /\ val \in Vals /\ CanWrite(c, k)
      /\ todo \in Seq(RowOp)
      /\ Write(c, k, type, del, val, todo)
  BY DEF RowStep
<1> DEFINE new == [trx_id |-> id, del |-> del, val |-> val,
                   roll |-> [trx |-> id, n |-> n, ins |-> type = "insert"]]
           w == [work[c] EXCEPT !.todo = todo, !.upd = @ \/ type # "insert",
                                !.locks = IF type = "insert" THEN @ ELSE @ \cup {k}]
<1>4. /\ id \in ActiveIds /\ id \in TrxIds /\ n \in 1 .. MaxUndo
      /\ clust' = [clust EXCEPT ![k] = new]
      /\ undo' \in [TrxIds -> Seq(UndoRec)]
      /\ DOMAIN undo'[id] = 1 .. n
      /\ undo'[id][n] = [type |-> type, key |-> k, old |-> clust[k]]
      /\ \A j \in TrxIds : \A m \in DOMAIN undo[j] :
             m \in DOMAIN undo'[j] /\ undo'[j][m] = undo[j][m]
      /\ \A j \in TrxIds : \A m \in DOMAIN undo'[j] :
             m \in DOMAIN undo[j] \/ (j = id /\ m = n)
      /\ UNCHANGED <<rvars, purge, committed, snap>>
  BY <1>1, <1>2, <1>3, WriteFacts
<1>5. work \in [Clients -> Work] /\ clust \in [Keys -> Record] /\ work[c] \in Work /\ ~work[c].rolling
  BY <1>3 DEF TypesOK, CanWrite
<1>6. new \in Record
  <2>1. new.roll \in Pointers
    BY <1>4 DEF Pointers
  <2> QED
    BY <1>3, <1>4, <2>1 DEF Record
<1>7. clust' \in [Keys -> Record]
  <2> HIDE DEF new
  <2> QED
    BY <1>4, <1>5, <1>6
<1>8. work' = [work EXCEPT ![c] = w]
  BY <1>3 DEF Write
<1>9. /\ w \in Work /\ w.todo = todo /\ w.rolling = work[c].rolling
      /\ w.upd = (work[c].upd \/ type # "insert")
      /\ w.locks = IF type = "insert" THEN work[c].locks ELSE work[c].locks \cup {k}
  BY <1>3, <1>5 DEF Work
<1>10. UNCHANGED <<sec, max_trx_id, stopped, committed, snap>>
  BY <1>3 DEF Write, ghosts
<1> HIDE DEF w
<1>11. work' \in [Clients -> Work] /\ work'[c] = w /\ \A d \in Clients \ {c} : work'[d] = work[d]
  BY <1>5, <1>8, <1>9
<1>12. TypesOK'
  BY <1>4, <1>7, <1>10, <1>11 DEF TypesOK
<1> QED
  BY <1>5, <1>9, <1>11, <1>12

\* Every step keeps the types.
LEMMA MvccTypesKept ==
  ASSUME RInv, PurgePositionOK, TypesOK, UndoBounded, VersionsOK, TodoOK, LocksOK, PurgeOK, [Next]_vars
  PROVE  TypesOK'
<1> DEFINE Sec == [Keys -> [Vals -> {"none", "live", "marked"}]]
<1>0. /\ undo \in [TrxIds -> Seq(UndoRec)] /\ clust \in [Keys -> Record] /\ work \in [Clients -> Work]
      /\ sec \in Sec /\ max_trx_id \in 0 .. MaxTrxId /\ stopped \in BOOLEAN
      /\ committed \in Rows /\ snap \in [Clients -> Rows]
  BY DEF TypesOK
<1>1. ASSUME UNCHANGED <<undo, clust, sec, max_trx_id, stopped, committed, snap>>, work' \in [Clients -> Work]
      PROVE  TypesOK'
  BY <1>1 DEF TypesOK
<1>2. Idle \in Work
  BY DEF Idle, Work
<1>3. ASSUME NEW c \in Clients, ClientNext(c)  PROVE TypesOK'
  <2>1. ASSUME NEW k \in Keys, NEW v \in Vals, InsertRow(c, k, v) \/ UpdateRow(c, k, v) \/ DeleteRow(c, k)
        PROVE  TypesOK'
    BY <2>1, RowSteps, RowStepTypes
  <2>2. ASSUME NEW k \in Keys, DeleteRow(c, k)  PROVE TypesOK'
    BY <2>1, <2>2, RowAssumption
  <2>3. CASE Begin(c)
    <3>1. work' = [work EXCEPT ![c] = Idle]
          /\ UNCHANGED <<undo, clust, sec, max_trx_id, stopped, committed, snap>>
      BY <2>3 DEF Begin, rows, ghosts
    <3> QED
      BY <1>0, <1>1, <1>2, <3>1
  <2>4. CASE OpenView(c)
    <3>1. /\ snap' = [snap EXCEPT ![c] = committed]
          /\ UNCHANGED <<undo, clust, sec, max_trx_id, stopped, committed, work>>
      BY <2>4 DEF OpenView, rows
    <3>2. snap' \in [Clients -> Rows]
      BY <1>0, <3>1
    <3> QED
      BY <3>1, <3>2 DEF TypesOK
  <2>5. CASE NumberTrx(c)
    <3>1. UNCHANGED <<undo, clust, sec, max_trx_id, stopped, committed, snap, work>>
      BY <2>5 DEF NumberTrx, rows, ghosts
    <3> QED
      BY <1>0, <1>1, <3>1
  <2>6. CASE EndTrx(c)
    <3>1. UndoShrinks /\ UNCHANGED <<clust, sec, max_trx_id, stopped>>
      BY <2>6, EndTrxFacts
    <3>2. undo' \in [TrxIds -> Seq(UndoRec)]
      BY <3>1 DEF UndoShrinks
    <3>3. work' \in [Clients -> Work]
      BY <1>0, <1>2, <2>6 DEF EndTrx
    <3>4. snap' \in [Clients -> Rows]
      <4>1. [k \in Keys |-> 0] \in Rows
        BY DEF Rows
      <4> QED
        BY <1>0, <2>6, <4>1 DEF EndTrx
    <3>5. committed' \in Rows
      <4>1. committed' = [k \in Keys |->
                IF clust[k].trx_id # trx[c].id THEN committed[k] ELSE RowOf(clust[k])]
        BY <2>6 DEF EndTrx, RowOf
      <4>2. \A k \in Keys : committed[k] \in Vals \cup {0} /\ RowOf(clust[k]) \in Vals \cup {0}
        BY <1>0, RowTyped DEF Rows
      <4> QED
        BY <4>1, <4>2 DEF Rows
    <3> QED
      BY <1>0, <3>1, <3>2, <3>3, <3>4, <3>5 DEF TypesOK
  <2>7. CASE SecMark(c) \/ SecInsert(c) \/ UndoSecRemove(c) \/ UndoSecMarkOrRemove(c) \/ UndoSecUnmark(c)
    <3>1. /\ sec' \in Sec /\ max_trx_id' \in 0 .. MaxTrxId /\ stopped' \in BOOLEAN
          /\ Tail(work[c].todo) \in Seq(RowOp)
          /\ work' = [work EXCEPT ![c].todo = Tail(work[c].todo)]
          /\ UNCHANGED <<clust, undo, ghosts>>
      BY <2>7, SecOpTypes
    <3>2. work' \in [Clients -> Work]
      BY <1>0, <3>1, WorkTyped
    <3> QED
      BY <1>0, <3>1, <3>2 DEF TypesOK, ghosts
  <2>8. CASE StartRollback(c)
    <3>1. /\ work' = [work EXCEPT ![c].rolling = TRUE, ![c].todo = << >>]
          /\ UNCHANGED <<undo, clust, sec, max_trx_id, stopped, committed, snap>>
      BY <2>8 DEF StartRollback, rows, ghosts
    <3> DEFINE w == [work[c] EXCEPT !.rolling = TRUE, !.todo = << >>]
    <3>3. work' = [work EXCEPT ![c] = w]
      BY <3>1
    <3>4. w \in Work
      <4>1. work[c] \in Work /\ << >> \in Seq(RowOp)
        BY <1>0
      <4> QED
        BY <4>1 DEF Work
    <3> HIDE DEF w
    <3>2. work' \in [Clients -> Work]
      BY <1>0, <3>3, <3>4
    <3> QED
      BY <1>1, <3>1, <3>2
  <2>9. CASE UndoNext(c)
    <3>3. PICK id : id = trx[c].id
      OBVIOUS
    <3>4. PICK n : n = Len(undo[id])
      OBVIOUS
    <3>5. PICK k : k = Top(c).key
      OBVIOUS
    <3>6. PICK t : work' = [work EXCEPT ![c].todo = t] /\ ListOK(t, k, Top(c).type)
      BY <2>9, <3>3, <3>4, <3>5, UndoNextFacts
    <3>1. t \in Seq(RowOp) /\ work' = [work EXCEPT ![c].todo = t]
      BY <3>6 DEF ListOK
    <3>2. work' \in [Clients -> Work]
      BY <1>0, <3>1, WorkTyped
    <3> QED
      BY <1>1, <2>9, <3>2 DEF UndoNext, rows, ghosts
  <2>10. CASE UndoRestore(c) \/ UndoDrop(c) \/ UndoDropMarked(c)
    <3>1. PICK k \in Keys, r \in Record : clust' = [clust EXCEPT ![k] = r]
      BY <2>10, RollbackSteps DEF ClustStep
    <3>2. /\ Tail(work[c].todo) \in Seq(RowOp)
          /\ work' = [work EXCEPT ![c].todo = Tail(work[c].todo)]
          /\ UNCHANGED <<rvars, undo, sec, max_trx_id, rseg_last, purge, stopped, ghosts>>
      BY <2>10, RollbackWork
    <3>3. work' \in [Clients -> Work]
      BY <1>0, <3>2, WorkTyped
    <3>4. clust' \in [Keys -> Record]
      BY <1>0, <3>1
    <3> QED
      BY <1>0, <3>2, <3>3, <3>4 DEF TypesOK, ghosts
  <2>11. CASE UndoPop(c)
    <3>1. UndoShrinks /\ UNCHANGED <<clust, sec, max_trx_id, stopped, committed, snap>>
      BY <2>11, PopFacts
    <3>2. undo' \in [TrxIds -> Seq(UndoRec)]
      BY <3>1 DEF UndoShrinks
    <3>3. work' = [work EXCEPT ![c].todo = << >>] /\ << >> \in Seq(RowOp)
      BY <2>11 DEF UndoPop
    <3>4. work' \in [Clients -> Work]
      BY <1>0, <3>3, WorkTyped
    <3> QED
      BY <1>0, <3>1, <3>2, <3>4 DEF TypesOK
  <2> QED
    BY <1>3, <2>1, <2>2, <2>3, <2>4, <2>5, <2>6, <2>7, <2>8, <2>9, <2>10, <2>11 DEF ClientNext
<1>4. CASE RunPurge \/ FetchRec \/ EndPurge
  <2>1. UNCHANGED <<undo, clust, sec, max_trx_id, stopped, committed, snap, work>>
    BY <1>4 DEF RunPurge, FetchRec, EndPurge, rows, ghosts
  <2> QED
    BY <1>0, <1>1, <2>1
<1>5. CASE PurgeSec
  <2>1. PICK s \in Seq(Job) : s = purge.todo
    BY DEF PurgeOK
  <2>2. s # << >>
    BY <1>5, <2>1 DEF PurgeSec, PurgeDoes
  <2>3. PICK o \in Job : o = Head(s)
    BY <2>2, TailFacts
  <2>4. o.key \in Keys /\ o.val \in Vals
    BY DEF Job
  <2>5. PICK e \in {"none", "live", "marked"} : sec' = [sec EXCEPT ![o.key][o.val] = e]
    <3>1. sec[o.key][o.val] \in {"none", "live", "marked"}
      BY <1>0, <2>4
    <3> QED
      BY <1>5, <2>1, <2>3, <3>1 DEF PurgeSec
  <2>6. sec' \in Sec
    BY <1>0, <2>4, <2>5, SecTyped
  <2>7. UNCHANGED <<undo, clust, max_trx_id, stopped, committed, snap, work>>
    BY <1>5 DEF PurgeSec, ghosts
  <2> QED
    BY <1>0, <2>6, <2>7 DEF TypesOK
<1>6. CASE PurgeClust
  <2>1. PICK k \in Keys, r \in Record : ClustStep(k, r)
    BY <1>6, PurgeClustStep DEF ClustStep
  <2>2. UNCHANGED work
    BY <1>6, PurgeClustStep
  <2>3. clust' \in [Keys -> Record]
    BY <1>0, <2>1 DEF ClustStep
  <2> QED
    BY <1>0, <2>1, <2>2, <2>3 DEF TypesOK, ClustStep
<1>7. CASE UNCHANGED vars
  <2>1. UNCHANGED <<undo, clust, sec, max_trx_id, stopped, committed, snap, work>>
    BY <1>7 DEF vars, rows, ghosts
  <2> QED
    BY <1>0, <1>1, <2>1
<1> QED
  BY <1>3, <1>4, <1>5, <1>6, <1>7 DEF Next

\* Every step keeps the bound on undo records and the chains without cycles:
\* only a row operation writes an undo record.
LEMMA UndoLogsKept ==
  ASSUME RInv, PurgePositionOK, TypesOK, UndoBounded, VersionsOK, Acyclic, TodoOK, LocksOK, PurgeOK, [Next]_vars
  PROVE  UndoBounded' /\ Acyclic'
<1>0. undo \in [TrxIds -> Seq(UndoRec)]
  BY DEF TypesOK
<1>1. ASSUME NEW c \in Clients, NEW k \in Keys, NEW type, NEW del, NEW val, NEW todo,
             RowStep(c, k, type, del, val, todo)
      PROVE  UndoBounded' /\ Acyclic'
  BY <1>1, BoundWritten, AcyclicWritten
<1>2. ASSUME UndoShrinks  PROVE UndoBounded' /\ Acyclic'
  BY <1>0, <1>2, BoundShrunk, AcyclicShrunk
<1>3. ASSUME UNCHANGED undo  PROVE UndoShrinks
  <2>1. \A j \in TrxIds : Len(undo[j]) \in Nat
    BY <1>0
  <2> QED
    BY <1>0, <1>3, <2>1 DEF UndoShrinks
<1>4. ASSUME NEW c \in Clients, Begin(c) \/ OpenView(c) \/ NumberTrx(c)  PROVE UNCHANGED undo
  BY <1>4 DEF Begin, OpenView, NumberTrx
<1>5. ASSUME NEW c \in Clients, EndTrx(c)  PROVE UndoShrinks
  <2>1. PICK id : id = trx[c].id
    OBVIOUS
  <2> QED
    BY <1>5, <2>1, EndTrxFacts
<1>6. ASSUME NEW c \in Clients, UndoPop(c)  PROVE UndoShrinks
  BY <1>6, PopFacts
<1>7. ASSUME NEW k \in Keys, NEW r, ClustStep(k, r)  PROVE UNCHANGED undo
  BY <1>7 DEF ClustStep
<1>8. ASSUME Quiet  PROVE UNCHANGED undo
  BY <1>8 DEF Quiet
<1>9. \/ \E c \in Clients : \E k \in Keys : \E type, del, val, todo : RowStep(c, k, type, del, val, todo)
      \/ UndoShrinks
  BY <1>3, <1>4, <1>5, <1>6, <1>7, <1>8, StepKinds
<1> QED
  BY <1>1, <1>2, <1>9

-----------------------------------------------------------------------------
(* The clients' work.                                                      *)

\* A step of a client leaves the other clients' transactions, their work and
\* the undo logs of the active ones alone.
LEMMA OthersKept ==
  ASSUME RInv, TypesOK, TodoOK, NEW c \in Clients, ClientNext(c), NEW d \in Clients, d # c
  PROVE  /\ trx'[d] = trx[d] /\ work'[d] = work[d] /\ (IsActive(d)' <=> IsActive(d))
         /\ IsActive(d) => undo'[trx[d].id] = undo[trx[d].id]
<1>1. work \in [Clients -> Work] /\ undo \in [TrxIds -> Seq(UndoRec)]
      /\ trx \in [Clients -> [state: {"not_started", "active"}, id: 0 .. MaxTrxId, no: 1 .. LsnMax]]
  BY DEF TypesOK, RInv, TypeOKR
<1>2. trx'[d] = trx[d]
  <2>1. \/ UNCHANGED trx
        \/ \E t : trx' = [trx EXCEPT ![c] = t]
    BY DEF ClientNext, Begin, OpenView, NumberTrx, EndTrx, InsertRow, UpdateRow, DeleteRow, Write, SecMark,
           SecInsert, SetSec, StartRollback, UndoNext, UndoSecRemove, UndoSecMarkOrRemove, UndoSecUnmark,
           UndoRestore, UndoDrop, UndoDropMarked, SetClust, UndoPop, start_low, assign_read_view,
           CommitNumber, CommitInMemory, rvars
  <2> QED
    BY <1>1, <2>1
<1>3. work'[d] = work[d]
  <2>1. ASSUME NEW w, work' = [work EXCEPT ![c] = w]  PROVE work'[d] = work[d]
    BY <1>1, <2>1
  <2>2. CASE Begin(c) \/ EndTrx(c)
    BY <2>1, <2>2 DEF Begin, EndTrx
  <2>3. CASE OpenView(c) \/ NumberTrx(c)
    BY <2>3 DEF OpenView, NumberTrx
  <2>4. ASSUME NEW k, NEW type, NEW del, NEW val, NEW todo, Write(c, k, type, del, val, todo)
        PROVE  work'[d] = work[d]
    BY <2>1, <2>4 DEF Write
  <2>5. ASSUME NEW k \in Keys, NEW v \in Vals, InsertRow(c, k, v) \/ UpdateRow(c, k, v)  PROVE work'[d] = work[d]
    BY <2>4, <2>5 DEF InsertRow, UpdateRow
  <2>6. ASSUME NEW k \in Keys, DeleteRow(c, k)  PROVE work'[d] = work[d]
    BY <2>4, <2>6 DEF DeleteRow
  <2>7. ASSUME NEW o, NEW e, SetSec(c, o, e)  PROVE work'[d] = work[d]
    BY <2>1, <2>7 DEF SetSec
  <2>8. CASE SecMark(c) \/ SecInsert(c) \/ UndoSecRemove(c) \/ UndoSecMarkOrRemove(c) \/ UndoSecUnmark(c)
    BY <2>7, <2>8 DEF SecMark, SecInsert, UndoSecRemove, UndoSecMarkOrRemove, UndoSecUnmark
  <2>9. CASE StartRollback(c)
    BY <2>1, <2>9 DEF StartRollback
  <2>10. CASE UndoNext(c)
    BY <1>1, <2>10 DEF UndoNext
  <2>11. CASE UndoRestore(c) \/ UndoDrop(c) \/ UndoDropMarked(c)
    BY <2>1, <2>11 DEF UndoRestore, UndoDrop, UndoDropMarked, SetClust
  <2>12. CASE UndoPop(c)
    BY <2>1, <2>12 DEF UndoPop
  <2> QED
    BY <2>2, <2>3, <2>5, <2>6, <2>8, <2>9, <2>10, <2>11, <2>12 DEF ClientNext
<1>4. IsActive(d) => undo'[trx[d].id] = undo[trx[d].id]
  <2> SUFFICES ASSUME IsActive(d)  PROVE undo'[trx[d].id] = undo[trx[d].id]
    OBVIOUS
  <2>0. UndoPop(c) => IsActive(c)
    BY PopFacts
  <2>1. \/ UNCHANGED undo
        \/ IsActive(c) /\ \E u : undo' = [undo EXCEPT ![trx[c].id] = u]
    BY <2>0 DEF ClientNext, Begin, OpenView, NumberTrx, EndTrx, InsertRow, UpdateRow, DeleteRow, Write, SecMark,
           SecInsert, SetSec, StartRollback, UndoNext, UndoSecRemove, UndoSecMarkOrRemove, UndoSecUnmark,
           UndoRestore, UndoDrop, UndoDropMarked, SetClust, UndoPop, CanWrite, CommitInMemory, rows
  <2>2. IsActive(c) => trx[c].id # trx[d].id
    BY ActiveFacts
  <2>3. trx[d].id \in TrxIds
    BY ActiveFacts
  <2> QED
    BY <1>1, <2>1, <2>2, <2>3
<1>5. IsActive(d)' <=> IsActive(d)
  BY <1>2 DEF IsActive
<1> QED
  BY <1>2, <1>3, <1>4, <1>5

\* Purge leaves the transactions, their work and the undo logs alone.
LEMMA PurgeLeavesWork ==
  ASSUME RunPurge \/ FetchRec \/ EndPurge \/ PurgeSec \/ PurgeClust
  PROVE  UNCHANGED <<trx, work, undo>>
  BY DEF RunPurge, FetchRec, EndPurge, PurgeSec, PurgeClust, RenewPurgeView, rvars

\* A step of a client that is at work on its undo log, and the list of work
\* that it leaves.
LEMMA AtWork ==
  ASSUME RInv, TypesOK, TodoOK, NEW c \in Clients,
         \/ SecMark(c) \/ SecInsert(c)
         \/ UndoSecRemove(c) \/ UndoSecMarkOrRemove(c) \/ UndoSecUnmark(c)
         \/ UndoRestore(c) \/ UndoDrop(c) \/ UndoDropMarked(c) \/ UndoPop(c)
  PROVE  /\ work[c].todo # << >> /\ IsActive(c)
         /\ work'[c].rolling = work[c].rolling /\ work'[c].upd = work[c].upd /\ work'[c].locks = work[c].locks
         /\ UNCHANGED rvars
<1>1. work \in [Clients -> Work]
  BY DEF TypesOK
<1>2. CASE SecMark(c) \/ SecInsert(c) \/ UndoSecRemove(c) \/ UndoSecMarkOrRemove(c) \/ UndoSecUnmark(c)
  <2>1. /\ work[c].todo # << >> /\ IsActive(c)
        /\ Tail(work[c].todo) \in Seq(RowOp)
        /\ work' = [work EXCEPT ![c].todo = Tail(work[c].todo)]
        /\ UNCHANGED <<rvars, clust, undo, rseg_last, purge, ghosts>>
    BY <1>2, SecOpTypes
  <2>2. work'[c].rolling = work[c].rolling /\ work'[c].upd = work[c].upd /\ work'[c].locks = work[c].locks
    BY <1>1, <2>1, WorkTyped
  <2> QED
    BY <2>1, <2>2
<1>3. CASE UndoRestore(c) \/ UndoDrop(c) \/ UndoDropMarked(c)
  <2>1. /\ work[c].todo # << >> /\ IsActive(c)
        /\ Tail(work[c].todo) \in Seq(RowOp)
        /\ work' = [work EXCEPT ![c].todo = Tail(work[c].todo)]
        /\ UNCHANGED <<rvars, undo, sec, max_trx_id, rseg_last, purge, stopped, ghosts>>
    BY <1>3, RollbackWork
  <2>2. work'[c].rolling = work[c].rolling /\ work'[c].upd = work[c].upd /\ work'[c].locks = work[c].locks
    BY <1>1, <2>1, WorkTyped
  <2> QED
    BY <2>1, <2>2
<1>4. CASE UndoPop(c)
  <2>1. work' = [work EXCEPT ![c].todo = << >>] /\ << >> \in Seq(RowOp)
    BY <1>4 DEF UndoPop
  <2>2. work'[c].rolling = work[c].rolling /\ work'[c].upd = work[c].upd /\ work'[c].locks = work[c].locks
    BY <1>1, <2>1, WorkTyped
  <2>3. work[c].todo # << >>
    BY <1>4 DEF UndoPop, Doing
  <2>4. IsActive(c) /\ UNCHANGED rvars
    BY <1>4, PopFacts
  <2> QED
    BY <2>2, <2>3, <2>4
<1> QED
  BY <1>2, <1>3, <1>4

\* A transaction that has its number stays done with its undo log.
LEMMA NumberedDoneKept ==
  ASSUME RInv, TypesOK, TodoOK, NumberedDone, [Next]_vars
  PROVE  NumberedDone'
<1> DEFINE Done(c) == IsActive(c) /\ trx[c].no # LsnMax =>
               work[c].todo = << >> /\ work[c].upd /\ (work[c].rolling => undo[trx[c].id] = << >>)
<1>0. \A c \in Clients : Done(c)
  BY DEF NumberedDone
<1>1. ASSUME NEW d \in Clients, trx'[d] = trx[d], work'[d] = work[d],
             IsActive(d) => undo'[trx[d].id] = undo[trx[d].id]
      PROVE  Done(d)'
  BY <1>0, <1>1 DEF IsActive
<1>2. ASSUME NEW c \in Clients, ClientNext(c)  PROVE Done(c)'
  <2>0. trx \in [Clients -> [state: {"not_started", "active"}, id: 0 .. MaxTrxId, no: 1 .. LsnMax]]
    BY DEF RInv, TypeOKR
  <2>1. ASSUME trx[c].no = LsnMax, UNCHANGED rvars  PROVE Done(c)'
    BY <2>1 DEF rvars
  <2>2. ASSUME NEW k \in Keys, NEW v \in Vals, InsertRow(c, k, v) \/ UpdateRow(c, k, v)  PROVE Done(c)'
    BY <2>1, <2>2 DEF InsertRow, UpdateRow, CanWrite, Write
  <2>3. ASSUME NEW k \in Keys, DeleteRow(c, k)  PROVE Done(c)'
    BY <2>1, <2>3 DEF DeleteRow, CanWrite, Write
  <2>4. CASE Begin(c)
    <3>1. trx'[c].no = LsnMax
      BY <2>0, <2>4 DEF Begin, start_low
    <3> QED
      BY <3>1
  <2>5. CASE OpenView(c)
    <3>1. UNCHANGED <<trx, work, undo>>
      BY <2>5 DEF OpenView, assign_read_view
    <3> QED
      BY <1>1, <3>1
  <2>6. CASE NumberTrx(c)
    <3>1. UNCHANGED <<work, undo>> /\ trx'[c].id = trx[c].id
      BY <2>6, NumberFacts
    <3> QED
      BY <2>6, <3>1 DEF NumberTrx, Ending
  <2>7. CASE EndTrx(c)
    <3>1. ~IsActive(c)'
      <4>1. trx'[c] = NotStarted
        BY <2>0, <2>7 DEF EndTrx, CommitInMemory
      <4> QED
        BY <4>1 DEF IsActive, NotStarted
    <3> QED
      BY <3>1
  <2>8. CASE StartRollback(c)
    BY <2>1, <2>8 DEF StartRollback
  <2>9. CASE UndoNext(c)
    BY <1>0, <2>1, <2>9 DEF UndoNext
  <2>10. CASE \/ SecMark(c) \/ SecInsert(c)
              \/ UndoSecRemove(c) \/ UndoSecMarkOrRemove(c) \/ UndoSecUnmark(c)
              \/ UndoRestore(c) \/ UndoDrop(c) \/ UndoDropMarked(c) \/ UndoPop(c)
    <3>1. work[c].todo # << >> /\ IsActive(c) /\ UNCHANGED rvars
      BY <2>10, AtWork
    <3>2. trx[c].no = LsnMax
      BY <1>0, <3>1
    <3> QED
      BY <2>1, <3>1, <3>2
  <2> HIDE DEF Done
  <2> QED
    BY <1>2, <2>2, <2>3, <2>4, <2>5, <2>6, <2>7, <2>8, <2>9, <2>10 DEF ClientNext
<1>3. ASSUME NEW c \in Clients, ClientNext(c), NEW d \in Clients  PROVE Done(d)'
  <2>1. CASE d = c
    BY <1>2, <1>3, <2>1
  <2>2. CASE d # c
    <3>1. trx'[d] = trx[d] /\ work'[d] = work[d] /\ (IsActive(d) => undo'[trx[d].id] = undo[trx[d].id])
      BY <1>3, <2>2, OthersKept
    <3> QED
      BY <1>1, <3>1
  <2> QED
    BY <2>1, <2>2
<1>4. ASSUME UNCHANGED <<trx, work, undo>>, NEW d \in Clients  PROVE Done(d)'
  BY <1>1, <1>4
<1>5. UNCHANGED vars => UNCHANGED <<trx, work, undo>>
  BY DEF vars, rvars
<1>6. \A d \in Clients : Done(d)'
  <2> HIDE DEF Done
  <2> QED
    BY <1>3, <1>4, <1>5, PurgeLeavesWork DEF Next
<1> QED
  BY <1>6 DEF NumberedDone

\* A transaction goes on: it keeps its locks, and its undo log does not grow.
GoesOn(c) ==
  /\ IsActive(c) /\ IsActive(c)' /\ trx'[c].id = trx[c].id
  /\ work'[c].upd = work[c].upd /\ work'[c].locks = work[c].locks
  /\ UndoShrinks

\* What a step of a client is for its transaction.
LEMMA ClientKinds ==
  ASSUME RInv, TypesOK, TodoOK, NEW c \in Clients, ClientNext(c)
  PROVE  \/ \E k \in Keys : \E type, del, val, todo : RowStep(c, k, type, del, val, todo)
         \/ Begin(c) \/ EndTrx(c) \/ GoesOn(c)
<1>0. /\ undo \in [TrxIds -> Seq(UndoRec)] /\ work \in [Clients -> Work]
      /\ trx \in [Clients -> [state: {"not_started", "active"}, id: 0 .. MaxTrxId, no: 1 .. LsnMax]]
  BY DEF TypesOK, RInv, TypeOKR
<1>1. ASSUME UNCHANGED undo  PROVE UndoShrinks
  <2>1. \A j \in TrxIds : Len(undo[j]) \in Nat
    BY <1>0
  <2> QED
    BY <1>0, <1>1, <2>1 DEF UndoShrinks
<1>2. ASSUME NEW k \in Keys, NEW v \in Vals, InsertRow(c, k, v) \/ UpdateRow(c, k, v) \/ DeleteRow(c, k)
      PROVE  \E j \in Keys : \E type, del, val, todo : RowStep(c, j, type, del, val, todo)
  BY <1>2, RowSteps
<1>3. ASSUME NEW k \in Keys, DeleteRow(c, k)
      PROVE  \E j \in Keys : \E type, del, val, todo : RowStep(c, j, type, del, val, todo)
  BY <1>2, <1>3, RowAssumption
<1>4. CASE OpenView(c)
  <2>1. UNCHANGED <<trx, work, undo>> /\ IsActive(c)
    BY <1>4 DEF OpenView, assign_read_view
  <2> QED
    BY <1>1, <2>1 DEF GoesOn, IsActive
<1>5. CASE NumberTrx(c)
  <2>1. UNCHANGED <<work, undo>> /\ IsActive(c) /\ IsActive(c)' /\ trx'[c].id = trx[c].id
    BY <1>5, NumberFacts
  <2> QED
    BY <1>1, <2>1 DEF GoesOn
<1>6. CASE StartRollback(c)
  <2> DEFINE w == [work[c] EXCEPT !.rolling = TRUE, !.todo = << >>]
  <2>1. work' = [work EXCEPT ![c] = w]
    BY <1>6 DEF StartRollback
  <2>2. w.upd = work[c].upd /\ w.locks = work[c].locks
    BY <1>0 DEF Work
  <2> HIDE DEF w
  <2>3. work'[c].upd = work[c].upd /\ work'[c].locks = work[c].locks
    BY <1>0, <2>1, <2>2
  <2>4. UNCHANGED <<trx, undo>> /\ IsActive(c)
    BY <1>6 DEF StartRollback, rvars
  <2> QED
    BY <1>1, <2>3, <2>4 DEF GoesOn, IsActive
<1>7. CASE UndoNext(c)
  <2>1. PICK t : work' = [work EXCEPT ![c].todo = t]
    BY <1>7 DEF UndoNext
  <2> DEFINE w == [work[c] EXCEPT !.todo = t]
  <2>2. work' = [work EXCEPT ![c] = w]
    BY <2>1
  <2>3. w.upd = work[c].upd /\ w.locks = work[c].locks
    BY <1>0 DEF Work
  <2> HIDE DEF w
  <2>4. work'[c].upd = work[c].upd /\ work'[c].locks = work[c].locks
    BY <1>0, <2>2, <2>3
  <2>5. UNCHANGED <<trx, undo>> /\ IsActive(c)
    BY <1>7 DEF UndoNext, rvars
  <2> QED
    BY <1>1, <2>4, <2>5 DEF GoesOn, IsActive
<1>8. CASE \/ SecMark(c) \/ SecInsert(c)
           \/ UndoSecRemove(c) \/ UndoSecMarkOrRemove(c) \/ UndoSecUnmark(c)
           \/ UndoRestore(c) \/ UndoDrop(c) \/ UndoDropMarked(c) \/ UndoPop(c)
  <2>1. IsActive(c) /\ UNCHANGED rvars /\ work'[c].upd = work[c].upd /\ work'[c].locks = work[c].locks
    BY <1>8, AtWork
  <2>2. UndoShrinks
    <3>1. UndoPop(c) => UndoShrinks
      BY PopFacts
    <3>2. ~UndoPop(c) => UNCHANGED undo
      BY <1>8 DEF SecMark, SecInsert, UndoSecRemove, UndoSecMarkOrRemove, UndoSecUnmark, SetSec,
                  UndoRestore, UndoDrop, UndoDropMarked, SetClust
    <3> QED
      BY <1>1, <3>1, <3>2
  <2> QED
    BY <2>1, <2>2 DEF GoesOn, IsActive, rvars
<1> QED
  BY <1>2, <1>3, <1>4, <1>5, <1>6, <1>7, <1>8 DEF ClientNext

\* What a transaction has updated stays locked.
LEMMA UpdatedLocked ==
  ASSUME RInv, TypesOK, UndoBounded, VersionsOK, TodoOK, LocksOK, [Next]_vars, NEW c \in Clients, IsActive(c)',
         NEW n \in DOMAIN undo'[trx'[c].id], undo'[trx'[c].id][n].type # "insert"
  PROVE  work'[c].upd /\ undo'[trx'[c].id][n].key \in work'[c].locks
<1> DEFINE Goal == work'[c].upd /\ undo'[trx'[c].id][n].key \in work'[c].locks
<1>0. undo \in [TrxIds -> Seq(UndoRec)] /\ work \in [Clients -> Work]
  BY DEF TypesOK
<1>1. ASSUME IsActive(c), trx'[c].id = trx[c].id, work'[c].upd = work[c].upd, work'[c].locks = work[c].locks,
             n \in DOMAIN undo[trx[c].id], undo'[trx[c].id][n] = undo[trx[c].id][n]
      PROVE  Goal
  BY <1>1 DEF LocksOK
<1>2. ASSUME GoesOn(c)  PROVE Goal
  <2>1. trx[c].id \in TrxIds
    BY <1>2, ActiveFacts DEF GoesOn
  <2> QED
    BY <1>1, <1>2, <2>1 DEF GoesOn, UndoShrinks
<1>3. ASSUME NEW k \in Keys, NEW type, NEW del, NEW val, NEW todo, RowStep(c, k, type, del, val, todo)
      PROVE  Goal
  <2>1. PICK id : id = trx[c].id
    OBVIOUS
  <2>2. PICK m : m = Len(undo[id]) + 1
    OBVIOUS
  <2>3. /\ type \in Types /\ del \in BOOLEAN /\ val \in Vals /\ CanWrite(c, k)
        /\ Write(c, k, type, del, val, todo)
    BY <1>3 DEF RowStep
  <2>4. /\ id \in ActiveIds /\ id \in TrxIds
        /\ undo'[id][m] = [type |-> type, key |-> k, old |-> clust[k]]
        /\ \A j \in TrxIds : \A i \in DOMAIN undo[j] :
               i \in DOMAIN undo'[j] /\ undo'[j][i] = undo[j][i]
        /\ \A j \in TrxIds : \A i \in DOMAIN undo'[j] :
               i \in DOMAIN undo[j] \/ (j = id /\ i = m)
        /\ UNCHANGED <<rvars, purge, committed, snap>>
    BY <2>1, <2>2, <2>3, WriteFacts
  <2>5. trx'[c].id = id /\ IsActive(c)
    BY <2>1, <2>3, <2>4 DEF rvars, CanWrite
  <2>6. /\ TypesOK'
        /\ work'[c].todo = todo /\ ~work'[c].rolling
        /\ work'[c].upd = (work[c].upd \/ type # "insert")
        /\ work'[c].locks = IF type = "insert" THEN work[c].locks ELSE work[c].locks \cup {k}
        /\ \A d \in Clients \ {c} : work'[d] = work[d]
    BY <1>3, RowStepTypes
  <2>7. CASE n \in DOMAIN undo[id]
    <3>1. undo'[id][n] = undo[id][n]
      BY <2>4, <2>7
    <3>2. work[c].upd /\ undo[id][n].key \in work[c].locks
      BY <2>1, <2>5, <2>7, <3>1 DEF LocksOK
    <3> QED
      BY <2>5, <2>6, <3>1, <3>2
  <2>8. CASE n = m
    <3>1. undo'[id][n].type = type /\ undo'[id][n].key = k
      BY <2>4, <2>8
    <3>2. type # "insert"
      BY <2>5, <3>1
    <3>3. work'[c].upd /\ k \in work'[c].locks
      BY <2>6, <3>2
    <3> QED
      BY <2>5, <3>1, <3>3
  <2> QED
    BY <2>4, <2>5, <2>7, <2>8
<1>4. ASSUME Begin(c)  PROVE Goal
  <2>1. PICK id : id = m_max_trx_id
    OBVIOUS
  <2>2. trx'[c].id = id /\ id \in TrxIds /\ UNCHANGED undo
    BY <1>4, <2>1, BeginFacts
  <2>3. UndoRecOK(id, n, undo[id][n])
    BY <2>2 DEF VersionsOK
  <2> QED
    BY <2>1, <2>2, <2>3 DEF UndoRecOK, TrxIds
<1>5. ASSUME EndTrx(c)  PROVE Goal
  <2>1. PICK id : id = trx[c].id
    OBVIOUS
  <2>2. IsActive(c)' <=> IsActive(c) /\ c # c
    BY <1>5, <2>1, EndTrxFacts
  <2> QED
    BY <2>2
<1>6. ASSUME NEW d \in Clients, ClientNext(d), d # c  PROVE Goal
  <2>1. /\ trx'[c] = trx[c] /\ work'[c] = work[c] /\ IsActive(c)
        /\ undo'[trx[c].id] = undo[trx[c].id]
    BY <1>6, OthersKept
  <2> QED
    BY <1>1, <2>1
<1>7. ASSUME UNCHANGED <<trx, work, undo>>  PROVE Goal
  BY <1>1, <1>7 DEF IsActive
<1>8. UNCHANGED vars => UNCHANGED <<trx, work, undo>>
  BY DEF vars, rvars
<1>9. ASSUME ClientNext(c)  PROVE Goal
  BY <1>2, <1>3, <1>4, <1>5, <1>9, ClientKinds
<1> HIDE DEF Goal
<1>10. Goal
  BY <1>6, <1>7, <1>8, <1>9, PurgeLeavesWork DEF Next
<1> QED
  BY <1>10 DEF Goal

\* A step back to an earlier version does not bring the version of another
\* active transaction.
LEMMA BackToOwn ==
  ASSUME RInv, TypesOK, VersionsOK, NEW k \in Keys, NEW r, ClustStep(k, r), NEW j \in Keys,
         clust'[j].trx_id \in ActiveIds
  PROVE  clust'[j].trx_id = clust[j].trx_id
<1>0. clust \in [Keys -> Record] /\ undo \in [TrxIds -> Seq(UndoRec)]
  BY DEF TypesOK
<1>1. clust' = [clust EXCEPT ![k] = r] /\ (r = clust[k] \/ Undone(k, r) \/ Purged(k, r))
  BY DEF ClustStep
<1>2. CASE j # k \/ r = clust[k]
  BY <1>0, <1>1, <1>2
<1>3. CASE j = k /\ Undone(k, r)
  <2>1. PICK id : id = clust[k].trx_id
    OBVIOUS
  <2>2. PICK n : n = clust[k].roll.n
    OBVIOUS
  <2>3. id \in ActiveIds /\ r = undo[id][n].old
    BY <1>3, <2>1, <2>2 DEF Undone
  <2>4. clust[k] \in Record /\ VersionOK(clust[k], k)
    BY <1>0 DEF VersionsOK
  <2>5. id \in TrxIds /\ n \in DOMAIN undo[id]
    BY <2>1, <2>2, <2>3, <2>4, ActiveVersion
  <2>6. UndoRecOK(id, n, undo[id][n])
    BY <2>5 DEF VersionsOK
  <2>7. clust'[j] = r
    BY <1>0, <1>1, <1>3
  <2> QED
    <3>1. r.trx_id \in ActiveIds => r.trx_id = id
      BY <2>3, <2>6 DEF UndoRecOK
    <3>2. clust'[j].trx_id = r.trx_id /\ clust[j].trx_id = id
      BY <1>3, <2>1, <2>7
    <3> QED
      BY <3>1, <3>2
<1>4. CASE j = k /\ Purged(k, r)
  <2>1. clust'[j] = NoRec
    BY <1>0, <1>1, <1>4 DEF Purged
  <2>2. 0 \notin ActiveIds
    BY ActiveFacts
  <2> QED
    BY <2>1, <2>2, NoRecFacts
<1> QED
  BY <1>1, <1>2, <1>3, <1>4

\* Nobody else changes what a transaction has locked.
LEMMA OthersLocked ==
  ASSUME RInv, RInv', PurgePositionOK, TypesOK, UndoBounded, VersionsOK, TodoOK, LocksOK, PurgeOK, [Next]_vars,
         NEW c \in Clients, IsActive(c)', NEW d \in Clients, IsActive(d)', d # c, NEW k \in Keys,
         k \in work'[c].locks, clust'[k].trx_id = trx'[d].id
  PROVE  FALSE
<1>0. /\ clust \in [Keys -> Record] /\ undo \in [TrxIds -> Seq(UndoRec)]
      /\ \A j \in ActiveIds : j < m_max_trx_id /\ j # 0
      /\ m_max_trx_id \in TrxIds
  BY ActiveFacts DEF TypesOK, RInv, TypeOKR
\* A row operation.
<1>1. ASSUME NEW e \in Clients, NEW j \in Keys, NEW type, NEW del, NEW val, NEW todo,
             RowStep(e, j, type, del, val, todo)
      PROVE  FALSE
  <2>1. PICK id : id = trx[e].id
    OBVIOUS
  <2>2. PICK m : m = Len(undo[id]) + 1
    OBVIOUS
  <2>3. /\ type \in Types /\ del \in BOOLEAN /\ val \in Vals /\ CanWrite(e, j)
        /\ Write(e, j, type, del, val, todo)
    BY <1>1 DEF RowStep
  <2> DEFINE new == [trx_id |-> id, del |-> del, val |-> val,
                     roll |-> [trx |-> id, n |-> m, ins |-> type = "insert"]]
  <2>4. /\ clust' = [clust EXCEPT ![j] = new]
        /\ UNCHANGED rvars
    BY <2>1, <2>2, <2>3 DEF Write
  <2>5. UNCHANGED trx /\ IsActive(c) /\ IsActive(d) /\ IsActive(e)
    BY <2>3, <2>4 DEF rvars, IsActive, CanWrite
  <2>6. /\ TypesOK'
        /\ work'[e].todo = todo /\ ~work'[e].rolling
        /\ work'[e].upd = (work[e].upd \/ type # "insert")
        /\ work'[e].locks = IF type = "insert" THEN work[e].locks ELSE work[e].locks \cup {j}
        /\ \A x \in Clients \ {e} : work'[x] = work[x]
    BY <1>1, RowStepTypes
  <2>7. CASE k = j
    <3>1. clust'[k].trx_id = id
      BY <1>0, <2>4, <2>7
    <3>2. e = d
      BY <2>1, <2>5, <3>1, ActiveFacts
    <3>3. k \in work[c].locks
      BY <2>6, <3>2
    <3> QED
      BY <2>3, <2>5, <2>7, <3>2, <3>3 DEF CanWrite
  <2>8. CASE k # j
    <3>1. clust'[k] = clust[k]
      BY <1>0, <2>4, <2>8
    <3>2. k \in work[c].locks
      BY <2>6, <2>8
    <3> QED
      BY <2>5, <3>1, <3>2 DEF LocksOK
  <2> QED
    BY <2>7, <2>8
<1>2. ASSUME IsActive(c), IsActive(d), trx'[d].id = trx[d].id, k \in work[c].locks,
             UNCHANGED clust \/ \E j \in Keys : \E r : ClustStep(j, r)
      PROVE  FALSE
  <2>1. trx[d].id \in ActiveIds
    BY <1>2, ActiveFacts
  <2>2. clust[k].trx_id = trx[d].id
    BY <1>2, <2>1, BackToOwn
  <2> QED
    BY <1>2, <2>2 DEF LocksOK
\* Who has begun has no locks and has changed nothing.
<1>3. ASSUME NEW e \in Clients, Begin(e)  PROVE FALSE
  <2>1. PICK id : id = m_max_trx_id
    OBVIOUS
  <2>2. /\ \A x \in Clients : IsActive(x)' <=> IsActive(x) \/ x = e
        /\ \A x \in Clients \ {e} : trx'[x] = trx[x] /\ work'[x] = work[x]
        /\ trx'[e].id = id /\ work'[e] = Idle
        /\ UNCHANGED clust
    BY <1>3, <2>1, BeginFacts
  <2>3. e # c
    BY <2>2 DEF Idle
  <2>4. IsActive(c) /\ k \in work[c].locks
    BY <2>2, <2>3
  <2>5. CASE e = d
    <3>1. VersionOK(clust[k], k) /\ clust[k].trx_id = m_max_trx_id
      BY <2>1, <2>2, <2>5 DEF VersionsOK
    <3> QED
      BY <1>0, <3>1 DEF VersionOK, TrxIds
  <2>6. CASE e # d
    BY <1>2, <2>2, <2>4, <2>6
  <2> QED
    BY <2>5, <2>6
<1>4. ASSUME NEW e \in Clients, EndTrx(e)  PROVE FALSE
  <2>1. PICK id : id = trx[e].id
    OBVIOUS
  <2>2. /\ \A x \in Clients : IsActive(x)' <=> IsActive(x) /\ x # e
        /\ \A x \in Clients \ {e} : trx'[x] = trx[x] /\ work'[x] = work[x]
        /\ UNCHANGED clust
    BY <1>4, <2>1, EndTrxFacts
  <2> QED
    BY <1>2, <2>2
<1>5. ASSUME NEW e \in Clients, GoesOn(e), ClientNext(e), UNCHANGED clust \/ \E j \in Keys : \E r : ClustStep(j, r)
      PROVE  FALSE
  <2>1. /\ e # c => trx'[c] = trx[c] /\ work'[c] = work[c] /\ IsActive(c)
        /\ e # d => trx'[d] = trx[d] /\ IsActive(d)
    BY <1>5, OthersKept
  <2>2. /\ IsActive(c) /\ work'[c].locks = work[c].locks
        /\ IsActive(d) /\ trx'[d].id = trx[d].id
    BY <1>5, <2>1 DEF GoesOn
  <2> QED
    BY <1>2, <1>5, <2>2
<1>6. ASSUME UNCHANGED <<trx, work>>, UNCHANGED clust \/ \E j \in Keys : \E r : ClustStep(j, r)  PROVE FALSE
  BY <1>2, <1>6 DEF IsActive
<1>7. \/ \E e \in Clients : \E j \in Keys : \E type, del, val, todo : RowStep(e, j, type, del, val, todo)
      \/ UNCHANGED clust \/ \E j \in Keys : \E r : ClustStep(j, r)
  <2>1. ASSUME NEW e \in Clients, Begin(e) \/ OpenView(e) \/ NumberTrx(e) \/ EndTrx(e) \/ UndoPop(e)
        PROVE  UNCHANGED clust
    BY <2>1 DEF Begin, OpenView, NumberTrx, EndTrx, UndoPop, rows
  <2>2. Quiet => UNCHANGED clust
    BY DEF Quiet
  <2> QED
    BY <2>1, <2>2, StepKinds
<1>8. UNCHANGED vars => UNCHANGED <<trx, work>>
  BY DEF vars, rvars
<1>9. ASSUME NEW e \in Clients, ClientNext(e)  PROVE FALSE
  BY <1>1, <1>3, <1>4, <1>5, <1>7, <1>9, ClientKinds
<1> QED
  BY <1>1, <1>6, <1>7, <1>8, <1>9, PurgeLeavesWork DEF Next

\* Every step keeps the locks.
LEMMA LocksKept ==
  ASSUME RInv, RInv', PurgePositionOK, TypesOK, UndoBounded, VersionsOK, TodoOK, LocksOK, PurgeOK, [Next]_vars
  PROVE  LocksOK'
<1>1. ASSUME NEW c \in Clients, IsActive(c)', NEW n \in DOMAIN undo'[trx'[c].id],
             undo'[trx'[c].id][n].type # "insert"
      PROVE  work'[c].upd /\ undo'[trx'[c].id][n].key \in work'[c].locks
  BY <1>1, UpdatedLocked
<1>2. ASSUME NEW c \in Clients, IsActive(c)', NEW d \in Clients, IsActive(d)', d # c, NEW k \in Keys,
             k \in work'[c].locks
      PROVE  clust'[k].trx_id # trx'[d].id
  BY <1>2, OthersLocked
<1> QED
  BY <1>1, <1>2 DEF LocksOK

\* The rest of a list of work.
LEMMA RestOfList ==
  ASSUME NEW s \in Seq(RowOp), s # << >>, OrderOK(s)
  PROVE  /\ OrderOK(Tail(s))
         /\ \A i \in DOMAIN Tail(s) : \E j \in DOMAIN s : Tail(s)[i] = s[j]
         /\ \A names : Has(Tail(s), names) => Has(s, names)
         /\ \A names : Head(s).op \notin names /\ Has(s, names) => Has(Tail(s), names)
         /\ Head(s).op \in ClustOps \cup {"drop_marked"} => ~Has(Tail(s), ClustOps)
         /\ Head(s).op = "drop_marked" => ~Has(Tail(s), {"drop_marked"})
<1>1. /\ 1 \in DOMAIN s /\ Head(s) = s[1]
      /\ \A i \in DOMAIN Tail(s) : i \in Nat /\ i + 1 \in DOMAIN s /\ Tail(s)[i] = s[i + 1]
      /\ \A j \in DOMAIN s : j # 1 => j - 1 \in DOMAIN Tail(s) /\ Tail(s)[j - 1] = s[j]
  BY TailFacts
<1>2. OrderOK(Tail(s))
  <2> SUFFICES ASSUME NEW i \in DOMAIN Tail(s), NEW j \in DOMAIN Tail(s), i < j
               PROVE  /\ Tail(s)[i].op \in ClustOps => Tail(s)[j].op \in {"drop_marked", "pop"}
                      /\ Tail(s)[i].op = "drop_marked" => Tail(s)[j].op = "pop"
                      /\ Tail(s)[i].op # "pop"
    BY DEF OrderOK
  <2>1. i + 1 < j + 1 /\ i + 1 \in DOMAIN s /\ j + 1 \in DOMAIN s
    BY <1>1
  <2>2. /\ s[i + 1].op \in ClustOps => s[j + 1].op \in {"drop_marked", "pop"}
        /\ s[i + 1].op = "drop_marked" => s[j + 1].op = "pop"
        /\ s[i + 1].op # "pop"
    BY <2>1 DEF OrderOK
  <2> QED
    BY <1>1, <2>2
<1>3. \A i \in DOMAIN Tail(s) : \E j \in DOMAIN s : Tail(s)[i] = s[j]
  BY <1>1
<1>4. \A names : Has(Tail(s), names) => Has(s, names)
  BY <1>3 DEF Has
<1>5. \A names : Head(s).op \notin names /\ Has(s, names) => Has(Tail(s), names)
  BY <1>1 DEF Has
<1>6. ASSUME NEW i \in DOMAIN Tail(s)
      PROVE  /\ s[1].op \in ClustOps => Tail(s)[i].op \in {"drop_marked", "pop"}
             /\ s[1].op = "drop_marked" => Tail(s)[i].op = "pop"
  <2>1. 1 < i + 1 /\ i + 1 \in DOMAIN s
    <3>1. DOMAIN Tail(s) \subseteq Nat \ {0}
      OBVIOUS
    <3> QED
      BY <1>1, <3>1
  <2> QED
    BY <1>1, <2>1 DEF OrderOK
<1>7. Head(s).op \in ClustOps \cup {"drop_marked"} => ~Has(Tail(s), ClustOps)
  BY <1>1, <1>6 DEF Has, ClustOps
<1>8. Head(s).op = "drop_marked" => ~Has(Tail(s), {"drop_marked"})
  BY <1>1, <1>6 DEF Has
<1> QED
  BY <1>2, <1>3, <1>4, <1>5, <1>7, <1>8

\* Another client's list of work stays right if the row of its top undo
\* record is left alone, or is neither its version nor becomes it.
LEMMA WorkStays ==
  ASSUME NEW d \in Clients, WorkOK(d), work'[d] = work[d], trx'[d] = trx[d],
         work[d].todo # << >> => undo'[trx[d].id] = undo[trx[d].id],
         work[d].todo # << >> /\ work[d].rolling =>
             \/ clust'[Top(d).key] = clust[Top(d).key]
             \/ /\ clust[Top(d).key].trx_id # trx[d].id /\ clust'[Top(d).key].trx_id # trx[d].id
                /\ Top(d).type = "upd_del" => clust'[Top(d).key] \in {clust[Top(d).key], NoRec}
  PROVE  WorkOK(d)'
<1> SUFFICES ASSUME work[d].todo # << >>
             PROVE  WorkOK(d)'
  BY DEF WorkOK
<1>1. IsActive(d)' /\ IsActive(d)
  BY DEF IsActive, WorkOK
<1>2. ASSUME work[d].rolling  PROVE UndoingOK(d, work[d].todo)'
  <2>1. PICK s : s = work[d].todo
    OBVIOUS
  <2>2. UndoingOK(d, s)
    BY <1>2, <2>1 DEF WorkOK
  <2>3. PICK u : u = Top(d)
    OBVIOUS
  <2>4. PICK id : id = trx[d].id
    OBVIOUS
  <2>5. Top(d)' = u /\ trx'[d].id = id /\ undo'[id] = undo[id] /\ undo'[trx'[d].id] # << >>
    BY <2>2, <2>3, <2>4 DEF Top, UndoingOK
  <2>6. \/ clust'[u.key] = clust[u.key]
        \/ /\ clust[u.key].trx_id # id /\ clust'[u.key].trx_id # id
           /\ u.type = "upd_del" => clust'[u.key] \in {clust[u.key], NoRec}
    BY <1>2, <2>3, <2>4
  <2>7. IsTop(d)' <=> IsTop(d)
    BY <2>3, <2>4, <2>5, <2>6 DEF IsTop
  <2>8. Has(s, {"drop_marked"}) /\ ~Has(s, ClustOps) => u.type = "upd_del" /\ clust[u.key] \in {u.old, NoRec}
    BY <2>2, <2>3 DEF UndoingOK
  <2>9. Has(s, {"drop_marked"}) /\ ~Has(s, ClustOps) => clust'[u.key] \in {u.old, NoRec}
    BY <2>6, <2>8
  <2>10. work'[d].todo = s
    BY <2>1
  <2>11. /\ \A i \in DOMAIN s : s[i].key = u.key
         /\ Has(s, {"restore"}) => u.type # "insert"
         /\ Has(s, {"drop"}) => u.type = "insert"
         /\ Has(s, {"drop_marked"}) => u.type = "upd_del"
         /\ Has(s, ClustOps) <=> IsTop(d)
    BY <2>2, <2>3 DEF UndoingOK
  <2> QED
    BY <2>5, <2>7, <2>9, <2>10, <2>11 DEF UndoingOK
<1> QED
  BY <1>1, <1>2 DEF WorkOK

\* A client's list of work without its first operation stays right, if the
\* rest of it fits the clustered index.
LEMMA WorkShrinks ==
  ASSUME NEW c \in Clients, WorkOK(c), NEW s \in Seq(RowOp), s = work[c].todo, s # << >>,
         work'[c].todo = Tail(s), work'[c].rolling = work[c].rolling, UNCHANGED <<trx, undo>>,
         work[c].rolling =>
             /\ Has(Tail(s), ClustOps) <=> IsTop(c)'
             /\ Has(Tail(s), {"drop_marked"}) /\ ~Has(Tail(s), ClustOps) =>
                    clust'[Top(c).key] \in {Top(c).old, NoRec}
  PROVE  WorkOK(c)'
<1>1. IsActive(c)' /\ IsActive(c) /\ OrderOK(s)
  BY DEF IsActive, WorkOK
<1>2. PICK t : t = Tail(s)
  OBVIOUS
<1>3. /\ OrderOK(t)
      /\ \A i \in DOMAIN t : \E j \in DOMAIN s : t[i] = s[j]
      /\ \A names : Has(t, names) => Has(s, names)
  BY <1>1, <1>2, RestOfList
<1>4. \A j \in DOMAIN s : /\ s[j].op \in {"mark", "insert"} <=> ~work[c].rolling
                          /\ s[j].op \in SecOps => s[j].val \in Vals
  BY DEF WorkOK
<1>5. \A i \in DOMAIN t : /\ t[i].op \in {"mark", "insert"} <=> ~work[c].rolling
                          /\ t[i].op \in SecOps => t[i].val \in Vals
  BY <1>3, <1>4
<1>6. ASSUME work[c].rolling  PROVE UndoingOK(c, t)'
  <2>1. UndoingOK(c, s)
    BY <1>6 DEF WorkOK
  <2>2. PICK u : u = Top(c)
    OBVIOUS
  <2>3. Top(c)' = u /\ undo'[trx'[c].id] # << >>
    BY <2>1, <2>2 DEF Top, UndoingOK
  <2>4. /\ \A i \in DOMAIN s : s[i].key = u.key
        /\ Has(s, {"restore"}) => u.type # "insert"
        /\ Has(s, {"drop"}) => u.type = "insert"
        /\ Has(s, {"drop_marked"}) => u.type = "upd_del"
    BY <2>1, <2>2 DEF UndoingOK
  <2>5. /\ \A i \in DOMAIN t : t[i].key = u.key
        /\ Has(t, {"restore"}) => u.type # "insert"
        /\ Has(t, {"drop"}) => u.type = "insert"
        /\ Has(t, {"drop_marked"}) => u.type = "upd_del"
    BY <1>3, <2>4
  <2>6. /\ Has(t, ClustOps) <=> IsTop(c)'
        /\ Has(t, {"drop_marked"}) /\ ~Has(t, ClustOps) => clust'[u.key] \in {u.old, NoRec}
    BY <1>2, <1>6, <2>2
  <2> QED
    BY <2>3, <2>5, <2>6 DEF UndoingOK
<1>7. work'[c].todo = t
  BY <1>2
<1> QED
  BY <1>1, <1>3, <1>5, <1>6, <1>7 DEF WorkOK

\* The client that works on the secondary index.
LEMMA WorkOnSec ==
  ASSUME RInv, TypesOK, TodoOK, NEW c \in Clients,
         SecMark(c) \/ SecInsert(c) \/ UndoSecRemove(c) \/ UndoSecMarkOrRemove(c) \/ UndoSecUnmark(c)
  PROVE  WorkOK(c)'
<1>1. PICK s \in Seq(RowOp) : s = work[c].todo
  BY DEF TypesOK, Work
<1>2. /\ work[c].todo # << >>
      /\ Tail(work[c].todo) \in Seq(RowOp)
      /\ work' = [work EXCEPT ![c].todo = Tail(work[c].todo)]
      /\ UNCHANGED <<rvars, clust, undo, rseg_last, purge, ghosts>>
      /\ Head(work[c].todo).op \in SecOps
  BY SecOpTypes
<1>3. s # << >> /\ Tail(s) \in Seq(RowOp) /\ work' = [work EXCEPT ![c].todo = Tail(s)] /\ Head(s).op \in SecOps
  BY <1>1, <1>2
<1>4. work \in [Clients -> Work]
  BY DEF TypesOK
<1>5. work'[c].todo = Tail(s) /\ work'[c].rolling = work[c].rolling
  BY <1>3, <1>4, WorkTyped
<1>6. UNCHANGED <<trx, undo, clust>>
  BY <1>2 DEF rvars
<1>7. WorkOK(c)
  BY DEF TodoOK
<1>8. OrderOK(s)
  BY <1>1, <1>3, <1>7 DEF WorkOK
<1>9. Head(s).op \notin ClustOps /\ Head(s).op \notin {"drop_marked"}
  BY <1>3 DEF SecOps, ClustOps
<1>10. \A names : Has(Tail(s), names) => Has(s, names)
  BY <1>3, <1>8, RestOfList
<1>11. \A names : Head(s).op \notin names /\ Has(s, names) => Has(Tail(s), names)
  BY <1>3, <1>8, RestOfList
<1>12. ASSUME work[c].rolling
       PROVE  /\ Has(Tail(s), ClustOps) <=> IsTop(c)'
              /\ Has(Tail(s), {"drop_marked"}) /\ ~Has(Tail(s), ClustOps) =>
                     clust'[Top(c).key] \in {Top(c).old, NoRec}
  <2>1. UndoingOK(c, s)
    BY <1>1, <1>3, <1>7, <1>12 DEF WorkOK
  <2>2. IsTop(c)' <=> IsTop(c)
    BY <1>6 DEF IsTop, Top
  <2>3. Has(Tail(s), ClustOps) <=> Has(s, ClustOps)
    BY <1>9, <1>10, <1>11
  <2>4. Has(Tail(s), {"drop_marked"}) <=> Has(s, {"drop_marked"})
    BY <1>9, <1>10, <1>11
  <2> QED
    BY <1>6, <2>1, <2>2, <2>3, <2>4 DEF UndoingOK
<1> QED
  BY <1>1, <1>3, <1>5, <1>6, <1>7, <1>12, WorkShrinks

\* The client that works on the clustered index in a rollback: the version
\* of its top undo record is there before, and not after.
LEMMA WorkOnClust ==
  ASSUME RInv, TypesOK, VersionsOK, TodoOK, LocksOK, NEW c \in Clients,
         UndoRestore(c) \/ UndoDrop(c) \/ UndoDropMarked(c)
  PROVE  WorkOK(c)'
<1>1. PICK s \in Seq(RowOp) : s = work[c].todo
  BY DEF TypesOK, Work
<1>2. /\ work[c].todo # << >> /\ IsActive(c)
      /\ Tail(work[c].todo) \in Seq(RowOp)
      /\ work' = [work EXCEPT ![c].todo = Tail(work[c].todo)]
      /\ UNCHANGED <<rvars, undo, sec, max_trx_id, rseg_last, purge, stopped, ghosts>>
  BY RollbackWork
<1>3. s # << >> /\ Tail(s) \in Seq(RowOp) /\ work' = [work EXCEPT ![c].todo = Tail(s)]
  BY <1>1, <1>2
<1>4. work \in [Clients -> Work]
  BY DEF TypesOK
<1>5. work'[c].todo = Tail(s) /\ work'[c].rolling = work[c].rolling
  BY <1>3, <1>4, WorkTyped
<1>6. UNCHANGED <<trx, undo>>
  BY <1>2 DEF rvars
<1>7. WorkOK(c)
  BY DEF TodoOK
<1>8. OrderOK(s)
  BY <1>1, <1>3, <1>7 DEF WorkOK
<1>9. PICK name \in {"restore", "drop", "drop_marked"} :
          /\ Doing(c, name) /\ Head(s).op = name
          /\ UndoRestore(c) \/ UndoDrop(c) <=> name \in ClustOps
  <2>1. CASE UndoRestore(c)
    BY <1>1, <2>1 DEF UndoRestore, Doing, ClustOps
  <2>2. CASE UndoDrop(c)
    BY <1>1, <2>2 DEF UndoDrop, Doing, ClustOps
  <2>3. CASE UndoDropMarked(c) /\ ~UndoRestore(c) /\ ~UndoDrop(c)
    BY <1>1, <2>3 DEF UndoDropMarked, Doing, ClustOps
  <2> QED
    BY <2>1, <2>2, <2>3
<1>10. PICK id : id = trx[c].id
  OBVIOUS
<1>11. PICK n : n = Len(undo[id])
  OBVIOUS
<1>12. PICK k : k = Head(work[c].todo).key
  OBVIOUS
<1>13. /\ id \in TrxIds /\ id \in ActiveIds /\ n \in DOMAIN undo[id] /\ Top(c) = undo[id][n]
       /\ Top(c).key = k /\ k \in Keys
       /\ name \notin ClustOps => ~(clust[k].trx_id = id /\ clust[k].roll.n = n)
  BY <1>9, <1>10, <1>11, <1>12, UndoClustFacts
<1>14. /\ UndoRestore(c) \/ UndoDrop(c) => clust'[k] = Top(c).old
       /\ UndoDropMarked(c) => clust'[k] \in {clust[k], NoRec}
  BY <1>12, RollbackSteps
<1>15. UndoRecOK(id, n, Top(c))
  BY <1>13 DEF VersionsOK
<1>16. ~(clust'[k].trx_id = id /\ clust'[k].roll.n = n)
  <2>1. CASE name \in ClustOps
    <3>1. clust'[k] = Top(c).old
      BY <1>9, <1>14, <2>1
    <3>2. Top(c).old.trx_id \in ActiveIds => Top(c).old.roll.n < n
      BY <1>15 DEF UndoRecOK
    <3>3. n \in Nat
      BY <1>11, <1>13 DEF TypesOK
    <3> QED
      BY <1>13, <3>1, <3>2, <3>3
  <2>2. CASE name \notin ClustOps
    <3>1. clust'[k] \in {clust[k], NoRec}
      BY <1>9, <1>14, <2>2
    <3>2. id # 0
      BY <1>13 DEF TrxIds
    <3> QED
      BY <1>13, <2>2, <3>1, <3>2, NoRecFacts
  <2> QED
    BY <2>1, <2>2
<1>17. ~IsTop(c)'
  BY <1>6, <1>10, <1>11, <1>13, <1>16 DEF IsTop, Top
<1>18. ~Has(Tail(s), ClustOps) /\ (name = "drop_marked" => ~Has(Tail(s), {"drop_marked"}))
  <2>1. Head(s).op \in ClustOps \cup {"drop_marked"}
    BY <1>9 DEF ClustOps
  <2> QED
    BY <1>3, <1>8, <1>9, <2>1, RestOfList
<1>19. Has(Tail(s), {"drop_marked"}) => clust'[Top(c).key] \in {Top(c).old, NoRec}
  <2>1. name # "drop_marked" => clust'[k] = Top(c).old
    BY <1>9, <1>14 DEF ClustOps
  <2> QED
    BY <1>13, <1>18, <2>1
<1> QED
  BY <1>1, <1>3, <1>5, <1>6, <1>7, <1>17, <1>18, <1>19, WorkShrinks

\* The client that has written a row, or has taken the next record to undo.
LEMMA WorkStarts ==
  ASSUME RInv, TypesOK, UndoBounded, VersionsOK, TodoOK, NEW c \in Clients,
         \/ \E k \in Keys : \E type, del, val, todo : RowStep(c, k, type, del, val, todo)
         \/ UndoNext(c)
  PROVE  WorkOK(c)'
<1>1. ASSUME NEW k \in Keys, NEW type, NEW del, NEW val, NEW todo, RowStep(c, k, type, del, val, todo)
      PROVE  WorkOK(c)'
  <2>1. /\ TypesOK'
        /\ work'[c].todo = todo /\ ~work'[c].rolling
        /\ work'[c].upd = (work[c].upd \/ type # "insert")
        /\ work'[c].locks = IF type = "insert" THEN work[c].locks ELSE work[c].locks \cup {k}
        /\ \A d \in Clients \ {c} : work'[d] = work[d]
    BY <1>1, RowStepTypes
  <2>2. IsActive(c)'
    BY <1>1 DEF RowStep, CanWrite, Write, rvars, IsActive
  <2>3. \A i \in DOMAIN todo : todo[i].op \in {"mark", "insert"} /\ todo[i].val \in Vals
    BY <1>1 DEF RowStep
  <2>4. OrderOK(todo)
    BY <2>3 DEF OrderOK, ClustOps
  <2> QED
    BY <2>1, <2>2, <2>3, <2>4 DEF WorkOK
<1>2. ASSUME UndoNext(c)  PROVE WorkOK(c)'
  <2>1. PICK id : id = trx[c].id
    OBVIOUS
  <2>2. PICK n : n = Len(undo[id])
    OBVIOUS
  <2>3. PICK k : k = Top(c).key
    OBVIOUS
  <2>4. /\ IsActive(c) /\ id \in TrxIds /\ n \in DOMAIN undo[id] /\ k \in Keys /\ work[c].rolling
        /\ \E t : /\ work' = [work EXCEPT ![c].todo = t]
                  /\ ListOK(t, k, Top(c).type)
                  /\ Has(t, ClustOps) <=> IsTop(c)
                  /\ Has(t, {"drop_marked"}) => Has(t, ClustOps)
    BY <1>2, <2>1, <2>2, <2>3, UndoNextFacts
  <2>5. PICK t : /\ work' = [work EXCEPT ![c].todo = t]
                 /\ ListOK(t, k, Top(c).type)
                 /\ Has(t, ClustOps) <=> IsTop(c)
                 /\ Has(t, {"drop_marked"}) => Has(t, ClustOps)
    BY <2>4
  <2>6. t \in Seq(RowOp) /\ work \in [Clients -> Work]
    BY <2>5 DEF ListOK, TypesOK
  <2>7. work'[c].todo = t /\ work'[c].rolling
    BY <2>4, <2>5, <2>6, WorkTyped
  <2>8. UNCHANGED <<trx, undo, clust>> /\ undo[trx[c].id] # << >>
    BY <1>2 DEF UndoNext, rvars, rows
  <2>9. PICK u : u = Top(c)
    OBVIOUS
  <2>10. Top(c)' = u /\ (IsTop(c)' <=> IsTop(c)) /\ IsActive(c)' /\ undo'[trx'[c].id] # << >>
    BY <2>4, <2>8, <2>9 DEF Top, IsTop, IsActive
  <2>11. /\ \A i \in DOMAIN t : /\ t[i].key = u.key
                                /\ t[i].op \notin {"mark", "insert"}
                                /\ t[i].op \in SecOps => t[i].val \in Vals
         /\ OrderOK(t)
         /\ Has(t, {"restore"}) => u.type # "insert"
         /\ Has(t, {"drop"}) => u.type = "insert"
         /\ Has(t, {"drop_marked"}) => u.type = "upd_del"
    BY <2>3, <2>5, <2>9 DEF ListOK
  <2>12. UndoingOK(c, t)'
    BY <2>5, <2>10, <2>11 DEF UndoingOK
  <2> QED
    BY <2>7, <2>10, <2>11, <2>12 DEF WorkOK
<1> QED
  BY <1>1, <1>2

\* The acting client.
LEMMA OwnWorkKept ==
  ASSUME RInv, TypesOK, UndoBounded, VersionsOK, TodoOK, LocksOK, NEW c \in Clients, ClientNext(c)
  PROVE  WorkOK(c)'
<1>0. work \in [Clients -> Work]
  BY DEF TypesOK
<1>1. ASSUME work'[c].todo = << >>  PROVE WorkOK(c)'
  BY <1>1 DEF WorkOK
<1>2. CASE Begin(c) \/ EndTrx(c)
  <2>1. work'[c] = Idle
    BY <1>0, <1>2 DEF Begin, EndTrx
  <2> QED
    BY <1>1, <2>1 DEF Idle
<1>3. CASE OpenView(c) \/ NumberTrx(c)
  <2>1. work[c].todo = << >> /\ work' = work
    BY <1>3 DEF OpenView, NumberTrx, Ending
  <2> QED
    BY <1>1, <2>1
<1>4. CASE StartRollback(c)
  <2> DEFINE w == [work[c] EXCEPT !.rolling = TRUE, !.todo = << >>]
  <2>1. work' = [work EXCEPT ![c] = w]
    BY <1>4 DEF StartRollback
  <2>2. w.todo = << >>
    BY <1>0 DEF Work
  <2> HIDE DEF w
  <2> QED
    BY <1>0, <1>1, <2>1, <2>2
<1>5. CASE UndoPop(c)
  <2>1. work' = [work EXCEPT ![c].todo = << >>] /\ << >> \in Seq(RowOp)
    BY <1>5 DEF UndoPop
  <2> QED
    BY <1>0, <1>1, <2>1, WorkTyped
<1>6. ASSUME NEW k \in Keys, NEW v \in Vals, InsertRow(c, k, v) \/ UpdateRow(c, k, v) \/ DeleteRow(c, k)
      PROVE  WorkOK(c)'
  BY <1>6, RowSteps, WorkStarts
<1>7. ASSUME NEW k \in Keys, DeleteRow(c, k)  PROVE WorkOK(c)'
  BY <1>6, <1>7, RowAssumption
<1>8. CASE UndoNext(c)
  BY <1>8, WorkStarts
<1>9. CASE SecMark(c) \/ SecInsert(c) \/ UndoSecRemove(c) \/ UndoSecMarkOrRemove(c) \/ UndoSecUnmark(c)
  BY <1>9, WorkOnSec
<1>10. CASE UndoRestore(c) \/ UndoDrop(c) \/ UndoDropMarked(c)
  BY <1>10, WorkOnClust
<1> QED
  BY <1>2, <1>3, <1>4, <1>5, <1>6, <1>7, <1>8, <1>9, <1>10 DEF ClientNext

\* A client that has work to do in a rollback: its top undo record, and the
\* lock on the row that it has updated.
LEMMA AtRollback ==
  ASSUME RInv, TypesOK, TodoOK, LocksOK, NEW d \in Clients, work[d].todo # << >>, work[d].rolling
  PROVE  /\ IsActive(d) /\ trx[d].id \in ActiveIds /\ Top(d) \in UndoRec /\ Top(d).key \in Keys
         /\ Top(d).type # "insert" => Top(d).key \in work[d].locks
<1>1. IsActive(d) /\ UndoingOK(d, work[d].todo)
  BY DEF TodoOK, WorkOK
<1>2. PICK id \in TrxIds : id = trx[d].id /\ id \in ActiveIds
  BY <1>1, ActiveFacts
<1>3. undo \in [TrxIds -> Seq(UndoRec)]
  BY DEF TypesOK
<1>4. undo[id] # << >> /\ undo[id] \in Seq(UndoRec)
  BY <1>1, <1>2, <1>3 DEF UndoingOK
<1>5. PICK n : n = Len(undo[id]) /\ n \in DOMAIN undo[id]
  BY <1>4
<1>6. Top(d) = undo[id][n]
  BY <1>2, <1>5 DEF Top
<1>7. Top(d) \in UndoRec /\ Top(d).key \in Keys
  BY <1>2, <1>3, <1>5, <1>6, UndoAt
<1>8. Top(d).type # "insert" => Top(d).key \in work[d].locks
  BY <1>1, <1>2, <1>5, <1>6 DEF LocksOK
<1> QED
  BY <1>1, <1>2, <1>7, <1>8

\* The row of the top undo record of a client at rollback is left alone by a
\* step on the clustered index, or neither is its version nor becomes it.
Spared(d) ==
  \/ clust'[Top(d).key] = clust[Top(d).key]
  \/ /\ clust[Top(d).key].trx_id # trx[d].id /\ clust'[Top(d).key].trx_id # trx[d].id
     /\ Top(d).type = "upd_del" => clust'[Top(d).key] \in {clust[Top(d).key], NoRec}

\* A row operation of another client spares it: it finds the row locked.
LEMMA SparedByRowStep ==
  ASSUME RInv, TypesOK, TodoOK, LocksOK, NEW d \in Clients, work[d].todo # << >>, work[d].rolling,
         NEW c \in Clients, c # d, NEW j \in Keys, NEW type, NEW del, NEW val, NEW todo,
         RowStep(c, j, type, del, val, todo)
  PROVE  Spared(d)
<1>1. PICK k \in Keys : k = Top(d).key
  BY AtRollback
<1>2. IsActive(d) /\ (Top(d).type # "insert" => k \in work[d].locks)
  BY <1>1, AtRollback
<1>3. clust \in [Keys -> Record]
  BY DEF TypesOK
<1>4. CanWrite(c, j) /\ IsActive(c)
  BY DEF RowStep, CanWrite
<1>5. PICK new : clust' = [clust EXCEPT ![j] = new] /\ new.trx_id = trx[c].id
  <2> DEFINE r == [trx_id |-> trx[c].id, del |-> del, val |-> val,
                   roll |-> [trx |-> trx[c].id, n |-> Len(undo[trx[c].id]) + 1, ins |-> type = "insert"]]
  <2>1. clust' = [clust EXCEPT ![j] = r]
    BY DEF RowStep, Write
  <2>2. r.trx_id = trx[c].id
    OBVIOUS
  <2> HIDE DEF r
  <2> QED
    BY <2>1, <2>2
<1>6. CASE k # j
  BY <1>1, <1>3, <1>5, <1>6 DEF Spared
<1>7. CASE k = j
  <2>1. clust[k].trx_id # trx[d].id /\ k \notin work[d].locks
    BY <1>2, <1>4, <1>7 DEF CanWrite
  <2>2. clust'[k] = new
    BY <1>3, <1>5, <1>7
  <2>3. trx[c].id # trx[d].id
    BY <1>2, <1>4, ActiveFacts
  <2>4. Top(d).type = "insert"
    BY <1>2, <2>1
  <2> QED
    BY <1>1, <1>5, <2>1, <2>2, <2>3, <2>4 DEF Spared
<1> QED
  BY <1>6, <1>7

\* The rollback of another client spares it: it undoes its own versions.
LEMMA SparedByRollback ==
  ASSUME RInv, TypesOK, VersionsOK, TodoOK, LocksOK, NEW d \in Clients, work[d].todo # << >>, work[d].rolling,
         NEW c \in Clients, c # d, UndoRestore(c) \/ UndoDrop(c) \/ UndoDropMarked(c)
  PROVE  Spared(d)
<1>1. PICK k \in Keys : k = Top(d).key
  BY AtRollback
<1>2. IsActive(d) /\ trx[d].id \in ActiveIds /\ (Top(d).type # "insert" => k \in work[d].locks)
  BY <1>1, AtRollback
<1>3. clust \in [Keys -> Record]
  BY DEF TypesOK
<1>4. PICK j : j = Head(work[c].todo).key
  OBVIOUS
<1>5. /\ j \in Keys
      /\ \E r : ClustStep(j, r)
      /\ UndoRestore(c) \/ UndoDrop(c) => Undone(j, clust'[j]) /\ clust'[j] = Top(c).old
      /\ UndoDropMarked(c) => clust'[j] \in {clust[j], NoRec}
  BY <1>4, RollbackSteps
<1>6. CASE k # j
  BY <1>1, <1>3, <1>5, <1>6 DEF Spared, ClustStep
<1>7. CASE k = j
  <2>1. PICK name \in {"restore", "drop", "drop_marked"} :
            /\ Doing(c, name)
            /\ UndoRestore(c) \/ UndoDrop(c) <=> name \in ClustOps
    <3>1. CASE UndoRestore(c)
      BY <3>1 DEF UndoRestore, ClustOps
    <3>2. CASE UndoDrop(c)
      BY <3>2 DEF UndoDrop, ClustOps
    <3>3. CASE UndoDropMarked(c) /\ ~UndoRestore(c) /\ ~UndoDrop(c)
      BY <3>3 DEF UndoDropMarked, ClustOps
    <3> QED
      BY <3>1, <3>2, <3>3
  <2>2. PICK id : id = trx[c].id
    OBVIOUS
  <2>3. PICK n : n = Len(undo[id])
    OBVIOUS
  <2>4. /\ IsActive(c) /\ id \in TrxIds /\ n \in DOMAIN undo[id] /\ Top(c) = undo[id][n]
        /\ name \in ClustOps => clust[j].trx_id = id /\ clust[j].roll.n = n
        /\ name = "drop_marked" => Top(c).type = "upd_del" /\ clust[j] \in {Top(c).old, NoRec}
    BY <1>4, <2>1, <2>2, <2>3, UndoClustFacts
  <2>5. id # trx[d].id
    BY <1>2, <2>2, <2>4, ActiveFacts
  <2>6. CASE name \in ClustOps
    <3>1. clust[k].trx_id = id
      BY <1>7, <2>4, <2>6
    <3>2. clust'[k].trx_id # trx[d].id
      <4>1. clust'[k].trx_id \in ActiveIds => clust'[k].trx_id = clust[k].trx_id
        BY <1>5, BackToOwn
      <4> QED
        BY <1>2, <2>5, <3>1, <4>1
    <3>3. k \notin work[d].locks
      BY <1>2, <2>2, <2>4, <3>1 DEF LocksOK
    <3>4. Top(d).type = "insert"
      BY <1>2, <3>3
    <3> QED
      BY <1>1, <2>5, <3>1, <3>2, <3>4 DEF Spared
  <2>7. CASE name \notin ClustOps
    <3>1. name = "drop_marked" /\ clust'[k] \in {clust[k], NoRec}
      BY <1>5, <1>7, <2>1, <2>7 DEF ClustOps
    <3>2. CASE clust'[k] = clust[k]
      BY <1>1, <3>2 DEF Spared
    <3>3. CASE clust'[k] = NoRec
      <4>1. UndoRecOK(id, n, Top(c))
        BY <2>4 DEF VersionsOK
      <4>2. Top(c).old.trx_id \in ActiveIds => Top(c).old.trx_id = id
        BY <4>1 DEF UndoRecOK
      <4>3. 0 \notin ActiveIds
        BY ActiveFacts
      <4>4. clust[k].trx_id # trx[d].id
        BY <1>2, <1>7, <2>4, <2>5, <3>1, <4>2, <4>3, NoRecFacts
      <4>5. clust'[k].trx_id # trx[d].id
        BY <1>2, <3>3, <4>3, NoRecFacts
      <4> QED
        BY <1>1, <3>3, <4>4, <4>5 DEF Spared
    <3> QED
      BY <3>1, <3>2, <3>3
  <2> QED
    BY <2>6, <2>7
<1> QED
  BY <1>6, <1>7

\* Purge spares it: it removes no version of an active transaction.
LEMMA SparedByPurge ==
  ASSUME RInv, TypesOK, VersionsOK, TodoOK, LocksOK, PurgeOK, NEW d \in Clients, work[d].todo # << >>,
         work[d].rolling, PurgeClust
  PROVE  Spared(d)
<1>1. PICK k \in Keys : k = Top(d).key
  BY AtRollback
<1>2. trx[d].id \in ActiveIds /\ 0 \notin ActiveIds
  BY AtRollback, ActiveFacts
<1>3. clust \in [Keys -> Record]
  BY DEF TypesOK
<1>4. PICK j : j = Head(purge.todo).key
  OBVIOUS
<1>5. j \in Keys /\ \E r : ClustStep(j, r) /\ (r = clust[j] \/ Purged(j, r))
  BY <1>4, PurgeClustStep
<1>6. PICK r : ClustStep(j, r) /\ (r = clust[j] \/ Purged(j, r))
  BY <1>5
<1>7. clust' = [clust EXCEPT ![j] = r]
  BY <1>6 DEF ClustStep
<1>8. CASE k # j \/ r = clust[j]
  BY <1>1, <1>3, <1>5, <1>7, <1>8 DEF Spared
<1>9. CASE k = j /\ Purged(j, r)
  <2>1. clust'[k] = NoRec /\ Sees(m_view, clust[k].trx_id)
    BY <1>3, <1>7, <1>9 DEF Purged
  <2>2. clust[k].trx_id # trx[d].id
    BY <1>2, <2>1, PurgeSeesNoActive
  <2>3. clust'[k].trx_id # trx[d].id
    BY <1>2, <2>1, NoRecFacts
  <2> QED
    BY <1>1, <2>1, <2>2, <2>3 DEF Spared
<1> QED
  BY <1>6, <1>8, <1>9

\* Every step keeps the lists of work.
LEMMA TodoKept ==
  ASSUME RInv, PurgePositionOK, TypesOK, UndoBounded, VersionsOK, TodoOK, LocksOK, PurgeOK, [Next]_vars
  PROVE  TodoOK'
<1>1. ASSUME NEW d \in Clients, work'[d] = work[d], trx'[d] = trx[d],
             IsActive(d) => undo'[trx[d].id] = undo[trx[d].id],
             work[d].todo # << >> /\ work[d].rolling => Spared(d)
      PROVE  WorkOK(d)'
  <2>1. WorkOK(d) /\ (work[d].todo # << >> => undo'[trx[d].id] = undo[trx[d].id])
    BY <1>1 DEF TodoOK, WorkOK
  <2> QED
    BY <1>1, <2>1, WorkStays DEF Spared
<1>2. ASSUME UNCHANGED clust, NEW d \in Clients  PROVE Spared(d)
  BY <1>2 DEF Spared
<1>3. ASSUME NEW c \in Clients, ClientNext(c), NEW d \in Clients  PROVE WorkOK(d)'
  <2>1. CASE d = c
    BY <1>3, <2>1, OwnWorkKept
  <2>2. CASE d # c
    <3>1. trx'[d] = trx[d] /\ work'[d] = work[d] /\ (IsActive(d) => undo'[trx[d].id] = undo[trx[d].id])
      BY <1>3, <2>2, OthersKept
    <3>2. ASSUME work[d].todo # << >>, work[d].rolling  PROVE Spared(d)
      <4>1. ASSUME NEW k \in Keys, NEW v \in Vals, InsertRow(c, k, v) \/ UpdateRow(c, k, v) \/ DeleteRow(c, k)
            PROVE  Spared(d)
        BY <2>2, <3>2, <4>1, RowSteps, SparedByRowStep
      <4>2. ASSUME NEW k \in Keys, DeleteRow(c, k)  PROVE Spared(d)
        BY <4>1, <4>2, RowAssumption
      <4>3. CASE UndoRestore(c) \/ UndoDrop(c) \/ UndoDropMarked(c)
        BY <2>2, <3>2, <4>3, SparedByRollback
      <4>4. CASE \/ Begin(c) \/ OpenView(c) \/ NumberTrx(c) \/ EndTrx(c)
                 \/ SecMark(c) \/ SecInsert(c) \/ StartRollback(c) \/ UndoNext(c)
                 \/ UndoSecRemove(c) \/ UndoSecMarkOrRemove(c) \/ UndoSecUnmark(c) \/ UndoPop(c)
        <5>1. UNCHANGED clust
          BY <4>4 DEF Begin, OpenView, NumberTrx, EndTrx, SecMark, SecInsert, StartRollback, UndoNext,
                      UndoSecRemove, UndoSecMarkOrRemove, UndoSecUnmark, SetSec, UndoPop, rows
        <5> QED
          BY <1>2, <5>1
      <4> QED
        BY <1>3, <4>1, <4>2, <4>3, <4>4 DEF ClientNext
    <3> QED
      BY <1>1, <3>1, <3>2
  <2> QED
    BY <2>1, <2>2
<1>4. ASSUME RunPurge \/ FetchRec \/ EndPurge \/ PurgeSec \/ PurgeClust, NEW d \in Clients  PROVE WorkOK(d)'
  <2>1. UNCHANGED <<trx, work, undo>>
    BY <1>4, PurgeLeavesWork
  <2>2. PurgeClust \/ UNCHANGED clust
    BY <1>4 DEF RunPurge, FetchRec, EndPurge, PurgeSec, rows
  <2>3. work[d].todo # << >> /\ work[d].rolling => Spared(d)
    BY <1>2, <2>2, SparedByPurge
  <2> QED
    BY <1>1, <2>1, <2>3
<1>5. ASSUME UNCHANGED vars, NEW d \in Clients  PROVE WorkOK(d)'
  <2>1. UNCHANGED <<trx, work, undo, clust>>
    BY <1>5 DEF vars, rvars, rows
  <2> QED
    BY <1>1, <1>2, <2>1
<1> QED
  BY <1>3, <1>4, <1>5 DEF Next, TodoOK

-----------------------------------------------------------------------------
(* Purge.                                                                  *)

\* A client's step leaves the undo logs of ended transactions and of those
\* that have their number as they are.
LEMMA LogsStay ==
  ASSUME RInv, TypesOK, TodoOK, NumberedDone, NEW c \in Clients, ClientNext(c), NEW id \in TrxIds,
         \A d \in Clients : IsActive(d) /\ trx[d].id = id => trx[d].no # LsnMax
  PROVE  undo'[id] = undo[id]
<1>0. undo \in [TrxIds -> Seq(UndoRec)]
  BY DEF TypesOK
<1>1. ASSUME NEW u, undo' = [undo EXCEPT ![trx[c].id] = u], IsActive(c), trx[c].no = LsnMax
      PROVE  undo'[id] = undo[id]
  BY <1>0, <1>1
<1>2. ASSUME NEW k, NEW type, NEW del, NEW val, NEW todo, CanWrite(c, k), Write(c, k, type, del, val, todo)
      PROVE  undo'[id] = undo[id]
  BY <1>1, <1>2 DEF CanWrite, Write
<1>3. ASSUME NEW k \in Keys, NEW v \in Vals, InsertRow(c, k, v) \/ UpdateRow(c, k, v)
      PROVE  undo'[id] = undo[id]
  BY <1>2, <1>3 DEF InsertRow, UpdateRow
<1>4. ASSUME NEW k \in Keys, DeleteRow(c, k)  PROVE undo'[id] = undo[id]
  BY <1>2, <1>4 DEF DeleteRow
<1>5. CASE UndoPop(c)
  <2>1. IsActive(c)
    BY <1>5, PopFacts
  <2>2. work[c].todo # << >>
    BY <1>5 DEF UndoPop, Doing
  <2>3. trx[c].no = LsnMax
    BY <2>1, <2>2 DEF NumberedDone
  <2> QED
    BY <1>1, <1>5, <2>1, <2>3 DEF UndoPop
<1>6. CASE EndTrx(c)
  <2>1. IsActive(c) /\ \A j \in TrxIds : j # trx[c].id \/ work[c].upd => undo'[j] = undo[j]
    BY <1>6, EndTrxFacts
  <2>2. trx[c].id = id => work[c].upd
    BY <2>1 DEF NumberedDone
  <2> QED
    BY <2>1, <2>2
<1>7. CASE \/ Begin(c) \/ OpenView(c) \/ NumberTrx(c)
           \/ SecMark(c) \/ SecInsert(c) \/ StartRollback(c) \/ UndoNext(c)
           \/ UndoSecRemove(c) \/ UndoSecMarkOrRemove(c) \/ UndoSecUnmark(c)
           \/ UndoRestore(c) \/ UndoDrop(c) \/ UndoDropMarked(c)
  <2>1. UNCHANGED undo
    BY <1>7 DEF Begin, OpenView, NumberTrx, SecMark, SecInsert, StartRollback, UndoNext,
                UndoSecRemove, UndoSecMarkOrRemove, UndoSecUnmark, SetSec, UndoRestore, UndoDrop,
                UndoDropMarked, SetClust, rows
  <2> QED
    BY <2>1
<1> QED
  BY <1>3, <1>4, <1>5, <1>6, <1>7 DEF ClientNext

\* A client's step leaves purge at its record, and its jobs right.
LEMMA PurgeUndisturbed ==
  ASSUME RInv, PurgePositionOK, TypesOK, TodoOK, NumberedDone, PurgeOK, NEW c \in Clients, ClientNext(c)
  PROVE  PurgeOK'
<1>1. UNCHANGED <<purge, m_view>>
  BY DEF ClientNext, Begin, OpenView, NumberTrx, EndTrx, InsertRow, UpdateRow, DeleteRow, Write, SecMark,
         SecInsert, SetSec, StartRollback, UndoNext, UndoSecRemove, UndoSecMarkOrRemove, UndoSecUnmark,
         UndoRestore, UndoDrop, UndoDropMarked, SetClust, UndoPop, start_low, assign_read_view,
         CommitNumber, CommitInMemory, rvars
<1>2. ASSUME NEW i \in DOMAIN purge.todo  PROVE JobOK(purge.todo[i])'
  <2>1. PICK o \in Job : o = purge.todo[i]
    BY DEF PurgeOK
  <2>2. JobOK(o) /\ o.roll.trx \in TrxIds
    BY <2>1 DEF PurgeOK, Job, Pointers
  <2>3. \A d \in Clients : IsActive(d) => trx[d].id # o.roll.trx
    BY <2>2, ActiveFacts, PurgeSeesNoActive DEF JobOK
  <2>4. undo'[o.roll.trx] = undo[o.roll.trx]
    BY <2>2, <2>3, LogsStay
  <2>5. JobOK(o)'
    BY <1>1, <2>2, <2>4 DEF JobOK, Sees
  <2> QED
    BY <1>1, <2>1, <2>5
<1>3. AtRec(purge)'
  <2>1. CASE ~purge.stored
    BY <1>1, <2>1 DEF AtRec, PurgeOK
  <2>2. CASE purge.stored
    <3>1. PICK log \in DOMAIN history : log = purge.log
      BY <2>2 DEF PurgePositionOK
    <3>2. history[log].id \in TrxIds /\ history[log].no \in TrxIds
      BY HistoryTyped DEF RInv
    <3>3. history'[log] = history[log]
      <4>1. history \in Seq([id: TrxIds, no: TrxIds]) /\ m_max_trx_id \in TrxIds
        BY DEF RInv, TypeOKR
      <4>2. NumberTrx(c) \/ UNCHANGED history
        BY DEF ClientNext, Begin, OpenView, EndTrx, InsertRow, UpdateRow, DeleteRow, Write, SecMark,
               SecInsert, SetSec, StartRollback, UndoNext, UndoSecRemove, UndoSecMarkOrRemove, UndoSecUnmark,
               UndoRestore, UndoDrop, UndoDropMarked, SetClust, UndoPop, start_low, assign_read_view,
               CommitInMemory, rvars
      <4>3. CASE NumberTrx(c)
        <5>1. history' = Append(history, [id |-> trx[c].id, no |-> m_max_trx_id]) /\ IsActive(c)
          BY <4>3, NumberFacts
        <5>2. [id |-> trx[c].id, no |-> m_max_trx_id] \in [id: TrxIds, no: TrxIds]
          BY <4>1, <5>1, ActiveFacts
        <5> DEFINE T == [id: TrxIds, no: TrxIds]
                   e == [id |-> trx[c].id, no |-> m_max_trx_id]
        <5> HIDE DEF T, e
        <5>3. history \in Seq(T) /\ e \in T /\ history' = Append(history, e)
          BY <4>1, <5>1, <5>2 DEF T, e
        <5> QED
          BY <3>1, <5>3
      <4> QED
        BY <4>2, <4>3
    <3>4. \A d \in Clients : IsActive(d) /\ trx[d].id = history[log].id => trx[d].no # LsnMax
      <4>1. \A d \in Clients : IsActive(d) /\ trx[d].id = history[log].id => trx[d].no = history[log].no
        BY DEF RInv, LogsNumbered
      <4>2. history[log].no # LsnMax
        BY <3>2, IdAssumption DEF TrxIds, LsnMax
      <4> QED
        BY <4>1, <4>2
    <3>5. undo'[history[log].id] = undo[history[log].id]
      BY <3>2, <3>4, LogsStay
    <3> QED
      BY <1>1, <3>1, <3>3, <3>5 DEF AtRec, PurgeOK
  <2> QED
    BY <2>1, <2>2
<1> QED
  BY <1>1, <1>2, <1>3 DEF PurgeOK

\* The smallest of some records of a log.
LEMMA RecChosen ==
  ASSUME TypesOK, UndoBounded, NEW id \in TrxIds, NEW S, S \subseteq DOMAIN undo[id], NEW r, r = MinOr(S, 0)
  PROVE  r \in 0 .. MaxUndo /\ (r # 0 => r \in S)
<1>1. undo \in [TrxIds -> Seq(UndoRec)]
  BY DEF TypesOK
<1>2. DOMAIN undo[id] = 1 .. Len(undo[id]) /\ Len(undo[id]) \in Nat
  BY <1>1, UndoAt
<1>3. S \in SUBSET Nat
  BY <1>2
<1>4. /\ S = {} => r = 0
      /\ S # {} => r \in S
  BY <1>3, MinOrFacts
<1>5. Len(undo[id]) <= MaxUndo
  BY DEF UndoBounded
<1>6. r \in S => r \in 0 .. MaxUndo
  BY <1>2, <1>5, RowAssumption
<1> QED
  BY <1>4, <1>6, RowAssumption

\* The oldest log with records: its first record that is not an insert.
LEMMA ChosenRec ==
  ASSUME RInv, TypesOK, UndoBounded, NEW p, NEW last \in 0 .. Len(history), p = [f \in PurgeFields |-> p[f]],
         p.rec \in 0 .. MaxUndo
  PROVE  AtRec(choose_next_log(p, last))
<1>1. history \in Seq([id: TrxIds, no: TrxIds])
  BY DEF RInv, TypeOKR
<1>2. DOMAIN history = 1 .. Len(history) /\ Len(history) \in Nat
  <2> DEFINE T == [id: TrxIds, no: TrxIds]
  <2>1. history \in Seq(T)
    BY <1>1
  <2> HIDE DEF T
  <2> QED
    BY <2>1
<1>3. CASE last = 0
  <2>1. choose_next_log(p, last) = [p EXCEPT !.stored = FALSE]
    BY <1>3 DEF choose_next_log
  <2>2. choose_next_log(p, last).rec = p.rec /\ choose_next_log(p, last).stored = FALSE
    BY <2>1 DEF PurgeFields
  <2> QED
    BY <2>2 DEF AtRec
<1>4. CASE last # 0
  <2>1. last \in DOMAIN history
    BY <1>2, <1>4
  <2>2. PICK id \in TrxIds : id = history[last].id
    BY <2>1, HistoryTyped DEF RInv
  <2>3. PICK r : r = MinOr(LogRecs(id, Updating), 0)
    OBVIOUS
  <2>4. choose_next_log(p, last) =
          [p EXCEPT !.stored = TRUE, !.log = last, !.trx_no = history[last].no, !.rec = r]
    BY <1>4, <2>2, <2>3 DEF choose_next_log
  <2>5. LogRecs(id, Updating) \subseteq DOMAIN undo[id]
    BY DEF LogRecs
  <2>6. r \in 0 .. MaxUndo /\ (r # 0 => r \in LogRecs(id, Updating))
    BY <2>3, <2>5, RecChosen
  <2>7. r # 0 => r \in DOMAIN undo[id] /\ undo[id][r].type # "insert"
    BY <2>6 DEF LogRecs, Updating
  <2>8. PICK q : q = choose_next_log(p, last)
    OBVIOUS
  <2>9. q.rec = r /\ q.log = last /\ q.trx_no = history[last].no
    BY <2>4, <2>8 DEF PurgeFields
  <2>10. AtRec(q)
    BY <2>2, <2>6, <2>7, <2>9 DEF AtRec
  <2> QED
    BY <2>8, <2>10
<1> QED
  BY <1>3, <1>4

\* Where a batch goes on.
LEMMA FetchableRec ==
  ASSUME RInv, PurgePositionOK, TypesOK, UndoBounded, PurgeOK
  PROVE  /\ AtRec(Fetchable)
         /\ Fetchable = [f \in PurgeFields |-> Fetchable[f]]
         /\ Fetchable.stored => Fetchable.log \in DOMAIN history
         /\ Fetchable.on = purge.on /\ Fetchable.todo = purge.todo
<1>1. TypeOKR /\ AtRec(purge) /\ purge.rec \in 0 .. MaxUndo
  BY DEF RInv, PurgeOK, AtRec
<1>2. /\ Fetchable = [f \in PurgeFields |-> Fetchable[f]]
      /\ Fetchable.stored => Fetchable.log \in DOMAIN history
  BY <1>1, FetchablePosition
<1>3. /\ purge = [f \in PurgeFields |-> purge[f]] /\ purge.log \in Nat /\ purge.trx_no \in Nat
      /\ rseg_last \in 0 .. Len(history)
  BY DEF PurgePositionOK
<1>4. CASE purge.stored
  BY <1>1, <1>2, <1>4 DEF Fetchable
<1>5. CASE ~purge.stored
  <2>1. AtRec(choose_next_log(purge, rseg_last))
    BY <1>1, <1>3, ChosenRec
  <2>2. choose_next_log(purge, rseg_last).on = purge.on /\ choose_next_log(purge, rseg_last).todo = purge.todo
    BY <1>1, <1>3, ChosenPosition
  <2> QED
    BY <1>2, <1>5, <2>1, <2>2 DEF Fetchable
<1> QED
  BY <1>4, <1>5

\* The jobs of the record that a batch takes: its transaction is visible to
\* purge, by FACT C.
LEMMA JobsFetched ==
  ASSUME RInv, TypesOK, UndoBounded, VersionsOK, NEW log \in DOMAIN history, history[log].no < m_view.low_limit_no,
         NEW id, id = history[log].id, NEW n \in DOMAIN undo[id]
  PROVE  PurgeOps(id, n) \in Seq(Job) /\ \A i \in DOMAIN PurgeOps(id, n) : JobOK(PurgeOps(id, n)[i])
<1>1. id \in TrxIds
  BY HistoryTyped DEF RInv
<1>2. undo \in [TrxIds -> Seq(UndoRec)]
  BY DEF TypesOK
<1>3. PICK u \in UndoRec : u = undo[id][n] /\ u.key \in Keys /\ u.old \in Record /\ u.type \in Types
  BY <1>1, <1>2, UndoAt
<1>4. n \in 1 .. MaxUndo
  <2>1. DOMAIN undo[id] = 1 .. Len(undo[id]) /\ Len(undo[id]) \in Nat
    BY <1>1, <1>2, UndoAt
  <2>2. Len(undo[id]) <= MaxUndo
    BY <1>1 DEF UndoBounded
  <2> QED
    BY <2>1, <2>2, RowAssumption
<1>5. Sees(m_view, id)
  BY DEF RInv, ViewOK, LogsBelowSeen
<1>6. u.type # "insert" => u.old.val \in Vals
  <2>1. UndoRecOK(id, n, u)
    BY <1>1, <1>3 DEF VersionsOK
  <2>2. u.type # "insert" => u.old # NoRec
    BY <2>1 DEF UndoRecOK
  <2> QED
    BY <1>3, <2>2, RecordFacts
<1> DEFINE job(name) == [op |-> name, key |-> u.key, val |-> u.old.val,
                         roll |-> [trx |-> id, n |-> n, ins |-> FALSE]]
<1>7. ASSUME NEW name \in {"sec", "clust"}, u.type # "insert", name = "clust" => u.type = "del_mark"
      PROVE  job(name) \in Job /\ JobOK(job(name))
  <2>1. job(name).roll \in Pointers
    BY <1>1, <1>4 DEF Pointers
  <2>2. job(name) \in Job
    BY <1>3, <1>6, <1>7, <2>1 DEF Job
  <2>3. JobOK(job(name))
    BY <1>3, <1>5, <1>7 DEF JobOK
  <2> QED
    BY <2>2, <2>3
<1>8. PICK a : a = job("sec")
  OBVIOUS
<1>9. PICK b : b = job("clust")
  OBVIOUS
<1>10. PurgeOps(id, n) = IF u.type = "del_mark" THEN <<a, b>> ELSE IF u.type = "upd_exist" THEN <<a>> ELSE << >>
  BY <1>3, <1>8, <1>9 DEF PurgeOps
<1>11. /\ u.type # "insert" => a \in Job /\ JobOK(a)
       /\ u.type = "del_mark" => b \in Job /\ JobOK(b)
  BY <1>7, <1>8, <1>9
<1> HIDE DEF job
<1>12. CASE u.type = "del_mark"
  BY <1>10, <1>11, <1>12
<1>13. CASE u.type = "upd_exist"
  BY <1>10, <1>11, <1>13
<1>14. CASE u.type \notin {"del_mark", "upd_exist"}
  BY <1>10, <1>14
<1> QED
  BY <1>12, <1>13, <1>14

\* A batch takes a record.
LEMMA FetchKeepsPurge ==
  ASSUME RInv, PurgePositionOK, TypesOK, UndoBounded, VersionsOK, PurgeOK, FetchRec
  PROVE  PurgeOK'
<1>1. PICK p : p = Fetchable
  OBVIOUS
<1>2. /\ AtRec(p) /\ p = [f \in PurgeFields |-> p[f]]
      /\ p.stored => p.log \in DOMAIN history
      /\ p.on = purge.on /\ p.todo = purge.todo
  BY <1>1, FetchableRec
<1>3. /\ purge.on /\ purge.todo = << >> /\ p.stored /\ p.trx_no < m_view.low_limit_no
      /\ UNCHANGED <<rvars, undo>>
  BY <1>1 DEF FetchRec, CanFetch
<1>4. PICK log \in DOMAIN history : log = p.log
  BY <1>2, <1>3
<1>5. PICK id \in TrxIds : id = history[log].id
  BY HistoryTyped DEF RInv
<1>6. p.trx_no = history[log].no /\ p.rec \in 0 .. MaxUndo
      /\ (p.rec # 0 => p.rec \in DOMAIN undo[id])
  BY <1>2, <1>3, <1>4, <1>5 DEF AtRec
<1>7. PICK ops : ops = IF p.rec = 0 THEN << >> ELSE PurgeOps(id, p.rec)
  OBVIOUS
<1>8. ops \in Seq(Job) /\ \A i \in DOMAIN ops : JobOK(ops[i])
  <2>1. CASE p.rec = 0
    BY <1>7, <2>1
  <2>2. CASE p.rec # 0
    <3>1. history[log].no < m_view.low_limit_no /\ p.rec \in DOMAIN undo[id]
      BY <1>3, <1>6, <2>2
    <3>2. PurgeOps(id, p.rec) \in Seq(Job) /\ \A i \in DOMAIN PurgeOps(id, p.rec) : JobOK(PurgeOps(id, p.rec)[i])
      BY <1>5, <3>1, JobsFetched
    <3> QED
      BY <1>7, <2>2, <3>2
  <2> QED
    BY <2>1, <2>2
<1>9. PICK next : next = IF p.rec = 0 THEN 0 ELSE NextRec(p)
  OBVIOUS
<1>10. PICK last : last = NextLog(rseg_last)
  OBVIOUS
<1>11. last \in 0 .. Len(history)
  <2>1. rseg_last \in 0 .. Len(history) /\ Len(history) \in Nat
    BY DEF PurgePositionOK, RInv, TypeOKR
  <2> QED
    BY <1>10, <2>1 DEF NextLog
<1> DEFINE a == [p EXCEPT !.rec = next, !.todo = ops]
           b == [p EXCEPT !.trx_no = history[log].no + 1, !.handled = @ + 1, !.todo = ops]
<1>12. IF next # 0 THEN purge' = a ELSE purge' = choose_next_log(b, last)
  BY <1>1, <1>4, <1>5, <1>7, <1>9, <1>10 DEF FetchRec
<1>13. UNCHANGED <<undo, history, m_view>>
  BY <1>3 DEF rvars
<1>14. ASSUME NEW q, q = purge', AtRec(q), q.on, q.todo = ops  PROVE PurgeOK'
  <2>1. AtRec(q)'
    BY <1>13, <1>14 DEF AtRec
  <2>2. \A i \in DOMAIN ops : JobOK(ops[i])'
    BY <1>8, <1>13 DEF JobOK, Sees
  <2> QED
    BY <1>8, <1>14, <2>1, <2>2 DEF PurgeOK
<1>15. CASE next # 0
  <2>1. a.rec = next /\ a.todo = ops /\ a.on /\ a.stored = p.stored /\ a.log = log /\ a.trx_no = p.trx_no
    BY <1>2, <1>3, <1>4 DEF PurgeFields
  <2> HIDE DEF a
  <2>2. PICK S : S = {m \in LogRecs(id, {"upd_exist", "del_mark"}) : m > p.rec}
    OBVIOUS
  <2>3. next = MinOr(S, 0)
    BY <1>4, <1>5, <1>9, <1>15, <2>2 DEF NextRec
  <2>4. S \subseteq DOMAIN undo[id] /\ \A m \in S : undo[id][m].type # "insert"
    BY <2>2 DEF LogRecs
  <2>5. next \in 0 .. MaxUndo /\ next \in S
    BY <1>15, <2>3, <2>4, RecChosen
  <2>6. AtRec(a)
    BY <1>5, <1>6, <2>1, <2>4, <2>5 DEF AtRec
  <2> QED
    BY <1>12, <1>14, <1>15, <2>1, <2>6
<1>16. CASE next = 0
  <2>1. /\ b = [f \in PurgeFields |-> b[f]] /\ b.todo = ops /\ b.on /\ b.rec = p.rec
        /\ b.log = log /\ b.trx_no = history[log].no + 1
    BY <1>2, <1>3, <1>4 DEF PurgeFields
  <2>2. b.log \in Nat /\ b.trx_no \in Nat
    <3>1. history[log].no \in Nat /\ log \in Nat
      <4>1. history[log].no \in Nat
        BY HistoryTyped DEF RInv, TrxIds
      <4>2. DOMAIN history \subseteq Nat
        BY DEF RInv, TypeOKR
      <4> QED
        BY <4>1, <4>2
    <3> QED
      BY <2>1, <3>1
  <2> HIDE DEF b
  <2>3. AtRec(choose_next_log(b, last))
    BY <1>6, <1>11, <2>1, ChosenRec
  <2>4. choose_next_log(b, last).on = b.on /\ choose_next_log(b, last).todo = b.todo
    BY <1>11, <2>1, <2>2, ChosenPosition DEF RInv
  <2> QED
    BY <1>12, <1>14, <1>16, <2>1, <2>3, <2>4
<1> QED
  BY <1>15, <1>16

\* Every step keeps purge right.
LEMMA PurgeJobsKept ==
  ASSUME RInv, PurgePositionOK, TypesOK, UndoBounded, VersionsOK, TodoOK, NumberedDone, PurgeOK, [Next]_vars
  PROVE  PurgeOK'
<1>0. purge = [f \in PurgeFields |-> purge[f]]
  BY DEF PurgePositionOK
<1>1. ASSUME NEW c \in Clients, ClientNext(c)  PROVE PurgeOK'
  BY <1>1, PurgeUndisturbed
<1>2. CASE RunPurge
  <2>1. UNCHANGED <<undo, history>> /\ purge' = [purge EXCEPT !.on = TRUE] /\ ~purge.on
    BY <1>2 DEF RunPurge, RenewPurgeView
  <2>2. purge.todo = << >>
    BY <2>1 DEF PurgeOK
  <2>3. /\ purge'.todo = << >> /\ purge'.rec = purge.rec /\ purge'.stored = purge.stored
        /\ purge'.log = purge.log /\ purge'.trx_no = purge.trx_no
    BY <1>0, <2>1, <2>2 DEF PurgeFields
  <2>4. AtRec(purge)'
    BY <2>1, <2>3 DEF AtRec, PurgeOK
  <2> QED
    BY <2>3, <2>4 DEF PurgeOK
<1>3. CASE FetchRec
  BY <1>3, FetchKeepsPurge
<1>4. CASE EndPurge
  <2>1. UNCHANGED rvars /\ purge' = [Fetchable EXCEPT !.on = FALSE, !.handled = 0]
    BY <1>4, EndPurgeKeepsHistory
  <2>2. purge.todo = << >> /\ UNCHANGED undo
    BY <1>4 DEF EndPurge
  <2>3. PICK p : p = Fetchable
    OBVIOUS
  <2>4. AtRec(p) /\ p = [f \in PurgeFields |-> p[f]] /\ p.todo = << >>
    BY <2>2, <2>3, FetchableRec
  <2>5. purge' = [p EXCEPT !.on = FALSE, !.handled = 0]
    BY <2>1, <2>3
  <2>6. /\ purge'.todo = << >> /\ purge'.rec = p.rec /\ purge'.stored = p.stored
        /\ purge'.log = p.log /\ purge'.trx_no = p.trx_no
    BY <2>4, <2>5 DEF PurgeFields
  <2>7. UNCHANGED <<undo, history>>
    BY <2>1, <2>2 DEF rvars
  <2>8. AtRec(purge)'
    BY <2>4, <2>6, <2>7 DEF AtRec
  <2> QED
    BY <2>6, <2>8 DEF PurgeOK
<1>5. CASE PurgeSec \/ PurgeClust
  <2>1. /\ UNCHANGED <<undo, rvars>> /\ purge' = [purge EXCEPT !.todo = Tail(purge.todo)]
        /\ purge.todo # << >>
    BY <1>5 DEF PurgeSec, PurgeClust, PurgeDoes
  <2>2. UNCHANGED <<undo, history, m_view>>
    BY <2>1 DEF rvars
  <2>3. PICK s \in Seq(Job) : s = purge.todo
    BY DEF PurgeOK
  <2>4. /\ purge'.todo = Tail(s) /\ purge'.on = purge.on
        /\ purge'.rec = purge.rec /\ purge'.stored = purge.stored
        /\ purge'.log = purge.log /\ purge'.trx_no = purge.trx_no
    BY <1>0, <2>1, <2>3 DEF PurgeFields
  <2>5. /\ Tail(s) \in Seq(Job)
        /\ \A i \in DOMAIN Tail(s) : i \in Nat /\ i + 1 \in DOMAIN s /\ Tail(s)[i] = s[i + 1]
    BY <2>1, <2>3, TailFacts
  <2>6. \A i \in DOMAIN s : JobOK(s[i])'
    BY <2>2, <2>3 DEF PurgeOK, JobOK, Sees
  <2>7. PICK t : t = Tail(s)
    OBVIOUS
  <2>8. t \in Seq(Job) /\ purge'.todo = t /\ \A i \in DOMAIN t : JobOK(t[i])'
    BY <2>4, <2>5, <2>6, <2>7
  <2>9. AtRec(purge)' /\ purge'.on
    BY <2>1, <2>2, <2>4 DEF AtRec, PurgeOK
  <2> QED
    BY <2>8, <2>9 DEF PurgeOK
<1>6. CASE UNCHANGED vars
  <2>1. UNCHANGED <<purge, undo, history, m_view>>
    BY <1>6 DEF vars, rvars
  <2> QED
    BY <2>1 DEF PurgeOK, AtRec, JobOK, Sees
<1> QED
  BY <1>1, <1>2, <1>3, <1>4, <1>5, <1>6 DEF Next

-----------------------------------------------------------------------------
(* The inductive invariant.                                                *)

\* The initial state: rows of an ended transaction, no undo record, nobody
\* at work.
LEMMA MInit == Init => MInv
<1> SUFFICES ASSUME Init  PROVE MInv
  OBVIOUS
<1>1. /\ clust = [k \in Keys |-> OldRow] /\ undo = [id \in TrxIds |-> << >>]
      /\ work = [c \in Clients |-> Idle] /\ max_trx_id = 0 /\ stopped = FALSE
      /\ sec = [k \in Keys |-> [v \in Vals |-> IF v = InitialVal THEN "live" ELSE "none"]]
      /\ committed = [k \in Keys |-> InitialVal] /\ snap = [c \in Clients |-> [k \in Keys |-> 0]]
      /\ purge.todo = << >> /\ purge.rec = 0 /\ purge.stored = FALSE
      /\ trx = [c \in Clients |-> NotStarted] /\ m_view_list = << >>
  BY DEF Init, RInit
<1>2. \A c \in Clients : ~IsActive(c) /\ work[c].todo = << >>
  BY <1>1 DEF IsActive, NotStarted, Idle
<1>3. ActiveIds = {}
  BY <1>2 DEF ActiveIds
<1>4. \A id \in TrxIds : undo[id] = << >> /\ DOMAIN undo[id] = {} /\ Len(undo[id]) = 0
  BY <1>1
<1>5. TypesOK
  <2>1. Idle \in Work
    BY DEF Idle, Work
  <2>2. undo \in [TrxIds -> Seq(UndoRec)]
    BY <1>1
  <2>3. clust \in [Keys -> Record] /\ work \in [Clients -> Work]
    BY <1>1, <2>1, NoRecFacts
  <2>4. sec \in [Keys -> [Vals -> {"none", "live", "marked"}]]
    BY <1>1
  <2>5. committed \in Rows /\ snap \in [Clients -> Rows]
    BY <1>1, RowAssumption DEF Rows
  <2>6. max_trx_id \in 0 .. MaxTrxId
    BY <1>1, IdAssumption
  <2>7. stopped \in BOOLEAN
    BY <1>1
  <2> QED
    BY <2>2, <2>3, <2>4, <2>5, <2>6, <2>7 DEF TypesOK
<1>6. UndoBounded
  <2>1. UndoRecs = {}
    BY <1>4 DEF UndoRecs
  <2>2. Cardinality(UndoRecs) = 0
    BY <2>1, FS_EmptySet
  <2> QED
    BY <1>4, <2>2, RowAssumption DEF UndoBounded
<1>7. VersionsOK
  BY <1>1, <1>4, NoRecFacts DEF VersionsOK, VersionOK
<1>8. Acyclic
  <2> DEFINE z == [id \in TrxIds |-> [n \in Nat |-> 0]]
  <2>1. z \in [TrxIds -> [Nat -> Nat]]
    OBVIOUS
  <2> HIDE DEF z
  <2> QED
    BY <1>4, <2>1 DEF Acyclic
<1>9. CommittedShown
  BY <1>1, <1>3, NoRecFacts DEF CommittedShown, RowsShow, RecShows
<1>10. DOMAIN m_view_list = {}
  BY <1>1
<1>11. SnapsShown /\ SeesOwn
  BY <1>10 DEF SnapsShown, SeesOwn
<1>12. NumberedDone /\ LocksOK /\ TodoOK
  BY <1>2 DEF NumberedDone, LocksOK, TodoOK, WorkOK
<1>13. PurgeOK
  <2>1. purge.todo \in Seq(Job) /\ DOMAIN purge.todo = {}
    BY <1>1
  <2>2. AtRec(purge)
    BY <1>1, RowAssumption DEF AtRec
  <2> QED
    BY <1>1, <2>1, <2>2 DEF PurgeOK
<1> QED
  BY <1>5, <1>6, <1>7, <1>8, <1>9, <1>11, <1>12, <1>13 DEF MInv

\* Every step keeps the invariant.
LEMMA MStep == RInv /\ PurgePositionOK /\ MInv /\ [Next]_vars => MInv'
<1> SUFFICES ASSUME RInv, PurgePositionOK, MInv, [Next]_vars  PROVE MInv'
  OBVIOUS
<1>1. /\ TypesOK /\ UndoBounded /\ VersionsOK /\ Acyclic /\ CommittedShown /\ SnapsShown /\ SeesOwn
      /\ NumberedDone /\ LocksOK /\ TodoOK /\ PurgeOK
  BY DEF MInv
<1>2. RInv'
  BY StepRefines, StepGood
<1>3. TypesOK'
  BY <1>1, MvccTypesKept
<1>4. UndoBounded' /\ Acyclic'
  BY <1>1, UndoLogsKept
<1>5. VersionsOK'
  BY <1>1, <1>2, <1>3, VersionsKept
<1>6. CommittedShown'
  BY <1>1, <1>2, CommittedKept
<1>7. SnapsShown'
  BY <1>1, <1>2, SnapsKept
<1>8. SeesOwn'
  BY <1>1, SeesOwnKept
<1>9. NumberedDone'
  BY <1>1, NumberedDoneKept
<1>10. LocksOK'
  BY <1>1, <1>2, LocksKept
<1>11. TodoOK'
  BY <1>1, TodoKept
<1>12. PurgeOK'
  BY <1>1, PurgeJobsKept
<1> QED
  BY <1>3, <1>4, <1>5, <1>6, <1>7, <1>8, <1>9, <1>10, <1>11, <1>12 DEF MInv

\* The invariant of Mvcc: versions, undo logs, clients and purge fit, and
\* what a view may see of every row is what was committed when it was
\* opened.
THEOREM MvccInvariant == Spec => [](RInv /\ PurgePositionOK /\ MInv)
<1>1. Init => RInv /\ PurgePositionOK /\ MInv
  <2>1. Init => RInv
    BY InitGood DEF Init
  <2>2. Init => PurgePositionOK
    BY InitPosition
  <2> QED
    BY <2>1, <2>2, MInit
<1>2. RInv /\ PurgePositionOK /\ MInv /\ [Next]_vars => (RInv /\ PurgePositionOK /\ MInv)'
  BY StepRefines, StepGood, PositionKept, MStep
<1> QED
  BY <1>1, <1>2, PTL DEF Spec

\* Every record has a roll pointer to a record of an undo log of its row,
\* and every other variable its type.
THEOREM MvccTypes == Spec => []TypeOK
<1>1. RInv /\ PurgePositionOK /\ MInv => TypeOK
  <2> SUFFICES ASSUME RInv, PurgePositionOK, MInv  PROVE TypeOK
    OBVIOUS
  <2>1. TypesOK /\ VersionsOK /\ PurgeOK
    BY DEF MInv
  <2>2. ASSUME NEW k \in Keys, ~clust[k].roll.ins
        PROVE  /\ clust[k].roll.n \in DOMAIN undo[clust[k].roll.trx]
               /\ undo[clust[k].roll.trx][clust[k].roll.n].key = k
    <3>1. clust[k] \in Record /\ VersionOK(clust[k], k)
      BY <2>1 DEF TypesOK, VersionsOK
    <3>2. clust[k].trx_id # 0
      BY <2>2, <3>1, RecordFacts
    <3> QED
      BY <2>2, <3>1, <3>2 DEF VersionOK
  <2>3. TypeOKR /\ rseg_last \in 0 .. Len(history) /\ purge.rec \in 0 .. MaxUndo
    BY <2>1 DEF RInv, PurgePositionOK, PurgeOK, AtRec
  <2> QED
    BY <2>1, <2>2, <2>3 DEF TypeOK, TypesOK
<1> QED
  BY <1>1, MvccInvariant, PTL

-----------------------------------------------------------------------------
(* Chains of versions are no longer than there are undo records.           *)

\* The undo record below a version has one rank less.
LEMMA RankBelow ==
  ASSUME TypesOK, VersionsOK, NEW d \in [TrxIds -> [Nat -> Nat]],
         \A id \in TrxIds : \A n \in DOMAIN undo[id] : d[id][n] = 1 + DepthOf(d, undo[id][n].old),
         NEW id \in TrxIds, NEW n \in DOMAIN undo[id], NEW m \in Nat, d[id][n] = m + 1, m # 0
  PROVE  \E j \in TrxIds : \E i \in DOMAIN undo[j] : d[j][i] = m
<1>1. undo \in [TrxIds -> Seq(UndoRec)]
  BY DEF TypesOK
<1>2. PICK r \in Record : r = undo[id][n].old
  BY <1>1, UndoAt
<1>3. UndoRecOK(id, n, undo[id][n])
  BY DEF VersionsOK
<1>4. VersionOK(r, undo[id][n].key)
  BY <1>2, <1>3 DEF UndoRecOK
<1>5. d[id][n] = 1 + DepthOf(d, r)
  BY <1>2
<1>6. ~r.roll.ins
  <2>1. r.roll.ins => DepthOf(d, r) = 0
    BY DEF DepthOf
  <2> QED
    BY <1>5, <2>1
<1>7. r.trx_id \in TrxIds /\ r.trx_id # 0
  BY <1>6, RecordFacts
<1>8. r.roll.trx = r.trx_id /\ r.roll.n \in DOMAIN undo[r.trx_id]
  BY <1>4, <1>6, <1>7 DEF VersionOK
<1>9. DepthOf(d, r) = d[r.trx_id][r.roll.n]
  BY <1>6, <1>8 DEF DepthOf
<1>10. r.roll.n \in Nat
  <2>1. DOMAIN undo[r.trx_id] = 1 .. Len(undo[r.trx_id]) /\ Len(undo[r.trx_id]) \in Nat
    BY <1>1, <1>7, UndoAt
  <2> QED
    BY <1>8, <2>1
<1>11. d[r.trx_id][r.roll.n] \in Nat
  BY <1>7, <1>10
<1>12. d[r.trx_id][r.roll.n] = m
  <2>1. PICK x \in Nat : x = d[r.trx_id][r.roll.n]
    BY <1>11
  <2>2. m + 1 = 1 + x
    BY <1>5, <1>9, <2>1
  <2>3. x = m
    BY <2>2
  <2> QED
    BY <2>1, <2>3, Zenon
<1> QED
  BY <1>7, <1>8, <1>12

\* Every rank up to that of a record is the rank of a record.
LEMMA RanksAttained ==
  ASSUME TypesOK, VersionsOK, NEW d \in [TrxIds -> [Nat -> Nat]],
         \A id \in TrxIds : \A n \in DOMAIN undo[id] : d[id][n] = 1 + DepthOf(d, undo[id][n].old),
         NEW id \in TrxIds, NEW n \in DOMAIN undo[id], NEW m \in 1 .. d[id][n]
  PROVE  \E j \in TrxIds : \E i \in DOMAIN undo[j] : d[j][i] = m
<1> DEFINE Attained(x) == \E j \in TrxIds : \E i \in DOMAIN undo[j] : d[j][i] = x
<1>1. undo \in [TrxIds -> Seq(UndoRec)]
  BY DEF TypesOK
<1>2. n \in Nat
  <2>1. DOMAIN undo[id] = 1 .. Len(undo[id]) /\ Len(undo[id]) \in Nat
    BY <1>1, UndoAt
  <2> QED
    BY <2>1
<1>3. PICK top \in Nat : top = d[id][n]
  BY <1>2
<1>4. Attained(top)
  BY <1>3
<1>5. ASSUME NEW x \in Nat, x # 0, Attained(x + 1)  PROVE Attained(x)
  BY <1>5, RankBelow
<1> HIDE DEF Attained
<1> SUFFICES ASSUME ~Attained(m)  PROVE FALSE
  BY DEF Attained
<1> DEFINE S == {j \in Nat : j < top /\ ~Attained(top - j)}
<1>6. S \in SUBSET Nat
  OBVIOUS
<1>7. top - m \in S
  <2>1. m \in Nat /\ m <= top /\ m # 0
    BY <1>3
  <2>2. top - m \in Nat /\ top - m < top /\ top - (top - m) = m
    BY <2>1
  <2> QED
    BY <2>2
<1>8. PICK j \in S : Smallest(S, j)
  BY <1>6, <1>7, SmallestExists
<1>9. j # 0
  BY <1>4, <1>8
<1>10. j - 1 \in Nat /\ j - 1 < top /\ j - 1 \notin S
  <2>1. j \in Nat /\ j < top
    BY <1>8
  <2>2. j - 1 \in Nat /\ j - 1 < top /\ ~(j <= j - 1)
    BY <1>9, <2>1
  <2>3. \A i \in S : j <= i
    BY <1>8 DEF Smallest
  <2> HIDE DEF S
  <2> QED
    BY <2>2, <2>3
<1>11. Attained(top - (j - 1))
  BY <1>10
<1>12. top - (j - 1) = (top - j) + 1 /\ top - j \in Nat /\ top - j # 0
  BY <1>8
<1>13. Attained((top - j) + 1)
  BY <1>11, <1>12
<1>14. Attained(top - j)
  BY <1>5, <1>12, <1>13
<1> QED
  BY <1>8, <1>14

\* A version has no more undo records below it than there are undo records.
LEMMA DepthBounded ==
  ASSUME TypesOK, UndoBounded, VersionsOK, NEW d \in [TrxIds -> [Nat -> Nat]],
         \A id \in TrxIds : \A n \in DOMAIN undo[id] : d[id][n] = 1 + DepthOf(d, undo[id][n].old),
         NEW k \in Keys, NEW r \in Record, VersionOK(r, k)
  PROVE  DepthOf(d, r) \in 0 .. MaxUndo
<1>1. CASE r.roll.ins
  BY <1>1, RowAssumption DEF DepthOf
<1>2. CASE ~r.roll.ins
  <2>1. undo \in [TrxIds -> Seq(UndoRec)]
    BY DEF TypesOK
  <2>2. r.trx_id \in TrxIds /\ r.trx_id # 0
    BY <1>2, RecordFacts
  <2>3. PICK id \in TrxIds : id = r.trx_id
    BY <2>2
  <2>4. PICK n : n = r.roll.n
    OBVIOUS
  <2>5. n \in DOMAIN undo[id] /\ r.roll.trx = id
    BY <1>2, <2>2, <2>3, <2>4 DEF VersionOK
  <2>6. \A j \in TrxIds : \A i \in DOMAIN undo[j] : i \in Nat
    <3> SUFFICES ASSUME NEW j \in TrxIds, NEW i \in DOMAIN undo[j]  PROVE i \in Nat
      OBVIOUS
    <3>1. DOMAIN undo[j] = 1 .. Len(undo[j]) /\ Len(undo[j]) \in Nat
      BY <2>1, UndoAt
    <3> QED
      BY <3>1
  <2>7. PICK top \in Nat : top = d[id][n]
    BY <2>5, <2>6
  <2> DEFINE U == {x \in UndoRecs : d[x[1]][x[2]] \in 1 .. top}
             f == [x \in U |-> d[x[1]][x[2]]]
  <2>8. f \in [U -> 1 .. top]
    OBVIOUS
  <2>9. ASSUME NEW m \in 1 .. top  PROVE \E x \in U : f[x] = m
    <3>1. m \in 1 .. d[id][n]
      BY <2>7
    <3>2. \E j \in TrxIds : \E i \in DOMAIN undo[j] : d[j][i] = m
      BY <2>5, <3>1, RanksAttained
    <3>3. PICK j \in TrxIds : \E i \in DOMAIN undo[j] : d[j][i] = m
      BY <3>2
    <3>4. PICK i \in DOMAIN undo[j] : d[j][i] = m
      BY <3>3
    <3>5. <<j, i>> \in UndoRecs
      BY UndoRecsMeaning
    <3>6. <<j, i>> \in U
      BY <3>4, <3>5
    <3>7. f[<<j, i>>] = m
      BY <3>4, <3>6
    <3> HIDE DEF U, f
    <3> QED
      BY <3>6, <3>7
  <2>10. f \in Surjection(U, 1 .. top)
    <3> HIDE DEF U, f
    <3> QED
      BY <2>8, <2>9 DEF Surjection
  <2>11. IsFiniteSet(UndoRecs) /\ Cardinality(UndoRecs) \in Nat
    <3>1. \A j \in TrxIds : Len(undo[j]) <= MaxUndo
      BY DEF UndoBounded
    <3> QED
      BY <2>1, <3>1, UndoRecsFinite, RowAssumption
  <2>12. U \in SUBSET UndoRecs
    OBVIOUS
  <2> HIDE DEF U, f
  <2>13. IsFiniteSet(U) /\ Cardinality(U) <= Cardinality(UndoRecs)
    BY <2>11, <2>12, FS_Subset
  <2>14. Cardinality(1 .. top) <= Cardinality(U)
    BY <2>10, <2>13, FS_Surjection
  <2>15. Cardinality(1 .. top) = top
    BY FS_Interval
  <2>16. Cardinality(U) \in Nat
    BY <2>13, FS_CardinalityType
  <2>17. Cardinality(UndoRecs) <= MaxUndo
    BY DEF UndoBounded
  <2>18. top <= MaxUndo
    BY <2>11, <2>13, <2>14, <2>15, <2>16, <2>17, RowAssumption
  <2>19. DepthOf(d, r) = top
    BY <1>2, <2>4, <2>5, <2>7 DEF DepthOf
  <2> QED
    BY <2>18, <2>19
<1> QED
  BY <1>1, <1>2

-----------------------------------------------------------------------------
(* Consistent reads.                                                       *)

\* One round of the loop over earlier versions.
Round(view, r) == IF read_view_sees_trx_id(view, r.trx_id) THEN r ELSE PrevVersion(r)

\* The versions after each round up to the given one.
IsRounds(v, view, rec, top) ==
  v = [n \in 0 .. top |-> IF n = 0 THEN rec ELSE Round(view, v[n - 1])]

\* The loop defines its versions: those of some rounds extend to one more.
LEMMA RoundsExist ==
  ASSUME NEW view, NEW rec, NEW top \in Nat
  PROVE  \E v : IsRounds(v, view, rec, top)
<1>1. \E v : IsRounds(v, view, rec, 0)
  <2> DEFINE z == [n \in 0 .. 0 |-> rec]
  <2>1. IsRounds(z, view, rec, 0)
    <3>1. \A n \in 0 .. 0 : n = 0
      OBVIOUS
    <3> QED
      BY <3>1 DEF IsRounds
  <2> QED
    BY <2>1
<1>2. ASSUME NEW m \in Nat, NEW v, IsRounds(v, view, rec, m)
      PROVE  \E w : IsRounds(w, view, rec, m + 1)
  <2> DEFINE w == [n \in 0 .. m + 1 |-> IF n = m + 1 THEN Round(view, v[m]) ELSE v[n]]
  <2>1. \A n \in 0 .. m : v[n] = IF n = 0 THEN rec ELSE Round(view, v[n - 1])
    BY <1>2 DEF IsRounds
  <2>2. ASSUME NEW n \in 0 .. m + 1  PROVE w[n] = IF n = 0 THEN rec ELSE Round(view, w[n - 1])
    <3>1. CASE n = m + 1
      <4>1. n # 0 /\ n - 1 = m /\ m \in 0 .. m + 1 /\ m # m + 1
        BY <3>1
      <4>2. w[n - 1] = v[m] /\ w[n] = Round(view, v[m])
        BY <3>1, <4>1
      <4> QED
        BY <4>1, <4>2
    <3>2. CASE n # m + 1 /\ n # 0
      <4>1. n \in 0 .. m /\ n - 1 \in 0 .. m + 1 /\ n - 1 # m + 1
        BY <3>2
      <4>2. w[n - 1] = v[n - 1] /\ w[n] = v[n]
        BY <3>2, <4>1
      <4> QED
        BY <2>1, <3>2, <4>1, <4>2
    <3>3. CASE n = 0
      <4>1. n # m + 1 /\ n \in 0 .. m
        BY <3>3
      <4> QED
        BY <2>1, <3>3, <4>1
    <3> QED
      BY <3>1, <3>2, <3>3
  <2>3. w = [n \in 0 .. m + 1 |-> w[n]]
    OBVIOUS
  <2> HIDE DEF w
  <2>4. w = [n \in 0 .. m + 1 |-> IF n = 0 THEN rec ELSE Round(view, w[n - 1])]
    BY <2>2, <2>3
  <2> QED
    BY <2>4 DEF IsRounds
<1> DEFINE S == {m \in Nat : ~\E v : IsRounds(v, view, rec, m)}
<1> SUFFICES ASSUME S # {}  PROVE FALSE
  OBVIOUS
<1>3. PICK m \in S : Smallest(S, m)
  BY SmallestExists
<1>4. m \in Nat /\ m # 0
  BY <1>1
<1>5. m - 1 \in Nat /\ (m - 1) + 1 = m /\ ~(m <= m - 1)
  BY <1>4
<1>6. m - 1 \notin S
  <2> HIDE DEF S
  <2> QED
    BY <1>3, <1>5 DEF Smallest
<1>7. \E v : IsRounds(v, view, rec, (m - 1) + 1)
  BY <1>2, <1>5, <1>6
<1>8. \E v : IsRounds(v, view, rec, m)
  BY <1>5, <1>7
<1> QED
  BY <1>8

\* What the loop returns is the version after its last round.
LEMMA LoopMeaning ==
  ASSUME NEW view, NEW rec
  PROVE  \E v : IsRounds(v, view, rec, MaxUndo + 1) /\ build_for_consistent_read(view, rec) = v[MaxUndo + 1]
<1> DEFINE v == CHOOSE v : v = [n \in 0 .. MaxUndo + 1 |->
                                  IF n = 0 THEN rec
                                  ELSE IF read_view_sees_trx_id(view, v[n - 1].trx_id) THEN v[n - 1]
                                  ELSE PrevVersion(v[n - 1])]
<1>1. build_for_consistent_read(view, rec) = v[MaxUndo + 1]
  BY DEF build_for_consistent_read
<1>2. MaxUndo + 1 \in Nat
  BY RowAssumption
<1>3. \E w : w = [n \in 0 .. MaxUndo + 1 |->
                                  IF n = 0 THEN rec
                                  ELSE IF read_view_sees_trx_id(view, w[n - 1].trx_id) THEN w[n - 1]
                                  ELSE PrevVersion(w[n - 1])]
  <2>1. PICK w : IsRounds(w, view, rec, MaxUndo + 1)
    BY <1>2, RoundsExist
  <2>2. w = [n \in 0 .. MaxUndo + 1 |->
               IF n = 0 THEN rec
               ELSE IF read_view_sees_trx_id(view, w[n - 1].trx_id) THEN w[n - 1]
               ELSE PrevVersion(w[n - 1])]
    BY <2>1 DEF IsRounds, Round
  <2> QED
    BY <2>2, Zenon
<1>4. v = [n \in 0 .. MaxUndo + 1 |->
             IF n = 0 THEN rec
             ELSE IF read_view_sees_trx_id(view, v[n - 1].trx_id) THEN v[n - 1]
             ELSE PrevVersion(v[n - 1])]
  BY <1>3
<1> HIDE DEF v
<1>5. IsRounds(v, view, rec, MaxUndo + 1)
  BY <1>4 DEF IsRounds, Round
<1> QED
  BY <1>1, <1>5

\* Where a reader with view v finds a version of the row of key k: in the
\* clustered index, or in the undo record that another version it has come
\* by leads to, of a transaction that the view does not see.
Found(v, k, r) ==
  \/ r \in {clust[k], NoRec}
  \/ \E id \in TrxIds : \E n \in DOMAIN undo[id] :
         /\ ~Sees(v, id) /\ undo[id][n].type # "insert" /\ undo[id][n].key = k /\ r = undo[id][n].old
         /\ \/ clust[k].trx_id = id /\ clust[k].roll.n = n
            \/ \E i \in TrxIds : \E m \in DOMAIN undo[i] :
                   undo[i][m].key = k /\ undo[i][m].old.trx_id = id /\ undo[i][m].old.roll.n = n

\* A version of the row of key k that the client of view v may come by: not
\* its own, and it shows the row of the snapshot once hidden changes are
\* taken away.
OnTheWay(v, k, row, r) ==
  /\ r \in Record /\ VersionOK(r, k) /\ r.trx_id # v.creator
  /\ RecShows(Hidden(v), r, row)
  /\ Found(v, k, r)

\* The visibility test, for the transaction of a record.
LEMMA SeesRecord ==
  ASSUME NEW v \in View, WellFormed(v), NEW r \in Record
  PROVE  read_view_sees_trx_id(v, r.trx_id) <=> r.trx_id = 0 \/ Sees(v, r.trx_id)
<1>1. CASE r.trx_id = 0
  <2>1. v.up_limit_id \in TrxIds
    BY DEF View
  <2> QED
    BY <1>1, <2>1 DEF read_view_sees_trx_id, TrxIds
<1>2. CASE r.trx_id # 0
  <2>1. r.trx_id \in TrxIds
    BY <1>2, RecordFacts
  <2> QED
    BY <1>2, <2>1, SeesMeaning
<1> QED
  BY <1>1, <1>2

\* A version on the way that the view sees is the row of the snapshot.
LEMMA SeenIsRight ==
  ASSUME NEW v \in View, NEW k \in Keys, NEW row, NEW r, OnTheWay(v, k, row, r), r.trx_id = 0 \/ Sees(v, r.trx_id)
  PROVE  RowOf(r) = row
<1>1. r.trx_id \notin Hidden(v)
  BY DEF Hidden, OnTheWay, TrxIds
<1> QED
  BY <1>1 DEF OnTheWay, RecShows

\* One that the view does not see has its undo record still, and the
\* version in it is on the way, too, with one undo record less below it.
LEMMA NextOnTheWay ==
  ASSUME RInv, TypesOK, VersionsOK, NEW x \in DOMAIN m_view_list, NEW v \in View, v = m_view_list[x],
         v.creator \in ActiveIds, NEW f, RowsShow(Hidden(v), f), NEW k \in Keys,
         NEW r, OnTheWay(v, k, f[k], r), r.trx_id # 0, ~Sees(v, r.trx_id)
  PROVE  /\ OnTheWay(v, k, f[k], PrevVersion(r))
         /\ r.roll.ins => PrevVersion(r).trx_id = 0
         /\ ~r.roll.ins => /\ r.trx_id \in TrxIds /\ r.roll.trx = r.trx_id /\ r.roll.n \in DOMAIN undo[r.trx_id]
                           /\ PrevVersion(r) = undo[r.trx_id][r.roll.n].old
<1>1. r \in Record /\ VersionOK(r, k) /\ r.trx_id # v.creator /\ RecShows(Hidden(v), r, f[k])
  BY DEF OnTheWay
<1>2. r.trx_id \in TrxIds /\ r.trx_id \in Hidden(v)
  BY <1>1, RecordFacts DEF Hidden
<1>3. 0 \notin Hidden(v) /\ 0 \notin ActiveIds
  BY ActiveFacts DEF Hidden, TrxIds
<1>4. CASE r.roll.ins
  <2>1. PrevVersion(r) = NoRec
    BY <1>4 DEF PrevVersion
  <2>2. f[k] = 0
    BY <1>1, <1>2, <1>4 DEF RecShows
  <2>3. RecShows(Hidden(v), NoRec, f[k])
    BY <1>3, <2>2, NoRecFacts DEF RecShows
  <2>4. VersionOK(NoRec, k) /\ NoRec.trx_id # v.creator
    BY <1>3, NoRecFacts DEF VersionOK
  <2>5. Found(v, k, NoRec)
    BY DEF Found
  <2> QED
    BY <1>4, <2>1, <2>3, <2>4, <2>5, NoRecFacts DEF OnTheWay
<1>5. CASE ~r.roll.ins
  <2>1. PICK id \in TrxIds : id = r.trx_id
    BY <1>2
  <2>2. PICK n : n = r.roll.n
    OBVIOUS
  <2>3. /\ r.roll.trx = id /\ n \in DOMAIN undo[id]
        /\ undo[id][n].key = k /\ undo[id][n].type # "insert"
    BY <1>1, <1>5, <2>1, <2>2 DEF VersionOK
  <2>4. update_undo_must_exist(r.trx_id)
    <3>1. ~Sees(m_view, id)
      BY <2>1 DEF RInv, PurgeSeesLess
    <3> QED
      BY <2>1, <3>1, PurgeViewMeaning
  <2>5. PICK o : o = undo[id][n].old
    OBVIOUS
  <2>6. PrevVersion(r) = o
    BY <1>5, <2>2, <2>3, <2>4, <2>5 DEF PrevVersion, OldRec
  <2>7. undo \in [TrxIds -> Seq(UndoRec)]
    BY DEF TypesOK
  <2>8. o \in Record
    BY <2>3, <2>5, <2>7, UndoAt
  <2>9. UndoRecOK(id, n, undo[id][n])
    BY <2>3 DEF VersionsOK
  <2>10. VersionOK(o, k) /\ (o.trx_id \in ActiveIds => o.trx_id = id)
    BY <2>3, <2>5, <2>9 DEF UndoRecOK
  <2>11. o.trx_id # v.creator
    BY <1>1, <2>1, <2>10
  <2>12. RecShows(Hidden(v), o, f[k])
    BY <1>2, <2>1, <2>3, <2>5 DEF RowsShow
  <2>13. Found(v, k, o)
    <3>1. r # NoRec /\ Found(v, k, r)
      BY NoRecFacts DEF OnTheWay
    <3>2. \/ clust[k].trx_id = id /\ clust[k].roll.n = n
          \/ \E i \in TrxIds : \E m \in DOMAIN undo[i] :
                 undo[i][m].key = k /\ undo[i][m].old.trx_id = id /\ undo[i][m].old.roll.n = n
      BY <2>1, <2>2, <3>1 DEF Found
    <3> QED
      BY <2>1, <2>3, <2>5, <3>2 DEF Found
  <2> QED
    BY <1>5, <2>1, <2>2, <2>3, <2>5, <2>6, <2>8, <2>10, <2>11, <2>12, <2>13 DEF OnTheWay
<1> QED
  BY <1>4, <1>5

\* The loop ends at a version that the view sees, which is the row of the
\* snapshot: every round takes it one undo record further down, and there
\* are no more than MaxUndo.
LEMMA LoopFindsRow ==
  ASSUME RInv, TypesOK, UndoBounded, VersionsOK, Acyclic, NEW x \in DOMAIN m_view_list, NEW v \in View,
         v = m_view_list[x], v.creator \in ActiveIds, NEW f, RowsShow(Hidden(v), f), NEW k \in Keys,
         NEW r, OnTheWay(v, k, f[k], r)
  PROVE  \E s : /\ s = build_for_consistent_read(v, r)
                /\ RowOf(s) = f[k] /\ Found(v, k, s)
                /\ s.trx_id = 0 \/ Sees(v, s.trx_id)
<1>0. WellFormed(v)
  BY DEF RInv, ViewOK
<1>1. PICK w : IsRounds(w, v, r, MaxUndo + 1) /\ build_for_consistent_read(v, r) = w[MaxUndo + 1]
  BY LoopMeaning
<1>2. \A n \in 0 .. MaxUndo + 1 : w[n] = IF n = 0 THEN r ELSE Round(v, w[n - 1])
  BY <1>1 DEF IsRounds
<1>3. PICK d \in [TrxIds -> [Nat -> Nat]] :
          \A id \in TrxIds : \A n \in DOMAIN undo[id] : d[id][n] = 1 + DepthOf(d, undo[id][n].old)
  BY DEF Acyclic
<1>4. MaxUndo \in Nat
  BY RowAssumption
<1> DEFINE Seen(s) == s.trx_id = 0 \/ Sees(v, s.trx_id)
           Good(n, s) == /\ OnTheWay(v, k, f[k], s)
                         /\ Seen(s) \/ DepthOf(d, s) + n <= MaxUndo
<1>5. \A s : OnTheWay(v, k, f[k], s) => DepthOf(d, s) \in 0 .. MaxUndo
  BY <1>3, DepthBounded DEF OnTheWay
<1>6. Good(0, r)
  <2>1. DepthOf(d, r) \in 0 .. MaxUndo
    BY <1>5
  <2>2. DepthOf(d, r) + 0 <= MaxUndo
    BY <1>4, <2>1
  <2> QED
    BY <2>2
<1>7. ASSUME NEW n \in Nat, NEW s, Good(n, s)  PROVE Good(n + 1, Round(v, s))
  <2>1. s \in Record
    BY <1>7 DEF OnTheWay
  <2>2. read_view_sees_trx_id(v, s.trx_id) <=> Seen(s)
    BY <1>0, <2>1, SeesRecord
  <2>3. CASE Seen(s)
    <3>1. Round(v, s) = s
      BY <2>2, <2>3 DEF Round
    <3> HIDE DEF Seen
    <3> QED
      BY <1>7, <2>3, <3>1
  <2>4. CASE ~Seen(s)
    <3>1. PICK p : p = PrevVersion(s)
      OBVIOUS
    <3>2. Round(v, s) = p
      BY <2>2, <2>4, <3>1 DEF Round
    <3>3. /\ OnTheWay(v, k, f[k], p)
          /\ s.roll.ins => p.trx_id = 0
          /\ ~s.roll.ins => /\ s.trx_id \in TrxIds /\ s.roll.trx = s.trx_id /\ s.roll.n \in DOMAIN undo[s.trx_id]
                            /\ p = undo[s.trx_id][s.roll.n].old
      BY <1>7, <2>4, <3>1, NextOnTheWay
    <3>4. ASSUME ~s.roll.ins  PROVE DepthOf(d, p) + (n + 1) <= MaxUndo
      <4>1. DepthOf(d, s) = d[s.trx_id][s.roll.n]
        BY <3>3, <3>4 DEF DepthOf
      <4>2. d[s.trx_id][s.roll.n] = 1 + DepthOf(d, p)
        BY <1>3, <3>3, <3>4
      <4>3. PICK a \in Nat : a = DepthOf(d, p)
        BY <1>5, <3>3
      <4>4. DepthOf(d, s) = 1 + a /\ DepthOf(d, s) + n <= MaxUndo
        BY <1>7, <2>4, <4>1, <4>2, <4>3
      <4>5. a + (n + 1) <= MaxUndo
        BY <1>4, <4>4
      <4> QED
        BY <4>3, <4>5
    <3>5. Good(n + 1, p)
      BY <3>3, <3>4
    <3> HIDE DEF Good
    <3> QED
      BY <3>2, <3>5
  <2> QED
    BY <2>3, <2>4
<1> HIDE DEF Good
<1>8. \A n \in 0 .. MaxUndo + 1 : Good(n, w[n])
  <2> DEFINE S == {n \in 0 .. MaxUndo + 1 : ~Good(n, w[n])}
  <2> SUFFICES ASSUME S # {}  PROVE FALSE
    OBVIOUS
  <2>1. S \in SUBSET Nat
    BY <1>4
  <2>2. PICK n \in S : Smallest(S, n)
    BY <2>1, SmallestExists
  <2>3. n \in 0 .. MaxUndo + 1 /\ ~Good(n, w[n])
    BY <2>2
  <2>4. n # 0
    <3>1. 0 \in 0 .. MaxUndo + 1
      BY <1>4
    <3>2. w[0] = r
      BY <1>2, <3>1
    <3> QED
      BY <1>6, <2>3, <3>2
  <2>5. n - 1 \in 0 .. MaxUndo + 1 /\ n - 1 \in Nat /\ (n - 1) + 1 = n /\ ~(n <= n - 1)
    BY <1>4, <2>3, <2>4
  <2>6. Good(n - 1, w[n - 1])
    <3>1. n - 1 \notin S
      <4> HIDE DEF S
      <4> QED
        BY <2>2, <2>5 DEF Smallest
    <3> QED
      BY <2>5, <3>1
  <2>7. Good((n - 1) + 1, Round(v, w[n - 1]))
    BY <1>7, <2>5, <2>6
  <2>8. w[n] = Round(v, w[n - 1])
    BY <1>2, <2>3, <2>4
  <2> QED
    BY <2>3, <2>5, <2>7, <2>8
<1>9. PICK s : s = w[MaxUndo + 1]
  OBVIOUS
<1>10. Good(MaxUndo + 1, s)
  <2>1. MaxUndo + 1 \in 0 .. MaxUndo + 1
    BY <1>4
  <2> QED
    BY <1>8, <1>9, <2>1
<1>11. OnTheWay(v, k, f[k], s) /\ (Seen(s) \/ DepthOf(d, s) + (MaxUndo + 1) <= MaxUndo)
  BY <1>10 DEF Good
<1>12. Seen(s)
  <2>1. PICK a \in Nat : a = DepthOf(d, s)
    BY <1>5, <1>11
  <2>2. ~(a + (MaxUndo + 1) <= MaxUndo)
    BY <1>4
  <2> QED
    BY <1>11, <2>1, <2>2
<1>13. RowOf(s) = f[k]
  BY <1>11, <1>12, SeenIsRight
<1> QED
  BY <1>1, <1>9, <1>11, <1>12, <1>13 DEF OnTheWay

\* The version that a reader finds is seen by its view, and is the row that
\* it expects.
LEMMA SeenIsExpected ==
  ASSUME RInv, MInv, NEW c \in Readers, NEW k \in Keys, NEW v, v = ReaderView(c)
  PROVE  \E t : /\ t = VersionSeen(v, k) /\ RowOf(t) = Expected(c, k) /\ Found(v, k, t)
                /\ t.trx_id = 0 \/ Sees(v, t.trx_id)
<1>1. TypesOK /\ UndoBounded /\ VersionsOK /\ Acyclic /\ SnapsShown /\ SeesOwn
  BY DEF MInv
<1>2. c \in Clients /\ IsActive(c) /\ ViewsOf(trx[c].id) # {}
  BY DEF Readers, HasView
<1>3. PICK x : x = CHOOSE i \in ViewsOf(trx[c].id) : TRUE
  OBVIOUS
<1>4. x \in DOMAIN m_view_list /\ m_view_list[x].creator = trx[c].id
  BY <1>2, <1>3 DEF ViewsOf
<1>5. v \in View /\ v = m_view_list[x]
  BY <1>3, <1>4 DEF RInv, TypeOKR, ReaderView
<1>6. v.creator = trx[c].id /\ v.creator \in ActiveIds /\ v.creator \in TrxIds
  BY <1>2, <1>4, <1>5, ActiveFacts
<1>7. PICK f : f = snap[c] /\ RowsShow(Hidden(v), f)
  BY <1>1, <1>2, <1>4, <1>5 DEF SnapsShown
<1>8. PICK r \in Record : r = clust[k]
  BY <1>1 DEF TypesOK
<1>9. WellFormed(v)
  BY <1>4, <1>5 DEF RInv, ViewOK
<1>10. read_view_sees_trx_id(v, r.trx_id) <=> r.trx_id = 0 \/ Sees(v, r.trx_id)
  BY <1>5, <1>9, SeesRecord
<1>11. PICK t : t = VersionSeen(v, k)
  OBVIOUS
<1>12. Found(v, k, r)
  BY <1>8 DEF Found
<1>13. CASE r.trx_id = v.creator
  <2>1. Sees(v, r.trx_id)
    BY <1>1, <1>4, <1>5, <1>9, <1>13 DEF Sees, SeesOwn, WellFormed
  <2>2. t = r
    BY <1>8, <1>10, <1>11, <2>1 DEF VersionSeen
  <2>3. r # NoRec
    BY <1>6, <1>13, NoRecFacts DEF TrxIds
  <2>4. RowOf(r) = Expected(c, k)
    BY <1>6, <1>8, <1>13, <2>3 DEF Expected, RowOf
  <2> QED
    BY <1>11, <1>12, <2>1, <2>2, <2>4
<1>14. CASE r.trx_id # v.creator
  <2>1. Expected(c, k) = f[k]
    BY <1>6, <1>7, <1>8, <1>14 DEF Expected
  <2>2. OnTheWay(v, k, f[k], r)
    BY <1>1, <1>7, <1>8, <1>12, <1>14 DEF OnTheWay, RowsShow, VersionsOK
  <2>3. CASE r.trx_id = 0 \/ Sees(v, r.trx_id)
    <3>1. t = r
      BY <1>8, <1>10, <1>11, <2>3 DEF VersionSeen
    <3>2. RowOf(r) = f[k]
      BY <1>5, <2>2, <2>3, SeenIsRight
    <3> QED
      BY <1>11, <1>12, <2>1, <2>3, <3>1, <3>2
  <2>4. CASE ~(r.trx_id = 0 \/ Sees(v, r.trx_id))
    <3>1. r # NoRec
      BY <2>4, NoRecFacts
    <3>2. t = build_for_consistent_read(v, r)
      BY <1>8, <1>10, <1>11, <2>4, <3>1 DEF VersionSeen
    <3>3. \E s : /\ s = build_for_consistent_read(v, r)
                 /\ RowOf(s) = f[k] /\ Found(v, k, s)
                 /\ s.trx_id = 0 \/ Sees(v, s.trx_id)
      BY <1>1, <1>4, <1>5, <1>6, <1>7, <2>2, LoopFindsRow
    <3> QED
      BY <1>11, <2>1, <3>2, <3>3
  <2> QED
    BY <2>3, <2>4
<1> QED
  BY <1>13, <1>14

\* FACT B of read0read.cc: a consistent read of the clustered index sees the
\* rows committed when its view was opened and the changes of its own
\* transaction, whatever others write, roll back or purge; it never meets
\* a missing undo log (row_vers_build_for_consistent_read).
THEOREM MvccReads == Spec => []ReadsAreConsistent
<1>1. RInv /\ PurgePositionOK /\ MInv => ReadsAreConsistent
  <2> SUFFICES ASSUME RInv, MInv, NEW c \in Readers, NEW k \in Keys
               PROVE  ClustRead(ReaderView(c), k) = Expected(c, k)
    BY DEF ReadsAreConsistent
  <2>1. PICK v : v = ReaderView(c)
    OBVIOUS
  <2>2. PICK t : t = VersionSeen(v, k) /\ RowOf(t) = Expected(c, k)
    BY <2>1, SeenIsExpected
  <2> QED
    BY <2>1, <2>2 DEF ClustRead, RowOf
<1> QED
  BY <1>1, MvccInvariant, PTL
=============================================================================
