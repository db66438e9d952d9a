------------------------------ MODULE ReadView ------------------------------
(***************************************************************************)
(* Transaction ids, transaction numbers and read views: read0read.cc, the  *)
(* visibility test of read0read.h, the commit of trx0trx.cc and the part   *)
(* of trx0purge.cc that renews the purge view.                             *)
(*                                                                         *)
(* Every action is one critical section of the kernel mutex.  Ids and      *)
(* numbers come from one counter.  A transaction with an update undo log   *)
(* gets its number, and its log goes to the history list, in one critical  *)
(* section of the rollback segment's mutex, and it becomes committed in    *)
(* memory in a later critical section of the kernel mutex: in between it   *)
(* is still active, and a view that is opened then must not let purge      *)
(* touch its log.  There is one rollback segment, as in the code, which    *)
(* never creates a second one.                                             *)
(*                                                                         *)
(* m_view is the purge view.  In the code it is the last member of         *)
(* m_view_list at all times except while purge renews it, when it has been *)
(* removed; nothing but the renewal looks at the last member, so here      *)
(* m_view_list holds the views of the transactions only, newest first.     *)
(***************************************************************************)
EXTENDS Integers, Sequences, FiniteSets

CONSTANTS
    Clients,        \* sessions, each with at most one transaction
    MaxTrxId,       \* bound: ids and numbers stay below it
    IntMax          \* the largest int of the build (2^31 - 1)

ASSUME IdAssumption ==
    /\ MaxTrxId \in Nat \ {0}
    /\ IntMax \in Nat
    /\ MaxTrxId <= IntMax

VARIABLES
    m_max_trx_id,   \* the next id or number to hand out
    trx,            \* each client's transaction: state, id and number
    m_view_list,    \* the open views of transactions, newest first
    m_view,         \* the view of purge
    history         \* the logs of the history list: id and number

rvars == <<m_max_trx_id, trx, m_view_list, m_view, history>>

\* LSN_MAX as a transaction number: larger than any number handed out.
LsnMax == MaxTrxId + 1

TrxIds == 1 .. MaxTrxId

View == [creator: 0 .. MaxTrxId, low_limit_no: TrxIds, low_limit_id: TrxIds,
         up_limit_id: TrxIds, trx_ids: SUBSET TrxIds]

NotStarted == [state |-> "not_started", id |-> 0, no |-> LsnMax]

IsActive(c) == trx[c].state = "active"

ActiveIds == {trx[c].id : c \in {d \in Clients : IsActive(d)}}

-----------------------------------------------------------------------------
(* The visibility test.                                                    *)

Smallest(S, n) == n \in S /\ \A i \in S : n <= i

\* An id difference stored in an int: the value modulo 2^32, for
\* differences that wrap at most once.
ToInt(x) == IF x > IntMax THEN x - 2 * (IntMax + 1)
            ELSE IF x < -IntMax - 1 THEN x + 2 * (IntMax + 1)
            ELSE x

\* The ids on which the loop of read_view_sees_trx_id stops.
Stops(view, id) == {n \in view.trx_ids : ToInt(id - n) <= 0}

\* The array is walked from the smallest id up; the first id that is not
\* smaller than the given one, as an int comparison sees it, decides.
read_view_sees_trx_id(view, id) ==
    \/ id < view.up_limit_id
    \/ /\ id < view.low_limit_id
       /\ \A n \in Stops(view, id) :
              Smallest(Stops(view, id), n) => ToInt(id - n) < 0

-----------------------------------------------------------------------------
(* Opening and copying views.                                              *)

\* The smallest of S, or the default if S is empty.
MinOr(S, default) == IF S = {} THEN default ELSE CHOOSE n \in S : Smallest(S, n)

\* The others that are active: not visible, except the creator itself.
Unseen(cr_trx_id) == ActiveIds \ {cr_trx_id}

NumbersOf(ids) == {trx[c].no : c \in {d \in Clients : IsActive(d) /\ trx[d].id \in ids}}

\* (Mutant: the numbers of transactions in the middle of their commit are
\* not looked at.)
read_view_open_now_numbers(cr_trx_id) ==
    [creator |-> cr_trx_id, low_limit_no |-> m_max_trx_id, low_limit_id |-> m_max_trx_id,
     up_limit_id |-> MinOr(Unseen(cr_trx_id), m_max_trx_id), trx_ids |-> Unseen(cr_trx_id)]

read_view_open_now(cr_trx_id) ==
    [creator |-> cr_trx_id,
     low_limit_no |-> MinOr({m_max_trx_id} \cup NumbersOf(Unseen(cr_trx_id)), m_max_trx_id),
     low_limit_id |-> m_max_trx_id,
     up_limit_id |-> MinOr(Unseen(cr_trx_id), m_max_trx_id),
     trx_ids |-> Unseen(cr_trx_id)]

\* (Mutant: the creator of the copied view is not made invisible.)
CopyOf_creator(old) == [old EXCEPT !.creator = 0]

\* A copy for purge: what the creator of the old view changed is not
\* visible in it.
CopyOf(old) ==
    LET ids == old.trx_ids \cup (IF old.creator > 0 THEN {old.creator} ELSE {})
    IN  [creator |-> 0, low_limit_no |-> old.low_limit_no, low_limit_id |-> old.low_limit_id,
         up_limit_id |-> MinOr(ids, old.up_limit_id), trx_ids |-> ids]

read_view_oldest_copy_or_open_new ==
    IF m_view_list = << >> THEN read_view_open_now(0)
    ELSE CopyOf(m_view_list[Len(m_view_list)])

ViewsOf(id) == {i \in DOMAIN m_view_list : m_view_list[i].creator = id}

HasView(c) == ViewsOf(trx[c].id) # {}

\* The list without its member at j.
WithoutAt(list, j) == [i \in 1 .. Len(list) - 1 |-> IF i < j THEN list[i] ELSE list[i + 1]]

-----------------------------------------------------------------------------
RInit ==
    /\ m_max_trx_id = 1
    /\ trx = [c \in Clients |-> NotStarted]
    /\ m_view_list = << >>
    /\ m_view = [creator |-> 0, low_limit_no |-> 1, low_limit_id |-> 1,
                 up_limit_id |-> 1, trx_ids |-> {}]
    /\ history = << >>

start_low(c) ==
    /\ trx[c].state = "not_started"
    /\ m_max_trx_id < MaxTrxId
    /\ trx' = [trx EXCEPT ![c] = [state |-> "active", id |-> m_max_trx_id, no |-> LsnMax]]
    /\ m_max_trx_id' = m_max_trx_id + 1
    /\ UNCHANGED <<m_view_list, m_view, history>>

\* Called for a read of the transaction, so never in the middle of its
\* commit.
assign_read_view(c) ==
    /\ IsActive(c)
    /\ trx[c].no = LsnMax
    /\ ~HasView(c)
    /\ m_view_list' = <<read_view_open_now(trx[c].id)>> \o m_view_list
    /\ UNCHANGED <<m_max_trx_id, trx, m_view, history>>

\* The first part of the commit of a transaction with an update undo log:
\* the number is taken and the log becomes the first of the history list.
CommitNumber(c) ==
    /\ IsActive(c)
    /\ trx[c].no = LsnMax
    /\ m_max_trx_id < MaxTrxId
    /\ trx' = [trx EXCEPT ![c].no = m_max_trx_id]
    /\ m_max_trx_id' = m_max_trx_id + 1
    /\ history' = Append(history, [id |-> trx[c].id, no |-> m_max_trx_id])
    /\ UNCHANGED <<m_view_list, m_view>>

\* The second part: the transaction becomes committed in memory, gives up
\* its locks and closes its view.
CommitInMemory(c) ==
    /\ IsActive(c)
    /\ trx' = [trx EXCEPT ![c] = NotStarted]
    /\ \/ /\ ~HasView(c)
          /\ UNCHANGED m_view_list
       \/ \E j \in ViewsOf(trx[c].id) : m_view_list' = WithoutAt(m_view_list, j)
    /\ UNCHANGED <<m_max_trx_id, m_view, history>>

\* Purge_sys::run closes the purge view and takes a copy of the oldest one.
RenewPurgeView ==
    /\ m_view' = read_view_oldest_copy_or_open_new
    /\ UNCHANGED <<m_max_trx_id, trx, m_view_list, history>>

RNext ==
    \/ \E c \in Clients : \/ start_low(c)
                          \/ assign_read_view(c)
                          \/ CommitNumber(c)
                          \/ CommitInMemory(c)
    \/ RenewPurgeView

RSpec == RInit /\ [][RNext]_rvars

-----------------------------------------------------------------------------
(* Properties.                                                             *)

\* Every id and number is below the counter, views and the purge view are
\* views, and the history list is a sequence of numbered logs.
TypeOKR ==
    /\ m_max_trx_id \in TrxIds
    /\ trx \in [Clients -> [state: {"not_started", "active"}, id: 0 .. MaxTrxId, no: 1 .. LsnMax]]
    /\ m_view_list \in Seq(View)
    /\ m_view \in View
    /\ history \in Seq([id: TrxIds, no: TrxIds])

Views == {m_view_list[i] : i \in DOMAIN m_view_list}

\* What purge may take for committed, every open view sees: purge ends the
\* versions of a record where its own view sees them
\* (Purge_sys::update_undo_must_exist).
PurgeViewIsOldest ==
    \A v \in Views : \A id \in TrxIds :
        read_view_sees_trx_id(m_view, id) => read_view_sees_trx_id(v, id)

\* FACT C of read0read.cc, which is stated there with "TODO: proof this":
\* purge handles the logs whose number is below low_limit_no of its view
\* (Purge_sys::fetch_next_rec), and what these transactions did, a delete
\* marking say, every open view sees.
FactC ==
    \A i \in DOMAIN history :
        history[i].no < m_view.low_limit_no =>
            /\ read_view_sees_trx_id(m_view, history[i].id)
            /\ \A v \in Views : read_view_sees_trx_id(v, history[i].id)

-----------------------------------------------------------------------------
(* The inductive invariant behind PurgeViewIsOldest and FactC.             *)

\* What a well-formed view sees, as a set of ids.
Sees(v, id) == id < v.low_limit_id /\ id \notin v.trx_ids

\* The limits of a view are limits of its set of ids.
WellFormed(v) ==
    /\ v.up_limit_id <= v.low_limit_id /\ v.creator < v.low_limit_id
    /\ \A n \in v.trx_ids : v.up_limit_id <= n /\ n < v.low_limit_id

\* What is active is not visible, except to the transaction itself.
HidesActive(v) ==
    \A c \in Clients : IsActive(c) =>
        ~Sees(v, trx[c].id) \/ trx[c].id = v.creator

\* The logs below the limit for purge are of others, and visible.
LogsBelowSeen(v) ==
    \A i \in DOMAIN history : history[i].no < v.low_limit_no =>
        Sees(v, history[i].id) /\ history[i].id # v.creator

ViewOK(v) ==
    /\ WellFormed(v)
    /\ v.low_limit_id <= m_max_trx_id
    /\ v.low_limit_no <= m_max_trx_id
    /\ HidesActive(v)
    /\ LogsBelowSeen(v)

\* Active transactions have different ids below the counter.
IdsUnique ==
    /\ \A c \in Clients : IsActive(c) => 0 < trx[c].id /\ trx[c].id < m_max_trx_id
    /\ \A c, d \in Clients : IsActive(c) /\ IsActive(d) /\ trx[c].id = trx[d].id => c = d

\* A log in the history of a transaction that is still active has its number.
LogsNumbered ==
    \A i \in DOMAIN history :
        /\ history[i].id < m_max_trx_id
        /\ \A c \in Clients : IsActive(c) /\ trx[c].id = history[i].id => trx[c].no = history[i].no

\* An older view sees no more than a newer one, but for its creator's changes.
OlderSeesLess ==
    \A i, j \in DOMAIN m_view_list : i < j =>
        \A id \in TrxIds : Sees(m_view_list[j], id) /\ id # m_view_list[j].creator
                               => Sees(m_view_list[i], id)

\* The purge view sees no more than any open view.
PurgeSeesLess ==
    \A i \in DOMAIN m_view_list : \A id \in TrxIds : Sees(m_view, id) => Sees(m_view_list[i], id)

RInv ==
    /\ TypeOKR
    /\ IdsUnique
    /\ LogsNumbered
    /\ \A i \in DOMAIN m_view_list : ViewOK(m_view_list[i])
    /\ ViewOK(m_view) /\ m_view.creator = 0
    /\ OlderSeesLess
    /\ PurgeSeesLess
=============================================================================
