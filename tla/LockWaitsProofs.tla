-------------------------- MODULE LockWaitsProofs --------------------------
(***************************************************************************)
(* The rules of waiting in the lock manager, for any number of             *)
(* transactions, tables, pages and records: WaitInv is an inductive        *)
(* invariant next to LockInv.  It gives the wait states, no lost grant, no *)
(* wait cycle outside deadlock_occurs, no lock without an owner or a       *)
(* record, the multigranularity rule, and that the fast path of lock       *)
(* requests answers as the slow path would.                                *)
(*                                                                         *)
(* The second half is FACT B for exclusive gap locks: what each change of  *)
(* a queue does to the gap locks of one transaction, what each change of   *)
(* the records does to the gaps, and GapInv, inductive next to both.       *)
(***************************************************************************)
EXTENDS LockSysProofs

\* Two structs of the same request, whatever their wait flags and bits.
Alike(a, b) ==
  /\ a.trx = b.trx /\ a.type = b.type /\ a.on = b.on
  /\ a.mode = b.mode /\ a.gap = b.gap /\ a.ins = b.ins

\* The wait rule reads the request and the common bits only.
LEMMA WaitRuleAlike ==
  ASSUME NEW a, NEW b, NEW c, NEW d, has_to_wait_for(a, b), Alike(a, c), Alike(b, d),
         a.type = "TABLE" \/ (a.bits \cap b.bits) \subseteq (c.bits \cap d.bits)
  PROVE  has_to_wait_for(c, d)
<1>1. c.on = d.on /\ c.trx # d.trx /\ ~mode_compatible(c.mode, d.mode)
  BY DEF has_to_wait_for, Alike
<1>2. CASE a.type = "TABLE" BY <1>1, <1>2 DEF has_to_wait_for, Alike
<1>3. CASE a.type # "TABLE"
  <2>1. PICK h \in a.bits \cap b.bits : rec_blocks(b, a.trx, a, h) BY <1>3 DEF has_to_wait_for
  <2>2. h \in c.bits \cap d.bits BY <1>3, <2>1
  <2>3. rec_blocks(d, c.trx, c, h) BY <2>1 DEF rec_blocks, Alike
  <2> QED BY <1>1, <2>2, <2>3 DEF has_to_wait_for
<1> QED BY <1>2, <1>3

-----------------------------------------------------------------------------
(* Queues that lose bits and wait flags, grow, or lose a struct.           *)

\* Bits and wait flags go; a request that still waits keeps its bit.
Shrunk(ls, r) ==
  /\ ls \in Seq(Lock) /\ r \in Seq(Lock) /\ Len(r) = Len(ls)
  /\ \A i \in DOMAIN ls :
       /\ Alike(ls[i], r[i]) /\ r[i].bits \subseteq ls[i].bits
       /\ r[i].wait => ls[i].wait /\ r[i].bits = ls[i].bits

\* What does not need to be looked at again in a queue with fewer waiters.
Calmer(ls, r) ==
  /\ OneWaitIn(ls) => OneWaitIn(r)
  /\ \A S : OwnersIn(ls, S) => OwnersIn(r, S)
  /\ \A t, u : WaitsFor(r, t, u) => WaitsFor(ls, t, u)
  /\ \A t : IsWaiting(r, t) => IsWaiting(ls, t)

\* Losing bits and wait flags makes nobody wait, and keeps intention locks.
LEMMA ShrunkCalmer ==
  ASSUME NEW ls, NEW r, Shrunk(ls, r)
  PROVE  /\ Calmer(ls, r)
         /\ IntentionIn(ls) => IntentionIn(r)
         /\ \A n, t, p, mode : IntendsIn(ls, n, t, p, mode) => IntendsIn(r, n, t, p, mode)
<1>1. DOMAIN r = DOMAIN ls /\ DOMAIN ls = 1..Len(ls) /\ Len(ls) \in Nat BY SeqIsFcn DEF Shrunk
<1>2. OneWaitIn(ls) => OneWaitIn(r) BY <1>1 DEF OneWaitIn, Shrunk, Alike
<1>3. \A S : OwnersIn(ls, S) => OwnersIn(r, S) BY <1>1 DEF OwnersIn, Shrunk, Alike
<1>4. ASSUME NEW t, NEW u, WaitsFor(r, t, u) PROVE WaitsFor(ls, t, u)
  <2>0. PICK i \in DOMAIN r :
          r[i].trx = t /\ r[i].wait /\ \E j \in 1..(i-1) : r[j].trx = u /\ has_to_wait_for(r[i], r[j])
    BY <1>4 DEF WaitsFor
  <2>1. PICK j \in 1..(i-1) : r[i].trx = t /\ r[i].wait /\ r[j].trx = u /\ has_to_wait_for(r[i], r[j])
    BY <2>0
  <2>2. i \in DOMAIN ls /\ j \in DOMAIN ls BY <1>1, <2>1
  <2>3. /\ ls[i].trx = t /\ ls[i].wait /\ ls[j].trx = u /\ Alike(r[i], ls[i]) /\ Alike(r[j], ls[j])
        /\ r[i].bits \subseteq ls[i].bits /\ r[j].bits \subseteq ls[j].bits
    BY <2>1, <2>2 DEF Shrunk, Alike
  <2>4. has_to_wait_for(ls[i], ls[j]) BY <2>1, <2>3, WaitRuleAlike
  <2> QED BY <2>1, <2>2, <2>3, <2>4 DEF WaitsFor
<1>5. \A t : IsWaiting(r, t) => IsWaiting(ls, t) BY <1>1 DEF IsWaiting, Shrunk, Alike
<1>6. \A n, t, p, mode : IntendsIn(ls, n, t, p, mode) => IntendsIn(r, n, t, p, mode)
  BY <1>1 DEF IntendsIn, Shrunk, Alike
<1>7. IntentionIn(ls) => IntentionIn(r)
  <2> SUFFICES ASSUME IntentionIn(ls), NEW i \in DOMAIN r, r[i].type = "REC", TableOf[r[i].on] \in Tables
               PROVE  IntendsIn(r, i, r[i].trx, r[i].on, r[i].mode)
    BY DEF IntentionIn
  <2>1. /\ i \in DOMAIN ls /\ ls[i].type = "REC" /\ ls[i].on = r[i].on /\ ls[i].trx = r[i].trx
        /\ ls[i].mode = r[i].mode
    BY <1>1 DEF Shrunk, Alike
  <2>2. IntendsIn(ls, i, r[i].trx, r[i].on, r[i].mode) BY <2>1 DEF IntentionIn
  <2> QED BY <1>6, <2>2
<1> QED BY <1>2, <1>3, <1>4, <1>5, <1>6, <1>7 DEF Calmer

\* grant leaves nobody waiting for nothing: who still waits in `who` is blocked.
LEMMA GrantShrinks ==
  ASSUME NEW ls \in Seq(Lock), NEW who \in SUBSET DOMAIN ls
  PROVE  /\ Shrunk(ls, Grant(ls, who))
         /\ (\A i \in DOMAIN ls : ls[i].wait => i \in who \/ has_to_wait_in_queue(ls, i))
              => BlockedIn(Grant(ls, who))
         /\ \A t : IsWaiting(ls, t) => IsWaiting(Grant(ls, who), t) \/ t \in Granted(ls, who)
         /\ OneWaitIn(ls) => \A t \in Granted(ls, who) : ~IsWaiting(Grant(ls, who), t)
<1> DEFINE g == Grant(ls, who)
<1>1. /\ g \in Seq(Lock) /\ DOMAIN g = DOMAIN ls /\ Len(ls) \in Nat /\ DOMAIN ls = 1..Len(ls)
      /\ Len(g) = Len(ls) /\ \A j \in DOMAIN ls : ls[j] \in Lock
  BY GrantType, SeqIsFcn
<1>2. \A j \in DOMAIN ls :
        /\ Alike(ls[j], g[j]) /\ g[j].bits = ls[j].bits
        /\ g[j].wait <=> ls[j].wait /\ j \notin Grantable(ls, who)
  <2> SUFFICES ASSUME NEW j \in DOMAIN ls
               PROVE  /\ Alike(ls[j], g[j]) /\ g[j].bits = ls[j].bits
                      /\ g[j].wait <=> ls[j].wait /\ j \notin Grantable(ls, who)
    OBVIOUS
  <2>1. g[j] = IF j \in Grantable(ls, who) THEN [ls[j] EXCEPT !.wait = FALSE] ELSE ls[j] BY DEF Grant
  <2> HIDE DEF g
  <2> QED BY <1>1, <2>1 DEF Alike, Lock
<1> HIDE DEF g
<1>3. Shrunk(ls, g) BY <1>1, <1>2 DEF Shrunk
<1>4. ASSUME \A i \in DOMAIN ls : ls[i].wait => i \in who \/ has_to_wait_in_queue(ls, i)
      PROVE  BlockedIn(g)
  <2> SUFFICES ASSUME NEW i \in DOMAIN g, g[i].wait PROVE has_to_wait_in_queue(g, i) BY DEF BlockedIn
  <2>1. i \in DOMAIN ls /\ ls[i].wait /\ i \notin Grantable(ls, who) BY <1>1, <1>2
  <2>2. has_to_wait_in_queue(ls, i) BY <1>4, <2>1 DEF Grantable
  <2>3. PICK j \in 1..(i-1) : has_to_wait_for(ls[i], ls[j]) BY <2>2 DEF has_to_wait_in_queue
  <2>4. j \in DOMAIN ls BY <1>1, <2>1
  <2>5. has_to_wait_for(g[i], g[j]) BY <1>2, <2>1, <2>3, <2>4, WaitRuleAlike
  <2> QED BY <2>5 DEF has_to_wait_in_queue
<1>5. ASSUME NEW t, IsWaiting(ls, t) PROVE IsWaiting(g, t) \/ t \in Granted(ls, who)
  BY <1>1, <1>2, <1>5 DEF IsWaiting, Granted, Alike
<1>6. ASSUME OneWaitIn(ls), NEW t \in Granted(ls, who), IsWaiting(g, t) PROVE FALSE
  <2>1. PICK i \in Grantable(ls, who) : ls[i].trx = t BY <1>6 DEF Granted
  <2>2. ls[i].wait /\ i \in DOMAIN ls BY <2>1 DEF Grantable
  <2>3. PICK j \in DOMAIN g : g[j].trx = t /\ g[j].wait BY <1>6 DEF IsWaiting
  <2>4. j \in DOMAIN ls /\ ls[j].trx = t /\ ls[j].wait /\ j \notin Grantable(ls, who)
    BY <1>1, <1>2, <2>3 DEF Alike
  <2> QED BY <1>6, <2>1, <2>2, <2>4 DEF OneWaitIn
<1> QED BY <1>3, <1>4, <1>5, <1>6 DEF g

\* Bits are set only where nobody waits, and new structs that do not wait, of
\* owners in S and under an intention lock, are put behind all others.
Grown(ls, r, S) ==
  /\ ls \in Seq(Lock) /\ r \in Seq(Lock) /\ Len(ls) <= Len(r)
  /\ \A i \in DOMAIN ls :
       /\ Alike(ls[i], r[i]) /\ r[i].wait = ls[i].wait /\ ls[i].bits \subseteq r[i].bits
       /\ ls[i].wait => r[i].bits = ls[i].bits
       /\ \A h \in r[i].bits \ ls[i].bits : ~RecHasWaiter(ls, ls[i].on, h)
  /\ \A i \in DOMAIN r : i > Len(ls) =>
       /\ ~r[i].wait /\ r[i].trx \in S
       /\ (r[i].type = "REC" /\ TableOf[r[i].on] \in Tables) =>
            IntendsIn(ls, Len(ls), r[i].trx, r[i].on, r[i].mode)

\* What a request that is granted at once keeps, S being the possible owners.
Carries(ls, r, S) ==
  /\ r \in Seq(Lock) /\ WaitsIn(r) /\ OwnersIn(r, S)
  /\ \A t, u : WaitsFor(r, t, u) => WaitsFor(ls, t, u)
  /\ \A t : IsWaiting(r, t) <=> IsWaiting(ls, t)
  /\ \A t, p, mode : IntendsIn(ls, Len(ls), t, p, mode) => IntendsIn(r, Len(r), t, p, mode)

\* A queue that grows keeps the waits as they are.
LEMMA GrownCarries ==
  ASSUME NEW ls, NEW r, NEW S, Grown(ls, r, S), WaitsIn(ls), OwnersIn(ls, S)
  PROVE  Carries(ls, r, S)
<1>1. /\ DOMAIN r = 1..Len(r) /\ DOMAIN ls = 1..Len(ls) /\ Len(ls) \in Nat /\ Len(r) \in Nat
      /\ Len(ls) <= Len(r) /\ \A i \in DOMAIN ls : ls[i] \in Lock
  BY SeqIsFcn DEF Grown
<1>2. ASSUME NEW i \in DOMAIN r
      PROVE  i \in DOMAIN ls \/ (~r[i].wait /\ r[i].trx \in S)
  <2>1. i \in DOMAIN ls \/ i > Len(ls) BY <1>1
  <2>2. i > Len(ls) => ~r[i].wait /\ r[i].trx \in S BY DEF Grown
  <2> QED BY <2>1, <2>2
<1>3. OneWaitIn(r)
  <2> SUFFICES ASSUME NEW i \in DOMAIN r, r[i].wait
               PROVE  /\ r[i].type = "REC" => \E h \in HeapNos : r[i].bits = {h}
                      /\ \A j \in DOMAIN r : (r[j].wait /\ r[j].trx = r[i].trx) => i = j
    BY DEF OneWaitIn
  <2>1. i \in DOMAIN ls /\ ls[i].wait /\ r[i].bits = ls[i].bits /\ r[i].type = ls[i].type /\ r[i].trx = ls[i].trx
    BY <1>2 DEF Grown, Alike
  <2>2. \A j \in DOMAIN r : r[j].wait => j \in DOMAIN ls /\ ls[j].wait /\ r[j].trx = ls[j].trx
    BY <1>2 DEF Grown, Alike
  <2> QED BY <2>1, <2>2 DEF WaitsIn, OneWaitIn
<1>4. OwnersIn(r, S) BY <1>2 DEF OwnersIn, Grown, Alike
<1>5. ASSUME NEW t, NEW p, NEW mode, NEW m, NEW n, m <= n, m \in Int, n \in Int, IntendsIn(ls, m, t, p, mode)
      PROVE  IntendsIn(r, n, t, p, mode)
  <2>1. PICK i \in DOMAIN ls : /\ i <= m /\ ls[i].type = "TABLE" /\ ls[i].trx = t /\ ls[i].on = TableOf[p]
                              /\ ~ls[i].wait /\ mode_stronger_or_eq(ls[i].mode, IntentionMode(mode))
    BY <1>5 DEF IntendsIn
  <2>2. i \in DOMAIN r /\ i <= n BY <1>1, <1>5, <2>1
  <2>3. r[i].type = "TABLE" /\ r[i].trx = t /\ r[i].on = TableOf[p] /\ ~r[i].wait /\ r[i].mode = ls[i].mode
    BY <2>1 DEF Grown, Alike
  <2> QED BY <2>1, <2>2, <2>3 DEF IntendsIn
<1>6. IntentionIn(r)
  <2> SUFFICES ASSUME NEW i \in DOMAIN r, r[i].type = "REC", TableOf[r[i].on] \in Tables
               PROVE  IntendsIn(r, i, r[i].trx, r[i].on, r[i].mode)
    BY DEF IntentionIn
  <2>1. CASE i \in DOMAIN ls
    <3>1. ls[i].type = "REC" /\ ls[i].on = r[i].on /\ ls[i].trx = r[i].trx /\ ls[i].mode = r[i].mode
      BY <2>1 DEF Grown, Alike
    <3>2. IntendsIn(ls, i, r[i].trx, r[i].on, r[i].mode) BY <2>1, <3>1 DEF WaitsIn, IntentionIn
    <3> QED BY <1>1, <1>5, <3>2
  <2>2. CASE i > Len(ls)
    <3>1. IntendsIn(ls, Len(ls), r[i].trx, r[i].on, r[i].mode) BY <2>2 DEF Grown
    <3> QED BY <1>1, <1>5, <2>2, <3>1
  <2> QED BY <1>1, <2>1, <2>2
<1>7. ASSUME NEW i \in DOMAIN r, r[i].wait, NEW j \in 1..(i-1)
      PROVE  /\ i \in DOMAIN ls /\ j \in DOMAIN ls /\ ls[i].wait /\ ls[i].trx = r[i].trx /\ ls[j].trx = r[j].trx
             /\ has_to_wait_for(r[i], r[j]) <=> has_to_wait_for(ls[i], ls[j])
  <2>1. /\ i \in DOMAIN ls /\ j \in DOMAIN ls /\ ls[i].wait /\ Alike(ls[i], r[i]) /\ Alike(ls[j], r[j])
        /\ Alike(r[i], ls[i]) /\ Alike(r[j], ls[j])
        /\ r[i].bits = ls[i].bits /\ ls[j].bits \subseteq r[j].bits
    BY <1>1, <1>2, <1>7 DEF Grown, Alike
  <2>2. has_to_wait_for(ls[i], ls[j]) => has_to_wait_for(r[i], r[j]) BY <2>1, WaitRuleAlike
  <2>3. ASSUME has_to_wait_for(r[i], r[j]) PROVE has_to_wait_for(ls[i], ls[j])
    <3>1. CASE r[i].type = "TABLE" BY <2>1, <2>3, <3>1, WaitRuleAlike
    <3>2. CASE r[i].type # "TABLE"
      <4>1. ls[i].type = "REC" /\ ls[i].on = ls[j].on
        <5>1. ls[i] \in Lock BY <1>1, <2>1
        <5> QED BY <2>1, <2>3, <3>2, <5>1 DEF Alike, Lock, has_to_wait_for
      <4>2. ASSUME NEW h \in r[i].bits \cap r[j].bits PROVE h \in ls[j].bits
        <5>1. RecHasWaiter(ls, ls[j].on, h) BY <2>1, <4>1, <4>2 DEF RecHasWaiter, OnRec
        <5> QED BY <2>1, <4>2, <5>1 DEF Grown
      <4> QED BY <2>1, <2>3, <4>2, WaitRuleAlike
    <3> QED BY <3>1, <3>2
  <2> QED BY <2>1, <2>2, <2>3 DEF Alike
<1>8. \A t, u : WaitsFor(r, t, u) => WaitsFor(ls, t, u) BY <1>7 DEF WaitsFor
<1>9. BlockedIn(r)
  <2> SUFFICES ASSUME NEW i \in DOMAIN r, r[i].wait PROVE has_to_wait_in_queue(r, i) BY DEF BlockedIn
  <2>1. i \in DOMAIN ls /\ ls[i].wait BY <1>2 DEF Grown
  <2>2. PICK j \in 1..(i-1) : has_to_wait_for(ls[i], ls[j])
    BY <2>1 DEF WaitsIn, BlockedIn, has_to_wait_in_queue
  <2> QED BY <1>7, <2>2 DEF has_to_wait_in_queue
<1>10. \A t : IsWaiting(r, t) <=> IsWaiting(ls, t)
  <2>1. ASSUME NEW t, IsWaiting(r, t) PROVE IsWaiting(ls, t)
    BY <1>2, <2>1 DEF IsWaiting, Grown, Alike
  <2>2. ASSUME NEW t, IsWaiting(ls, t) PROVE IsWaiting(r, t)
    <3>1. \A i \in DOMAIN ls : i \in DOMAIN r BY <1>1
    <3> QED BY <2>2, <3>1 DEF IsWaiting, Grown, Alike
  <2> QED BY <2>1, <2>2
<1>11. \A t, p, mode : IntendsIn(ls, Len(ls), t, p, mode) => IntendsIn(r, Len(r), t, p, mode)
  BY <1>1, <1>5
<1>12. r \in Seq(Lock) BY DEF Grown
<1> QED BY <1>3, <1>4, <1>6, <1>8, <1>9, <1>10, <1>11, <1>12 DEF Carries, WaitsIn

\* Nothing changes, or one change follows another.
LEMMA CarriesOn ==
  /\ \A ls, S : ls \in Seq(Lock) /\ WaitsIn(ls) /\ OwnersIn(ls, S) => Carries(ls, ls, S)
  /\ \A ls, r, q, S : Carries(ls, r, S) /\ Carries(r, q, S) => Carries(ls, q, S)
BY DEF Carries

-----------------------------------------------------------------------------
(* The operators that change the queues.                                   *)

\* A new struct that does not wait.
LEMMA AppendGrows ==
  ASSUME NEW ls \in Seq(Lock), NEW l \in Lock, NEW S, ~l.wait, l.trx \in S,
         (l.type = "REC" /\ TableOf[l.on] \in Tables) => IntendsIn(ls, Len(ls), l.trx, l.on, l.mode)
  PROVE  Grown(ls, Append(ls, l), S)
<1> DEFINE r == Append(ls, l)
<1>1. /\ r \in Seq(Lock) /\ DOMAIN r = 1..(Len(ls) + 1) /\ DOMAIN ls = 1..Len(ls) /\ Len(ls) \in Nat
      /\ \A i \in 1..Len(ls) : r[i] = ls[i]
      /\ r[Len(ls) + 1] = l
  BY AppendType
<1> HIDE DEF r
<1>2. Len(r) = Len(ls) + 1 BY <1>1 DEF r
<1>3. \A i \in DOMAIN ls : Alike(ls[i], r[i]) /\ r[i] = ls[i] BY <1>1 DEF Alike
<1>4. ASSUME NEW i \in DOMAIN r, i > Len(ls) PROVE r[i] = l
  <2>1. i = Len(ls) + 1 BY <1>1, <1>4
  <2> QED BY <1>1, <2>1
<1> QED BY <1>1, <1>2, <1>3, <1>4 DEF Grown, r

\* A bit that nobody waits for, set in a granted struct.
LEMMA SetBitGrows ==
  ASSUME NEW ls \in Seq(Lock), NEW i \in DOMAIN ls, NEW h \in HeapNos, NEW S, ~ls[i].wait,
         ~RecHasWaiter(ls, ls[i].on, h)
  PROVE  Grown(ls, SetBit(ls, i, h), S)
<1> DEFINE r == SetBit(ls, i, h)
<1>1. /\ r \in Seq(Lock) /\ DOMAIN r = DOMAIN ls
      /\ r[i] = [ls[i] EXCEPT !.bits = @ \cup {h}]
      /\ \A j \in DOMAIN ls : j # i => r[j] = ls[j]
  BY SetBitType
<1>2. /\ DOMAIN ls = 1..Len(ls) /\ Len(ls) \in Nat /\ DOMAIN r = 1..Len(r) /\ Len(r) \in Nat /\ ls[i] \in Lock
  BY <1>1, SeqIsFcn
<1> HIDE DEF r
<1>3. Len(r) = Len(ls) BY <1>1, <1>2
<1>4. /\ Alike(ls[i], r[i]) /\ r[i].wait = ls[i].wait /\ r[i].bits = ls[i].bits \cup {h}
  BY <1>1, <1>2 DEF Alike, Lock
<1>5. \A j \in DOMAIN ls : j # i => Alike(ls[j], r[j]) /\ r[j] = ls[j] BY <1>1 DEF Alike
<1>6. \A j \in DOMAIN r : ~(j > Len(ls)) BY <1>2, <1>3
<1>7. ASSUME NEW j \in DOMAIN ls
      PROVE  /\ Alike(ls[j], r[j]) /\ r[j].wait = ls[j].wait /\ ls[j].bits \subseteq r[j].bits
             /\ ls[j].wait => r[j].bits = ls[j].bits
             /\ \A m \in r[j].bits \ ls[j].bits : ~RecHasWaiter(ls, ls[j].on, m)
  BY <1>4, <1>5
<1> QED BY <1>1, <1>2, <1>3, <1>6, <1>7 DEF Grown, r

\* rec_add_to_queue.
LEMMA AddGrows ==
  ASSUME NEW ls \in Seq(Lock), NEW t \in Trx, NEW p \in Pages, NEW req \in Requests, NEW h \in HeapNos,
         NEW S, t \in S, TableOf[p] \in Tables => IntendsIn(ls, Len(ls), t, p, req.mode)
  PROVE  Grown(ls, rec_add_to_queue(ls, t, p, req, h), S)
<1>1. CASE rec_add_to_queue(ls, t, p, req, h) = Append(ls, NewRecLock(t, p, req, h, FALSE))
  <2> DEFINE l == NewRecLock(t, p, req, h, FALSE)
  <2>1. l \in Lock /\ l.trx = t /\ l.on = p /\ l.mode = req.mode /\ ~l.wait
    BY NewRecLockType DEF NewRecLock
  <2> HIDE DEF l
  <2>2. Grown(ls, Append(ls, l), S) BY <2>1, AppendGrows
  <2> QED BY <1>1, <2>2 DEF l
<1>2. ASSUME NEW i \in Similar(ls, t, p, req, h), ~RecHasWaiter(ls, p, h),
             rec_add_to_queue(ls, t, p, req, h) = SetBit(ls, i, h)
      PROVE  Grown(ls, rec_add_to_queue(ls, t, p, req, h), S)
  <2>1. i \in DOMAIN ls /\ ls[i].on = p /\ ~ls[i].wait BY DEF Similar
  <2> QED BY <1>2, <2>1, SetBitGrows
<1> QED BY <1>1, <1>2, AddToQueue

\* The inheritance loops.
LEMMA InheritGrows ==
  ASSUME NEW ls \in Seq(Lock), NEW r, NEW p \in Pages, NEW heir \in HeapNos, Inherited(ls, r, p, heir),
         NEW S, OwnersIn(ls, S), IntentionIn(ls)
  PROVE  Grown(ls, r, S)
<1>1. /\ r \in Seq(Lock) /\ Len(r) \in Nat /\ Len(ls) \in Nat /\ Len(ls) <= Len(r)
      /\ DOMAIN r = 1..Len(r) /\ DOMAIN ls = 1..Len(ls) /\ \A i \in DOMAIN ls : ls[i] \in Lock
  BY SeqIsFcn DEF Inherited
<1>2. ASSUME NEW i \in DOMAIN ls
      PROVE  /\ Alike(ls[i], r[i]) /\ r[i].wait = ls[i].wait /\ ls[i].bits \subseteq r[i].bits
             /\ ls[i].wait => r[i].bits = ls[i].bits
             /\ \A h \in r[i].bits \ ls[i].bits : ~RecHasWaiter(ls, ls[i].on, h)
  <2>1. CASE r[i] = ls[i] BY <2>1 DEF Alike
  <2>2. CASE /\ GapStruct(ls[i], p, heir) /\ r[i] = [ls[i] EXCEPT !.bits = @ \cup {heir}]
             /\ ~RecHasWaiter(ls, p, heir)
    <3>1. /\ Alike(ls[i], r[i]) /\ r[i].wait = ls[i].wait /\ r[i].bits = ls[i].bits \cup {heir}
      BY <1>1, <2>2 DEF Alike, Lock
    <3>2. ~ls[i].wait /\ ls[i].on = p BY <2>2 DEF GapStruct
    <3> QED BY <2>2, <3>1, <3>2
  <2> QED BY <1>1, <2>1, <2>2 DEF Inherited
<1>3. ASSUME NEW i \in DOMAIN r, i > Len(ls)
      PROVE  /\ ~r[i].wait /\ r[i].trx \in S
             /\ (r[i].type = "REC" /\ TableOf[r[i].on] \in Tables) =>
                  IntendsIn(ls, Len(ls), r[i].trx, r[i].on, r[i].mode)
  <2>1. /\ GapStruct(r[i], p, heir)
        /\ \E q \in DOMAIN ls : /\ ls[q].type = "REC" /\ ls[q].on = p
                                /\ ls[q].trx = r[i].trx /\ ls[q].mode = r[i].mode
    BY <1>3 DEF Inherited
  <2>2. PICK q \in DOMAIN ls : ls[q].type = "REC" /\ ls[q].on = p /\ ls[q].trx = r[i].trx /\ ls[q].mode = r[i].mode
    BY <2>1
  <2>3. ~r[i].wait /\ r[i].on = p BY <2>1 DEF GapStruct
  <2>4. r[i].trx \in S BY <2>2 DEF OwnersIn
  <2>5. TableOf[p] \in Tables => IntendsIn(ls, q, r[i].trx, p, r[i].mode) BY <2>2 DEF IntentionIn
  <2>6. q <= Len(ls) /\ q \in Int BY <1>1
  <2>7. TableOf[p] \in Tables => IntendsIn(ls, Len(ls), r[i].trx, p, r[i].mode)
    BY <1>1, <2>5, <2>6 DEF IntendsIn
  <2> QED BY <2>3, <2>4, <2>7
<1> QED BY <1>1, <1>2, <1>3 DEF Grown

\* rec_reset_and_release_wait ends the waits for the record and no other.
LEMMA ResetShrinks ==
  ASSUME NEW ls \in Seq(Lock), NEW p \in Pages, NEW k \in HeapNos, WaitsIn(ls)
  PROVE  LET r == rec_reset_and_release_wait(ls, p, k)
         IN  /\ Shrunk(ls, r) /\ BlockedIn(r)
             /\ \A t : IsWaiting(ls, t) => IsWaiting(r, t) \/ t \in Cancelled(ls, p, k)
             /\ \A t \in Cancelled(ls, p, k) : ~IsWaiting(r, t)
<1> DEFINE r == rec_reset_and_release_wait(ls, p, k)
<1>1. Len(ls) \in Nat /\ DOMAIN ls = 1..Len(ls) /\ \A i \in DOMAIN ls : ls[i] \in Lock BY SeqIsFcn
<1>2. DOMAIN r = DOMAIN ls BY DEF rec_reset_and_release_wait
<1>3. ASSUME NEW i \in DOMAIN ls
      PROVE  /\ r[i] \in Lock /\ Alike(ls[i], r[i])
             /\ OnRec(ls[i], p, k) => ~r[i].wait /\ r[i].bits = ls[i].bits \ {k}
             /\ ~OnRec(ls[i], p, k) => r[i].wait = ls[i].wait /\ r[i].bits = ls[i].bits
  <2>1. CASE OnRec(ls[i], p, k)
    <3>1. r[i] = [ls[i] EXCEPT !.bits = @ \ {k}, !.wait = FALSE]
      BY <2>1 DEF rec_reset_and_release_wait
    <3> HIDE DEF r
    <3> QED BY <1>1, <2>1, <3>1 DEF Lock, Alike
  <2>2. CASE ~OnRec(ls[i], p, k)
    <3>1. r[i] = ls[i] BY <2>2 DEF rec_reset_and_release_wait
    <3> HIDE DEF r
    <3> QED BY <1>1, <2>2, <3>1 DEF Alike
  <2> QED BY <2>1, <2>2
<1>4. r \in [1..Len(ls) -> Lock] BY <1>1, <1>3 DEF rec_reset_and_release_wait
<1>5. r \in Seq(Lock) /\ Len(r) = Len(ls) BY <1>1, <1>4, SeqOfFcn
<1> HIDE DEF r
<1>6. Shrunk(ls, r) BY <1>3, <1>5 DEF Shrunk
<1>7. BlockedIn(r)
  <2> SUFFICES ASSUME NEW i \in DOMAIN ls, r[i].wait PROVE has_to_wait_in_queue(r, i)
    BY <1>2 DEF BlockedIn
  <2>1. ~OnRec(ls[i], p, k) /\ ls[i].wait /\ r[i].bits = ls[i].bits BY <1>3
  <2>2. PICK j \in 1..(i-1) : has_to_wait_for(ls[i], ls[j])
    BY <2>1 DEF WaitsIn, BlockedIn, has_to_wait_in_queue
  <2>3. j \in DOMAIN ls BY <1>1
  <2>4. Alike(ls[i], r[i]) /\ Alike(ls[j], r[j]) /\ r[j].bits \in {ls[j].bits, ls[j].bits \ {k}}
        /\ (ls[j].on = p \/ r[j].bits = ls[j].bits)
    BY <1>3, <2>3 DEF OnRec
  <2>5. ls[i].type = "TABLE" \/ (ls[i].bits \cap ls[j].bits) \subseteq (r[i].bits \cap r[j].bits)
    <3>1. ls[i].type \in {"TABLE", "REC"} BY <1>1 DEF Lock
    <3>2. ls[i].on = ls[j].on BY <2>2 DEF has_to_wait_for
    <3> QED BY <2>1, <2>4, <3>1, <3>2 DEF OnRec
  <2>6. has_to_wait_for(r[i], r[j]) BY <2>2, <2>4, <2>5, WaitRuleAlike
  <2> QED BY <2>6 DEF has_to_wait_in_queue
<1>8. ASSUME NEW t, IsWaiting(ls, t) PROVE IsWaiting(r, t) \/ t \in Cancelled(ls, p, k)
  <2>1. PICK i \in DOMAIN ls : ls[i].trx = t /\ ls[i].wait BY <1>8 DEF IsWaiting
  <2>2. CASE OnRec(ls[i], p, k) BY <2>1, <2>2 DEF Cancelled
  <2>3. CASE ~OnRec(ls[i], p, k) BY <1>2, <1>3, <2>1, <2>3 DEF IsWaiting, Alike
  <2> QED BY <2>2, <2>3
<1>9. ASSUME NEW t \in Cancelled(ls, p, k), IsWaiting(r, t) PROVE FALSE
  <2>1. PICK i \in DOMAIN ls : ls[i].wait /\ OnRec(ls[i], p, k) /\ ls[i].trx = t BY <1>9 DEF Cancelled
  <2>2. PICK j \in DOMAIN ls : r[j].trx = t /\ r[j].wait BY <1>2, <1>9 DEF IsWaiting
  <2>3. ls[j].trx = t /\ ls[j].wait /\ ~OnRec(ls[j], p, k) BY <1>3, <2>2 DEF Alike
  <2> QED BY <2>1, <2>3 DEF WaitsIn, OneWaitIn
<1> QED BY <1>6, <1>7, <1>8, <1>9 DEF r

\* Where a struct of the queue is once the i-th is gone, and was before.
Shift(i, a) == IF a < i THEN a ELSE a - 1
Unshift(i, b) == IF b < i THEN b ELSE b + 1

\* The structs that are left are the others, in their order.
LEMMA RemoveIs ==
  ASSUME NEW ls \in Seq(Lock), NEW i \in DOMAIN ls
  PROVE  LET r == Remove(ls, i)
         IN  /\ r \in Seq(Lock)
             /\ \A a \in DOMAIN ls : a # i =>
                  /\ Shift(i, a) \in DOMAIN r /\ r[Shift(i, a)] = ls[a]
                  /\ Shift(i, a) <= a /\ (a > i => Shift(i, a) >= i)
             /\ \A b \in DOMAIN r :
                  /\ Unshift(i, b) \in DOMAIN ls /\ Unshift(i, b) # i /\ r[b] = ls[Unshift(i, b)]
                  /\ Shift(i, Unshift(i, b)) = b
             /\ \A a, c \in DOMAIN ls : (a < c /\ a # i /\ c # i) => Shift(i, a) \in 1..(Shift(i, c) - 1)
             /\ \A b \in DOMAIN r : \A d \in 1..(b-1) :
                  d \in DOMAIN r /\ Unshift(i, d) \in 1..(Unshift(i, b) - 1)
<1> DEFINE r == Remove(ls, i)
<1>1. /\ r \in Seq(Lock) /\ Len(r) = Len(ls) - 1 /\ i \in 1..Len(ls) /\ Len(ls) \in Nat
      /\ DOMAIN ls = 1..Len(ls) /\ DOMAIN r = 1..(Len(ls) - 1)
      /\ \A m \in DOMAIN r : r[m] = ls[IF m < i THEN m ELSE m + 1]
  BY RemoveType, SeqIsFcn
<1> HIDE DEF r
<1>2. ASSUME NEW a \in DOMAIN ls, a # i
      PROVE  /\ Shift(i, a) \in DOMAIN r /\ r[Shift(i, a)] = ls[a]
             /\ Shift(i, a) <= a /\ (a > i => Shift(i, a) >= i)
  BY <1>1, <1>2 DEF Shift
<1>3. ASSUME NEW b \in DOMAIN r
      PROVE  /\ Unshift(i, b) \in DOMAIN ls /\ Unshift(i, b) # i /\ r[b] = ls[Unshift(i, b)]
             /\ Shift(i, Unshift(i, b)) = b
  BY <1>1 DEF Shift, Unshift
<1>4. \A a, c \in DOMAIN ls : (a < c /\ a # i /\ c # i) => Shift(i, a) \in 1..(Shift(i, c) - 1)
  BY <1>1 DEF Shift
<1>5. \A b \in DOMAIN r : \A d \in 1..(b-1) :
        d \in DOMAIN r /\ Unshift(i, d) \in 1..(Unshift(i, b) - 1)
  BY <1>1 DEF Unshift
<1> QED BY <1>1, <1>2, <1>3, <1>4, <1>5 DEF r

\* The last Lock struct of a transaction, the one that release_off_kernel takes.
LastOf(ls, i) == \A j \in DOMAIN ls : ls[j].trx = ls[i].trx => j <= i

\* Taking out a waiting request, or the last struct of its owner.
LEMMA RemoveWaits ==
  ASSUME NEW ls \in Seq(Lock), NEW i \in DOMAIN ls, WaitsIn(ls), ls[i].wait \/ LastOf(ls, i)
  PROVE  LET r == Remove(ls, i)
         IN  /\ Calmer(ls, r) /\ IntentionIn(r)
             /\ \A b \in DOMAIN r : r[b].wait => b \in Revisited(ls, i) \/ has_to_wait_in_queue(r, b)
             /\ \A t : IsWaiting(ls, t) => IsWaiting(r, t) \/ (ls[i].wait /\ t = ls[i].trx)
             /\ ls[i].wait => ~IsWaiting(r, ls[i].trx)
             /\ \A t, p, mode : (IntendsIn(ls, Len(ls), t, p, mode) /\ (ls[i].wait \/ t # ls[i].trx)) =>
                  IntendsIn(r, Len(r), t, p, mode)
<1> DEFINE r == Remove(ls, i)
<1>1. /\ r \in Seq(Lock)
      /\ \A a \in DOMAIN ls : a # i =>
           /\ Shift(i, a) \in DOMAIN r /\ r[Shift(i, a)] = ls[a]
           /\ Shift(i, a) <= a /\ (a > i => Shift(i, a) >= i)
      /\ \A b \in DOMAIN r :
           /\ Unshift(i, b) \in DOMAIN ls /\ Unshift(i, b) # i /\ r[b] = ls[Unshift(i, b)]
           /\ Shift(i, Unshift(i, b)) = b
      /\ \A a, c \in DOMAIN ls : (a < c /\ a # i /\ c # i) => Shift(i, a) \in 1..(Shift(i, c) - 1)
      /\ \A b \in DOMAIN r : \A d \in 1..(b-1) :
           d \in DOMAIN r /\ Unshift(i, d) \in 1..(Unshift(i, b) - 1)
  BY RemoveIs
<1>2. /\ DOMAIN r = 1..Len(r) /\ DOMAIN ls = 1..Len(ls) /\ Len(ls) \in Nat /\ Len(r) \in Nat
  BY <1>1, SeqIsFcn
<1>z. Revisited(ls, i) = {j \in DOMAIN r : r[j].on = ls[i].on /\ (ls[i].type = "TABLE" => j >= i)}
  BY DEF Revisited
<1> HIDE DEF r
<1>3. OneWaitIn(r)
  <2> SUFFICES ASSUME NEW b \in DOMAIN r, r[b].wait
               PROVE  /\ r[b].type = "REC" => \E h \in HeapNos : r[b].bits = {h}
                      /\ \A d \in DOMAIN r : (r[d].wait /\ r[d].trx = r[b].trx) => b = d
    BY DEF OneWaitIn
  <2>1. Unshift(i, b) \in DOMAIN ls /\ r[b] = ls[Unshift(i, b)] /\ Shift(i, Unshift(i, b)) = b BY <1>1
  <2>2. \A d \in DOMAIN r : Unshift(i, d) \in DOMAIN ls /\ r[d] = ls[Unshift(i, d)] /\ Shift(i, Unshift(i, d)) = d
    BY <1>1
  <2>3. \A d \in DOMAIN r : (r[d].wait /\ r[d].trx = r[b].trx) => Unshift(i, b) = Unshift(i, d)
    BY <2>1, <2>2 DEF WaitsIn, OneWaitIn
  <2>4. r[b].type = "REC" => \E h \in HeapNos : r[b].bits = {h} BY <2>1 DEF WaitsIn, OneWaitIn
  <2>5. ASSUME NEW d \in DOMAIN r, r[d].wait, r[d].trx = r[b].trx PROVE b = d
    <3>1. Unshift(i, b) = Unshift(i, d) BY <2>3, <2>5
    <3> QED BY <2>1, <2>2, <3>1, Zenon
  <2> QED BY <2>4, <2>5
<1>4. \A S : OwnersIn(ls, S) => OwnersIn(r, S) BY <1>1 DEF OwnersIn
<1>5. ASSUME NEW t, NEW u, WaitsFor(r, t, u) PROVE WaitsFor(ls, t, u)
  <2>3. PICK b \in DOMAIN r :
          r[b].trx = t /\ r[b].wait /\ \E d \in 1..(b-1) : r[d].trx = u /\ has_to_wait_for(r[b], r[d])
    BY <1>5 DEF WaitsFor
  <2>4. PICK d \in 1..(b-1) : r[d].trx = u /\ has_to_wait_for(r[b], r[d]) BY <2>3
  <2>1. d \in DOMAIN r /\ Unshift(i, d) \in 1..(Unshift(i, b) - 1) BY <1>1
  <2>2. /\ Unshift(i, b) \in DOMAIN ls /\ r[b] = ls[Unshift(i, b)] /\ r[d] = ls[Unshift(i, d)]
    BY <1>1, <2>1
  <2> QED BY <2>1, <2>2, <2>3, <2>4 DEF WaitsFor
<1>6. \A t : IsWaiting(r, t) => IsWaiting(ls, t) BY <1>1 DEF IsWaiting
<1>7. Calmer(ls, r) BY <1>3, <1>4, <1>5, <1>6 DEF Calmer
<1>8. ASSUME NEW a \in DOMAIN ls, a # i, ls[a].type = "TABLE", ~ls[a].wait, NEW c \in DOMAIN ls, c # i, a <= c
      PROVE  Shift(i, a) \in DOMAIN r /\ r[Shift(i, a)] = ls[a] /\ Shift(i, a) <= Shift(i, c)
  <2>1. CASE a = c BY <1>1, <1>2, <1>8, <2>1
  <2>2. CASE a < c BY <1>1, <1>2, <1>8, <2>2 DEF Shift
  <2> QED BY <1>2, <1>8, <2>1, <2>2
<1>9. IntentionIn(r)
  <2> SUFFICES ASSUME NEW b \in DOMAIN r, r[b].type = "REC", TableOf[r[b].on] \in Tables
               PROVE  IntendsIn(r, b, r[b].trx, r[b].on, r[b].mode)
    BY DEF IntentionIn
  <2> DEFINE c == Unshift(i, b)
  <2>1. c \in DOMAIN ls /\ c # i /\ r[b] = ls[c] /\ Shift(i, c) = b BY <1>1
  <2> HIDE DEF c
  <2>2. IntendsIn(ls, c, r[b].trx, r[b].on, r[b].mode) BY <2>1 DEF WaitsIn, IntentionIn
  <2>3. PICK a \in DOMAIN ls :
          /\ a <= c
          /\ ls[a].type = "TABLE" /\ ls[a].trx = r[b].trx /\ ls[a].on = TableOf[r[b].on] /\ ~ls[a].wait
          /\ mode_stronger_or_eq(ls[a].mode, IntentionMode(r[b].mode))
    BY <2>2 DEF IntendsIn
  <2>4. a # i
    <3>1. ls[i].wait => a # i BY <2>3
    <3>2. ASSUME a = i, LastOf(ls, i) PROVE FALSE
      <4>1. c <= i BY <2>1, <2>3, <3>2 DEF LastOf
      <4>2. c = a BY <1>2, <2>1, <2>3, <3>2, <4>1
      <4> QED BY <2>1, <3>2, <4>2
    <3> QED BY <3>1, <3>2
  <2>5. Shift(i, a) \in DOMAIN r /\ r[Shift(i, a)] = ls[a] /\ Shift(i, a) <= b
    BY <1>8, <2>1, <2>3, <2>4
  <2> QED BY <2>3, <2>5 DEF IntendsIn
<1>10. ASSUME NEW b \in DOMAIN r, r[b].wait, b \notin Revisited(ls, i)
       PROVE  has_to_wait_in_queue(r, b)
  <2> DEFINE c == Unshift(i, b)
  <2>1. c \in DOMAIN ls /\ c # i /\ r[b] = ls[c] /\ Shift(i, c) = b BY <1>1
  <2> HIDE DEF c
  <2>2. PICK a \in 1..(c-1) : has_to_wait_for(ls[c], ls[a])
    BY <1>10, <2>1 DEF WaitsIn, BlockedIn, has_to_wait_in_queue
  <2>3. a \in DOMAIN ls /\ a < c BY <1>2, <2>1
  <2>4. a # i
    <3>1. SUFFICES ASSUME a = i PROVE FALSE OBVIOUS
    <3>2. r[b].on = ls[i].on BY <2>1, <2>2, <3>1 DEF has_to_wait_for
    <3>3. b >= i BY <1>1, <1>2, <2>1, <2>3, <3>1
    <3> QED BY <1>10, <1>z, <3>2, <3>3
  <2>5. Shift(i, a) \in 1..(b - 1) /\ r[Shift(i, a)] = ls[a] BY <1>1, <2>1, <2>3, <2>4
  <2> QED BY <2>1, <2>2, <2>5 DEF has_to_wait_in_queue
<1>11. ASSUME NEW t, IsWaiting(ls, t) PROVE IsWaiting(r, t) \/ (ls[i].wait /\ t = ls[i].trx)
  <2>1. PICK a \in DOMAIN ls : ls[a].trx = t /\ ls[a].wait BY <1>11 DEF IsWaiting
  <2> QED BY <1>1, <2>1 DEF IsWaiting
<1>12. ASSUME ls[i].wait, IsWaiting(r, ls[i].trx) PROVE FALSE
  <2>1. PICK b \in DOMAIN r : r[b].trx = ls[i].trx /\ r[b].wait BY <1>12 DEF IsWaiting
  <2>2. Unshift(i, b) \in DOMAIN ls /\ Unshift(i, b) # i /\ r[b] = ls[Unshift(i, b)] BY <1>1
  <2> QED BY <1>12, <2>1, <2>2 DEF WaitsIn, OneWaitIn
<1>13. ASSUME NEW t, NEW p, NEW mode, IntendsIn(ls, Len(ls), t, p, mode), ls[i].wait \/ t # ls[i].trx
       PROVE  IntendsIn(r, Len(r), t, p, mode)
  <2>1. PICK a \in DOMAIN ls :
          /\ ls[a].type = "TABLE" /\ ls[a].trx = t /\ ls[a].on = TableOf[p] /\ ~ls[a].wait
          /\ mode_stronger_or_eq(ls[a].mode, IntentionMode(mode))
    BY <1>13 DEF IntendsIn
  <2>2. a # i BY <1>13, <2>1
  <2>3. Shift(i, a) \in DOMAIN r /\ r[Shift(i, a)] = ls[a] BY <1>1, <2>2
  <2>4. Shift(i, a) <= Len(r) BY <1>2, <2>3
  <2> QED BY <2>1, <2>3, <2>4 DEF IntendsIn
<1> QED BY <1>7, <1>9, <1>10, <1>11, <1>12, <1>13 DEF r

\* A struct is dequeued and the waits it blocked are looked at again.
LEMMA DequeueWaits ==
  ASSUME NEW ls \in Seq(Lock), NEW i \in DOMAIN ls, WaitsIn(ls), ls[i].wait \/ LastOf(ls, i)
  PROVE  LET r == Grant(Remove(ls, i), Revisited(ls, i))
             done == Granted(Remove(ls, i), Revisited(ls, i))
         IN  /\ r \in Seq(Lock) /\ WaitsIn(r) /\ Calmer(ls, r)
             /\ \A t : IsWaiting(ls, t) => IsWaiting(r, t) \/ t \in done \/ (ls[i].wait /\ t = ls[i].trx)
             /\ \A t \in done : ~IsWaiting(r, t)
             /\ ls[i].wait => ~IsWaiting(r, ls[i].trx)
             /\ \A t, p, mode : (IntendsIn(ls, Len(ls), t, p, mode) /\ (ls[i].wait \/ t # ls[i].trx)) =>
                  IntendsIn(r, Len(r), t, p, mode)
<1> DEFINE q == Remove(ls, i)
           who == Revisited(ls, i)
           r == Grant(q, who)
           done == Granted(q, who)
<1>1. /\ Calmer(ls, q) /\ IntentionIn(q)
      /\ \A b \in DOMAIN q : q[b].wait => b \in who \/ has_to_wait_in_queue(q, b)
      /\ \A t : IsWaiting(ls, t) => IsWaiting(q, t) \/ (ls[i].wait /\ t = ls[i].trx)
      /\ ls[i].wait => ~IsWaiting(q, ls[i].trx)
      /\ \A t, p, mode : (IntendsIn(ls, Len(ls), t, p, mode) /\ (ls[i].wait \/ t # ls[i].trx)) =>
           IntendsIn(q, Len(q), t, p, mode)
  BY RemoveWaits
<1>2. q \in Seq(Lock) /\ who \in SUBSET DOMAIN q BY RemoveType DEF Revisited
<1> HIDE DEF q, who
<1>3. OneWaitIn(q) BY <1>1 DEF Calmer, WaitsIn
<1>4. /\ Shrunk(q, r) /\ BlockedIn(r)
      /\ \A t : IsWaiting(q, t) => IsWaiting(r, t) \/ t \in done
      /\ \A t \in done : ~IsWaiting(r, t)
  BY <1>1, <1>2, <1>3, GrantShrinks
<1> HIDE DEF r, done
<1>5. /\ Calmer(q, r) /\ IntentionIn(r) /\ Len(r) = Len(q)
      /\ \A n, t, p, mode : IntendsIn(q, n, t, p, mode) => IntendsIn(r, n, t, p, mode)
  BY <1>1, <1>4, ShrunkCalmer DEF Shrunk
<1>6. Calmer(ls, r) BY <1>1, <1>5 DEF Calmer
<1>7. WaitsIn(r) BY <1>3, <1>4, <1>5 DEF WaitsIn, Calmer
<1>8. r \in Seq(Lock) BY <1>4 DEF Shrunk
<1>9. ls[i].wait => ~IsWaiting(r, ls[i].trx) BY <1>1, <1>5 DEF Calmer
<1>10. \A t, p, mode : (IntendsIn(ls, Len(ls), t, p, mode) /\ (ls[i].wait \/ t # ls[i].trx)) =>
         IntendsIn(r, Len(r), t, p, mode)
  BY <1>1, <1>5
<1> QED BY <1>1, <1>4, <1>6, <1>7, <1>8, <1>9, <1>10 DEF q, who, r, done

-----------------------------------------------------------------------------
(* Steps.                                                                  *)

CheckOps == {"lock", "insert", "modify"}

\* WaitInv of the next state, part by part.
LEMMA WaitInvNext ==
  ASSUME OwnersIn(locks', Begun'), WaitsIn(locks'),
         \A p \in Pages, k \in Keys : (rec_trx'[p][k] \in Trx /\ TableOf[p] \in Tables) =>
           IntendsIn(locks', Len(locks'), rec_trx'[p][k], p, "X"),
         (kernel'.op \in {"insert", "modify"} /\ TableOf[kernel'.page] \in Tables) =>
           IntendsIn(locks', Len(locks'), kernel'.trx, kernel'.page, "X"),
         \A t \in Trx :
           LET checking == kernel'.op \in CheckOps /\ kernel'.trx = t
           IN  /\ que'[t] = "LOCK_WAIT" => IsWaiting(locks', t)
               /\ IsWaiting(locks', t) => que'[t] = "LOCK_WAIT" \/ checking
               /\ checking => conc'[t] = "ACTIVE" /\ que'[t] = "RUNNING"
               /\ conc'[t] # "ACTIVE" => que'[t] = "RUNNING"
               /\ (checking /\ IsWaiting(locks', t)) =>
                    locks'[Len(locks')].trx = t /\ locks'[Len(locks')].wait,
         NoCycleIn(locks', Sleeping')
  PROVE  WaitInv'
<1>1. OwnersIn(locks, Begun)' BY DEF OwnersIn, Begun
<1>2. WaitsIn(locks)'
  BY DEF WaitsIn, OneWaitIn, BlockedIn, has_to_wait_in_queue, IntentionIn, IntendsIn
<1>3. WriterIntends' BY DEF WriterIntends, IntendsIn
<1>4. WaitStates' BY DEF WaitStates, Checking, CheckOps, IsWaiting
<1>5. NewestRequest' BY DEF NewestRequest, Checking, CheckOps, IsWaiting
<1>6. NoCycleIn(locks, Sleeping)' BY DEF NoCycleIn, Sleeping, WaitsFor
<1> QED BY <1>1, <1>2, <1>3, <1>4, <1>5, <1>6 DEF WaitInv

\* Fewer waits and fewer sleepers make no cycle.
LEMMA NoCycleKept ==
  ASSUME NEW ls, NEW r, NEW S, NEW T, NoCycleIn(ls, S), T \subseteq S,
         \A t \in T : \A u : WaitsFor(r, t, u) => WaitsFor(ls, t, u)
  PROVE  NoCycleIn(r, T)
<1> SUFFICES ASSUME NEW C \in SUBSET T, C # {}, \A t \in C : \E u \in C : WaitsFor(r, t, u)
             PROVE  FALSE
  BY DEF NoCycleIn
<1>1. C \in SUBSET S /\ \A t \in C : \E u \in C : WaitsFor(ls, t, u) OBVIOUS
<1> QED BY <1>1 DEF NoCycleIn

\* A step that ends outside deadlock_occurs, and after which the transactions of D
\* wait no more; the others that wait are asleep.
LEMMA EndStep ==
  ASSUME LockInv, WaitInv, kernel'.op \notin CheckOps, NEW D,
         \A t \in Trx : (IsWaiting(locks, t) /\ t \notin D) => que[t] = "LOCK_WAIT",
         WaitsIn(locks'), OwnersIn(locks', Begun'),
         \A t, u : WaitsFor(locks', t, u) => WaitsFor(locks, t, u),
         \A t \in Trx : IsWaiting(locks', t) <=> IsWaiting(locks, t) /\ t \notin D,
         \A t \in Trx : que'[t] = "LOCK_WAIT" <=> que[t] = "LOCK_WAIT" /\ t \notin D,
         \A t \in Trx : conc'[t] # "ACTIVE" => que'[t] = "RUNNING",
         \A p \in Pages, k \in Keys : (rec_trx'[p][k] \in Trx /\ TableOf[p] \in Tables) =>
           IntendsIn(locks', Len(locks'), rec_trx'[p][k], p, "X")
  PROVE  WaitInv'
<1>1. \A t \in Trx : que[t] = "LOCK_WAIT" => IsWaiting(locks, t)
  BY DEF WaitInv, WaitStates
<1>2. \A t \in Trx : IsWaiting(locks', t) <=> que'[t] = "LOCK_WAIT" BY <1>1
<1>3. Sleeping' \subseteq Sleeping BY DEF Sleeping
<1>4. NoCycleIn(locks', Sleeping')
  <2>1. NoCycleIn(locks, Sleeping) BY DEF WaitInv
  <2> DEFINE S == Sleeping'
  <2>2. S \subseteq Sleeping BY <1>3
  <2> HIDE DEF S
  <2>3. NoCycleIn(locks', S) BY <2>1, <2>2, NoCycleKept
  <2> QED BY <2>3 DEF S
<1>5. \A t \in Trx : ~(kernel'.op \in CheckOps /\ kernel'.trx = t) OBVIOUS
<1>6. kernel'.op \notin {"insert", "modify"} BY DEF CheckOps
<1> QED BY <1>2, <1>4, <1>5, <1>6, WaitInvNext

\* A step outside deadlock_occurs, after which the transactions of D wait no more.
LEMMA IdleStep ==
  ASSUME LockInv, WaitInv, kernel.op \notin CheckOps, kernel'.op \notin CheckOps, NEW D,
         WaitsIn(locks'), OwnersIn(locks', Begun'),
         \A t, u : WaitsFor(locks', t, u) => WaitsFor(locks, t, u),
         \A t \in Trx : IsWaiting(locks', t) <=> IsWaiting(locks, t) /\ t \notin D,
         \A t \in Trx : que'[t] = "LOCK_WAIT" <=> que[t] = "LOCK_WAIT" /\ t \notin D,
         \A t \in Trx : conc'[t] # "ACTIVE" => que'[t] = "RUNNING",
         \A p \in Pages, k \in Keys : (rec_trx'[p][k] \in Trx /\ TableOf[p] \in Tables) =>
           IntendsIn(locks', Len(locks'), rec_trx'[p][k], p, "X")
  PROVE  WaitInv'
<1>1. \A t \in Trx : (IsWaiting(locks, t) /\ t \notin D) => que[t] = "LOCK_WAIT"
  BY DEF WaitInv, WaitStates, Checking, CheckOps
<1> QED BY <1>1, EndStep

\* The steps that leave the queues alone.
LEMMA QuietWaits ==
  ASSUME LockInv, WaitInv, kernel.op \notin CheckOps, kernel'.op \notin CheckOps, locks' = locks,
         Begun \subseteq Begun' \/ OwnersIn(locks, Begun'),
         \A t \in Trx : que'[t] = "LOCK_WAIT" <=> que[t] = "LOCK_WAIT",
         \A t \in Trx : conc'[t] # "ACTIVE" => que'[t] = "RUNNING",
         \A p \in Pages, k \in Keys : rec_trx'[p][k] \in Trx => rec_trx'[p][k] = rec_trx[p][k]
  PROVE  WaitInv'
<1>1. OwnersIn(locks', Begun') BY DEF WaitInv, OwnersIn
<1>2. WaitsIn(locks') BY DEF WaitInv
<1>3. ASSUME NEW p \in Pages, NEW k \in Keys, rec_trx'[p][k] \in Trx, TableOf[p] \in Tables
      PROVE  IntendsIn(locks', Len(locks'), rec_trx'[p][k], p, "X")
  BY <1>3 DEF WaitInv, WriterIntends
<1> DEFINE D == {}
<1>4. /\ \A t \in Trx : IsWaiting(locks', t) <=> IsWaiting(locks, t) /\ t \notin D
      /\ \A t \in Trx : que'[t] = "LOCK_WAIT" <=> que[t] = "LOCK_WAIT" /\ t \notin D
  OBVIOUS
<1>5. \A t, u : WaitsFor(locks', t, u) => WaitsFor(locks, t, u) OBVIOUS
<1> HIDE DEF D
<1> QED BY <1>1, <1>2, <1>3, <1>4, <1>5, IdleStep

\* start_low, RollbackStart, commit_off_kernel, ReleaseReenter and ReleaseEnd.
LEMMA QuietWaitActions ==
  ASSUME LockInv, LockInv', WaitInv, NEW t \in Trx,
         \/ start_low(t) \/ RollbackStart(t) \/ commit_off_kernel(t)
         \/ ReleaseReenter(t) \/ ReleaseEnd(t)
  PROVE  WaitInv'
<1>0. /\ conc \in [Trx -> {"NOT_STARTED", "ACTIVE", "COMMITTED_IN_MEMORY"}]
      /\ que \in [Trx -> {"RUNNING", "LOCK_WAIT", "ROLLING_BACK"}]
      /\ rec_trx \in [Pages -> [Keys -> Trx \cup {NoTrx}]]
  BY DEF LockInv, TypeOK
<1>1. \A u \in Trx : conc[u] # "ACTIVE" => que[u] = "RUNNING" BY DEF WaitInv, WaitStates
<1>n. NoCall.op \notin CheckOps /\ \A u : Call("release", u, NoTable, 0, "absent", 0).op \notin CheckOps
  BY DEF NoCall, Call, CheckOps
<1>2. CASE start_low(t)
  <2>1. /\ kernel.op \notin CheckOps /\ kernel'.op \notin CheckOps /\ locks' = locks /\ que' = que
        /\ rec_trx' = rec_trx /\ conc' = [conc EXCEPT ![t] = "ACTIVE"]
    BY <1>2, <1>n DEF start_low, rowVars
  <2>2. Begun \subseteq Begun' BY <1>0, <2>1 DEF Begun
  <2>3. \A u \in Trx : conc'[u] # "ACTIVE" => que'[u] = "RUNNING" BY <1>0, <1>1, <2>1
  <2> QED BY <2>1, <2>2, <2>3, QuietWaits
<1>3. CASE RollbackStart(t)
  <2>1. /\ kernel.op \notin CheckOps /\ kernel'.op \notin CheckOps /\ locks' = locks /\ conc' = conc
        /\ rec_trx' = rec_trx /\ que' = [que EXCEPT ![t] = "ROLLING_BACK"] /\ que[t] = "RUNNING"
        /\ conc[t] = "ACTIVE"
    BY <1>3, <1>n DEF RollbackStart, rowVars
  <2>2. Begun \subseteq Begun' BY <2>1 DEF Begun
  <2>3. \A u \in Trx : conc'[u] # "ACTIVE" => que'[u] = "RUNNING" BY <1>0, <1>1, <2>1
  <2>4. \A u \in Trx : que'[u] = "LOCK_WAIT" <=> que[u] = "LOCK_WAIT" BY <1>0, <2>1
  <2> QED BY <2>1, <2>2, <2>3, <2>4, QuietWaits
<1>4. CASE commit_off_kernel(t)
  <2>1. /\ kernel.op \notin CheckOps /\ kernel'.op \notin CheckOps /\ locks' = locks
        /\ conc' = [conc EXCEPT ![t] = "COMMITTED_IN_MEMORY"]
        /\ que' = [que EXCEPT ![t] = "RUNNING"] /\ que[t] # "LOCK_WAIT"
        /\ rec_trx' = [p \in Pages |-> [k \in Keys |-> IF rec_trx[p][k] = t THEN NoTrx ELSE rec_trx[p][k]]]
    BY <1>4, <1>n DEF commit_off_kernel
  <2>2. Begun \subseteq Begun' BY <1>0, <2>1 DEF Begun
  <2>3. \A u \in Trx : conc'[u] # "ACTIVE" => que'[u] = "RUNNING" BY <1>0, <1>1, <2>1
  <2>4. \A u \in Trx : que'[u] = "LOCK_WAIT" <=> que[u] = "LOCK_WAIT" BY <1>0, <2>1
  <2>5. \A p \in Pages, k \in Keys : rec_trx'[p][k] \in Trx => rec_trx'[p][k] = rec_trx[p][k]
    BY <2>1, ConstantsAssumption
  <2> QED BY <2>1, <2>2, <2>3, <2>4, <2>5, QuietWaits
<1>5. CASE ReleaseReenter(t)
  <2>1. /\ kernel.op \notin CheckOps /\ kernel'.op \notin CheckOps /\ locks' = locks /\ que' = que
        /\ rec_trx' = rec_trx /\ conc' = conc
    BY <1>5, <1>n DEF ReleaseReenter, rowVars, trxVars
  <2>2. Begun \subseteq Begun' BY <2>1 DEF Begun
  <2> QED BY <1>1, <2>1, <2>2, QuietWaits
<1>6. CASE ReleaseEnd(t)
  <2>1. /\ kernel.op \notin CheckOps /\ kernel'.op \notin CheckOps /\ locks' = locks /\ que' = que
        /\ rec_trx' = rec_trx /\ conc' = [conc EXCEPT ![t] = "NOT_STARTED"]
        /\ kernel.op = "release" /\ kernel.trx = t /\ \A i \in DOMAIN locks : locks[i].trx # t
    BY <1>6, <1>n DEF ReleaseEnd, rowVars, CheckOps
  <2>2. conc[t] = "COMMITTED_IN_MEMORY" BY <2>1 DEF LockInv, CallConsistent
  <2>3. OwnersIn(locks, Begun') BY <1>0, <2>1 DEF WaitInv, OwnersIn, Begun
  <2>4. \A u \in Trx : conc'[u] # "ACTIVE" => que'[u] = "RUNNING" BY <1>0, <1>1, <2>1, <2>2
  <2> QED BY <2>1, <2>3, <2>4, QuietWaits
<1> QED BY <1>2, <1>3, <1>4, <1>5, <1>6

\* ResumeWait, ReportTimeout and stuttering.
LEMMA NoWaitChange ==
  ASSUME WaitInv, UNCHANGED <<locks, conc, que, rec_trx, kernel>>
  PROVE  WaitInv'
<1>1. Begun' = Begun /\ Sleeping' = Sleeping BY DEF Begun, Sleeping
<1>2. OwnersIn(locks', Begun') /\ WaitsIn(locks') /\ NoCycleIn(locks', Sleeping') BY <1>1 DEF WaitInv
<1>3. \A p \in Pages, k \in Keys : (rec_trx'[p][k] \in Trx /\ TableOf[p] \in Tables) =>
        IntendsIn(locks', Len(locks'), rec_trx'[p][k], p, "X")
  BY DEF WaitInv, WriterIntends
<1>4. (kernel'.op \in {"insert", "modify"} /\ TableOf[kernel'.page] \in Tables) =>
        IntendsIn(locks', Len(locks'), kernel'.trx, kernel'.page, "X")
  BY DEF WaitInv, WriterIntends
<1>5. \A t \in Trx :
           LET checking == kernel'.op \in CheckOps /\ kernel'.trx = t
           IN  /\ que'[t] = "LOCK_WAIT" => IsWaiting(locks', t)
               /\ IsWaiting(locks', t) => que'[t] = "LOCK_WAIT" \/ checking
               /\ checking => conc'[t] = "ACTIVE" /\ que'[t] = "RUNNING"
               /\ conc'[t] # "ACTIVE" => que'[t] = "RUNNING"
               /\ (checking /\ IsWaiting(locks', t)) =>
                    locks'[Len(locks')].trx = t /\ locks'[Len(locks')].wait
  BY DEF WaitInv, WaitStates, NewestRequest, Checking, CheckOps
<1> QED BY <1>2, <1>3, <1>4, <1>5, WaitInvNext

\* end_lock_wait for the transactions of D.
LEMMA EndLockWait ==
  ASSUME LockInv, WaitInv, NEW D, que' = end_lock_wait(D), conc' = conc
  PROVE  /\ \A t \in Trx : que'[t] = "LOCK_WAIT" <=> que[t] = "LOCK_WAIT" /\ t \notin D
         /\ \A t \in Trx : conc'[t] # "ACTIVE" => que'[t] = "RUNNING"
         /\ \A t \in Trx : que[t] = "RUNNING" => que'[t] = "RUNNING"
BY DEF end_lock_wait, WaitInv, WaitStates

\* The intention locks of the writers, where the step changes no writer.
LEMMA WritersKept ==
  ASSUME WaitInv, rec_trx' = rec_trx, NEW r,
         \A p \in Pages, k \in Keys : rec_trx[p][k] \in Trx =>
           (IntendsIn(locks, Len(locks), rec_trx[p][k], p, "X") => IntendsIn(r, Len(r), rec_trx[p][k], p, "X"))
  PROVE  \A p \in Pages, k \in Keys : (rec_trx'[p][k] \in Trx /\ TableOf[p] \in Tables) =>
           IntendsIn(r, Len(r), rec_trx'[p][k], p, "X")
BY DEF WaitInv, WriterIntends

\* release_off_kernel and LockTimeout.
LEMMA DequeueWaitActions ==
  ASSUME LockInv, LockInv', WaitInv, NEW t \in Trx, release_off_kernel(t) \/ LockTimeout(t)
  PROVE  WaitInv'
<1> DEFINE who(i) == Revisited(locks, i)
           r(i) == Grant(Remove(locks, i), Revisited(locks, i))
           done(i) == Granted(Remove(locks, i), Revisited(locks, i))
<1>0. locks \in Seq(Lock) /\ WaitsIn(locks) /\ kernel \in Calls BY DEF LockInv, TypeOK, WaitInv
<1>n. NoCall.op \notin CheckOps BY DEF NoCall, Call, CheckOps
<1>w. \A u \in Trx : IsWaiting(locks, u) <=> que[u] = "LOCK_WAIT" \/ (kernel.op \in CheckOps /\ IsWaiting(locks, u))
  BY DEF WaitInv, WaitStates, Checking, CheckOps
<1>1. ASSUME NEW i \in DOMAIN locks, locks[i].wait \/ LastOf(locks, i), locks' = r(i), NEW D,
             que' = end_lock_wait(D), D = done(i) \cup (IF locks[i].wait THEN {locks[i].trx} ELSE {}),
             conc' = conc, rec_trx' = rec_trx, kernel.op \notin CheckOps, kernel'.op \notin CheckOps,
             locks[i].wait \/ conc[locks[i].trx] # "ACTIVE"
      PROVE  WaitInv'
  <2>1. /\ r(i) \in Seq(Lock) /\ WaitsIn(r(i)) /\ Calmer(locks, r(i))
        /\ \A u : IsWaiting(locks, u) => IsWaiting(r(i), u) \/ u \in done(i) \/ (locks[i].wait /\ u = locks[i].trx)
        /\ \A u \in done(i) : ~IsWaiting(r(i), u)
        /\ locks[i].wait => ~IsWaiting(r(i), locks[i].trx)
        /\ \A u, p, mode : (IntendsIn(locks, Len(locks), u, p, mode) /\ (locks[i].wait \/ u # locks[i].trx)) =>
             IntendsIn(r(i), Len(r(i)), u, p, mode)
    BY <1>0, <1>1, DequeueWaits
  <2> HIDE DEF r, done
  <2>2. Begun' = Begun BY <1>1 DEF Begun
  <2>3. OwnersIn(locks', Begun') BY <1>1, <2>1, <2>2 DEF Calmer, WaitInv
  <2>4. \A u \in Trx : IsWaiting(locks', u) <=> IsWaiting(locks, u) /\ u \notin D
    BY <1>1, <2>1 DEF Calmer
  <2>5. /\ \A u \in Trx : que'[u] = "LOCK_WAIT" <=> que[u] = "LOCK_WAIT" /\ u \notin D
        /\ \A u \in Trx : conc'[u] # "ACTIVE" => que'[u] = "RUNNING"
    BY <1>1, EndLockWait
  <2>6. ASSUME NEW p \in Pages, NEW k \in Keys, rec_trx[p][k] \in Trx
        PROVE  IntendsIn(locks, Len(locks), rec_trx[p][k], p, "X") =>
                 IntendsIn(r(i), Len(r(i)), rec_trx[p][k], p, "X")
    <3>1. locks[i].wait \/ rec_trx[p][k] # locks[i].trx BY <1>1, <2>6 DEF LockInv, WriterActive
    <3> QED BY <2>1, <3>1
  <2>7. \A p \in Pages, k \in Keys : (rec_trx'[p][k] \in Trx /\ TableOf[p] \in Tables) =>
          IntendsIn(locks', Len(locks'), rec_trx'[p][k], p, "X")
    BY <1>1, <2>6, WritersKept
  <2>8. WaitsIn(locks') /\ \A u, v : WaitsFor(locks', u, v) => WaitsFor(locks, u, v) BY <1>1, <2>1 DEF Calmer
  <2>9. kernel.op \notin CheckOps /\ kernel'.op \notin CheckOps BY <1>1
  <2> QED BY <2>3, <2>4, <2>5, <2>7, <2>8, <2>9, IdleStep
<1>2. CASE release_off_kernel(t)
  <2>1. PICK i \in DOMAIN locks :
          locks[i].trx = t /\ (\A j \in DOMAIN locks : locks[j].trx = t => j <= i) /\ Dequeue(i)
    BY <1>2 DEF release_off_kernel
  <2>2. conc[t] = "COMMITTED_IN_MEMORY" /\ kernel.op \notin CheckOps
    BY <1>2 DEF release_off_kernel, LockInv, CallConsistent, CheckOps
  <2>3. ~locks[i].wait
    <3>1. que[t] = "RUNNING" BY <2>2 DEF WaitInv, WaitStates
    <3>2. ~IsWaiting(locks, t) BY <1>w, <2>2, <3>1
    <3> QED BY <2>1, <3>2 DEF IsWaiting
  <2>4. locks' = r(i) /\ que' = end_lock_wait(done(i)) BY <2>1 DEF Dequeue
  <2>5. kernel'.op \notin CheckOps
    <3>1. kernel' = NoCall \/ kernel' = [kernel EXCEPT !.count = @ + 1] BY <1>2 DEF release_off_kernel
    <3>2. [kernel EXCEPT !.count = @ + 1].op = kernel.op BY <1>0 DEF Calls
    <3> QED BY <1>n, <2>2, <3>1, <3>2
  <2>6. done(i) = done(i) \cup (IF locks[i].wait THEN {locks[i].trx} ELSE {}) BY <2>3
  <2>7. conc' = conc /\ rec_trx' = rec_trx /\ LastOf(locks, i)
    BY <1>2, <2>1 DEF release_off_kernel, rowVars, LastOf
  <2>8. conc[locks[i].trx] # "ACTIVE" BY <2>1, <2>2
  <2> HIDE DEF r, done
  <2> QED BY <1>1, <2>2, <2>4, <2>5, <2>6, <2>7, <2>8
<1>3. CASE LockTimeout(t)
  <2> DEFINE i == WaitLock(t)
  <2>1. i \in DOMAIN locks /\ locks[i].wait /\ locks[i].trx = t BY <1>3, WaitLockIs DEF LockTimeout
  <2>2. cancel_waiting_and_release(i) /\ conc' = conc /\ rec_trx' = rec_trx /\ kernel = NoCall /\ kernel' = kernel
    BY <1>3 DEF LockTimeout, rowVars
  <2> HIDE DEF i
  <2>3. locks' = r(i) /\ que' = end_lock_wait(done(i) \cup {locks[i].trx})
    BY <2>2 DEF cancel_waiting_and_release
  <2>4. done(i) \cup {locks[i].trx} = done(i) \cup (IF locks[i].wait THEN {locks[i].trx} ELSE {}) BY <2>1
  <2> HIDE DEF r, done
  <2> QED BY <1>1, <1>n, <2>1, <2>2, <2>3, <2>4
<1> QED BY <1>2, <1>3

\* The i-th struct loses bits, and what waited for them is looked at again.
LEMMA UnlockWaitAction ==
  ASSUME LockInv, LockInv', WaitInv, NEW t \in Trx, NEW p \in Pages, NEW k \in Keys, NEW mode,
         rec_unlock(t, p, k, mode)
  PROVE  WaitInv'
<1>0. locks \in Seq(Lock) /\ WaitsIn(locks) BY DEF LockInv, TypeOK, WaitInv
<1>1. PICK i \in DOMAIN locks :
        /\ OnRec(locks[i], p, k) /\ locks[i].trx = t
        /\ LET ls == [locks EXCEPT ![i].bits = @ \ {k}]
               who == {j \in DOMAIN ls : OnRec(ls[j], p, k)}
           IN  locks' = Grant(ls, who) /\ que' = end_lock_wait(Granted(ls, who))
  BY DEF rec_unlock
<1> DEFINE ls == [locks EXCEPT ![i].bits = @ \ {k}]
           who == {j \in DOMAIN ls : OnRec(ls[j], p, k)}
           r == Grant(ls, who)
           D == Granted(ls, who)
<1>2. locks' = r /\ que' = end_lock_wait(D) BY <1>1
<1>3. \A j \in DOMAIN locks : locks[j] \in Lock BY <1>0, SeqIsFcn
<1>4. /\ DOMAIN ls = DOMAIN locks /\ \A j \in DOMAIN locks : j # i => ls[j] = locks[j]
      /\ ls[i] = [locks[i] EXCEPT !.bits = @ \ {k}]
  BY <1>0, <1>3
<1>5. /\ ls[i] \in Lock /\ Alike(locks[i], ls[i])
      /\ ls[i].bits = locks[i].bits \ {k} /\ ls[i].wait = locks[i].wait
  BY <1>3, <1>4 DEF Lock, Alike
<1>6. ls \in Seq(Lock) /\ Len(ls) = Len(locks)
  <2>1. \A j \in DOMAIN locks : ls[j] \in Lock BY <1>3, <1>4, <1>5
  <2>2. Len(locks) \in Nat /\ DOMAIN locks = 1..Len(locks) BY <1>0, SeqIsFcn
  <2>3. ls \in [1..Len(locks) -> Lock] BY <2>1, <2>2
  <2> HIDE DEF ls
  <2> QED BY <2>2, <2>3, SeqOfFcn
<1>7. who \in SUBSET DOMAIN ls OBVIOUS
<1>w. who = {j \in DOMAIN ls : OnRec(ls[j], p, k)} OBVIOUS
<1> HIDE DEF ls, who
<1>8. /\ kernel = NoCall /\ kernel' = kernel /\ conc' = conc /\ rec_trx' = rec_trx /\ que[t] = "RUNNING"
      /\ kernel.op \notin CheckOps /\ kernel'.op \notin CheckOps
  BY DEF rec_unlock, rowVars, NoCall, Call, CheckOps
<1>9. ~locks[i].wait
  <2>1. ~IsWaiting(locks, t) BY <1>8 DEF WaitInv, WaitStates, Checking, CheckOps
  <2> QED BY <1>1, <2>1 DEF IsWaiting
<1>10. \A j \in DOMAIN locks : j # i => Alike(locks[j], ls[j]) /\ ls[j] = locks[j] BY <1>4 DEF Alike
<1>11. Shrunk(locks, ls) BY <1>0, <1>5, <1>6, <1>9, <1>10 DEF Shrunk
<1>12. /\ Calmer(locks, ls) /\ IntentionIn(ls)
       /\ \A n, u, q, m : IntendsIn(locks, n, u, q, m) => IntendsIn(ls, n, u, q, m)
  BY <1>0, <1>11, ShrunkCalmer DEF WaitsIn
<1>13. ASSUME NEW j \in DOMAIN ls, ls[j].wait PROVE j \in who \/ has_to_wait_in_queue(ls, j)
  <2>1. j # i /\ j \in DOMAIN locks /\ ls[j] = locks[j] /\ locks[j].wait BY <1>4, <1>5, <1>9, <1>13
  <2>2. PICK a \in 1..(j-1) : has_to_wait_for(locks[j], locks[a])
    BY <1>0, <2>1 DEF WaitsIn, BlockedIn, has_to_wait_in_queue
  <2>3. a \in DOMAIN locks
    <3>1. Len(locks) \in Nat /\ DOMAIN locks = 1..Len(locks) BY <1>0, SeqIsFcn
    <3> QED BY <2>1, <2>2, <3>1
  <2>4. CASE a # i
    <3>1. has_to_wait_for(ls[j], ls[a]) BY <2>1, <2>2, <2>3, <2>4, <1>10
    <3> QED BY <2>2, <3>1 DEF has_to_wait_in_queue
  <2>5. CASE a = i
    <3>1. CASE OnRec(locks[j], p, k) BY <1>w, <2>1, <3>1
    <3>2. CASE ~OnRec(locks[j], p, k)
      <4>1. locks[j].on = p BY <1>1, <2>2, <2>5 DEF has_to_wait_for, OnRec
      <4>2. locks[j].type \in {"TABLE", "REC"} BY <1>3, <2>1 DEF Lock
      <4>3. locks[j].type = "TABLE" \/ k \notin locks[j].bits BY <3>2, <4>1, <4>2 DEF OnRec
      <4>4. Alike(locks[j], ls[j]) /\ Alike(locks[a], ls[a]) /\ ls[j].bits = locks[j].bits
            /\ ls[a].bits = locks[a].bits \ {k}
        BY <1>5, <1>10, <2>1, <2>5
      <4>5. locks[j].type = "TABLE" \/ (locks[j].bits \cap locks[a].bits) \subseteq (ls[j].bits \cap ls[a].bits)
        BY <4>3, <4>4
      <4>6. has_to_wait_for(ls[j], ls[a]) BY <2>2, <4>4, <4>5, WaitRuleAlike
      <4> QED BY <2>2, <4>6 DEF has_to_wait_in_queue
    <3> QED BY <3>1, <3>2
  <2> QED BY <2>4, <2>5
<1>14. OneWaitIn(ls) BY <1>0, <1>12 DEF Calmer, WaitsIn
<1>15. /\ Shrunk(ls, r) /\ BlockedIn(r)
       /\ \A u : IsWaiting(ls, u) => IsWaiting(r, u) \/ u \in D
       /\ \A u \in D : ~IsWaiting(r, u)
  BY <1>6, <1>7, <1>13, <1>14, GrantShrinks
<1> HIDE DEF r, D
<1>16. /\ Calmer(ls, r) /\ IntentionIn(r) /\ Len(r) = Len(ls)
       /\ \A n, u, q, m : IntendsIn(ls, n, u, q, m) => IntendsIn(r, n, u, q, m)
  BY <1>12, <1>15, ShrunkCalmer DEF Shrunk
<1>17. WaitsIn(r) BY <1>14, <1>15, <1>16 DEF WaitsIn, Calmer
<1>18. \A u : IsWaiting(locks, u) <=> IsWaiting(ls, u)
  <2>1. \A j \in DOMAIN locks : ls[j].trx = locks[j].trx /\ ls[j].wait = locks[j].wait
    BY <1>5, <1>10 DEF Alike
  <2> QED BY <1>4, <2>1 DEF IsWaiting
<1>19. \A u \in Trx : IsWaiting(locks', u) <=> IsWaiting(locks, u) /\ u \notin D
  BY <1>2, <1>15, <1>16, <1>18 DEF Calmer
<1>20. /\ \A u \in Trx : que'[u] = "LOCK_WAIT" <=> que[u] = "LOCK_WAIT" /\ u \notin D
       /\ \A u \in Trx : conc'[u] # "ACTIVE" => que'[u] = "RUNNING"
  BY <1>2, <1>8, EndLockWait
<1>21. OwnersIn(locks', Begun')
  <2>1. Begun' = Begun BY <1>8 DEF Begun
  <2> QED BY <1>2, <1>12, <1>16, <2>1 DEF Calmer, WaitInv
<1>22. \A q \in Pages, m \in Keys : (rec_trx'[q][m] \in Trx /\ TableOf[q] \in Tables) =>
          IntendsIn(locks', Len(locks'), rec_trx'[q][m], q, "X")
  BY <1>2, <1>6, <1>8, <1>12, <1>16, WritersKept
<1>23. WaitsIn(locks') /\ \A u, v : WaitsFor(locks', u, v) => WaitsFor(locks, u, v)
  BY <1>2, <1>12, <1>16, <1>17 DEF Calmer
<1> QED BY <1>8, <1>19, <1>20, <1>21, <1>22, <1>23, IdleStep

-----------------------------------------------------------------------------
(* Rows that leave a page.                                                 *)

\* Growing does not change who waits for a record.
LEMMA GrownCancelled ==
  ASSUME NEW ls, NEW r, NEW S, Grown(ls, r, S), NEW p, NEW k
  PROVE  Cancelled(r, p, k) = Cancelled(ls, p, k)
<1>1. /\ DOMAIN r = 1..Len(r) /\ DOMAIN ls = 1..Len(ls) /\ Len(ls) \in Nat /\ Len(r) \in Nat /\ Len(ls) <= Len(r)
  BY SeqIsFcn DEF Grown
<1>2. \A i \in DOMAIN r : r[i].wait => i \in DOMAIN ls
  <2> SUFFICES ASSUME NEW i \in DOMAIN r, r[i].wait, i \notin DOMAIN ls PROVE FALSE OBVIOUS
  <2>1. i > Len(ls) BY <1>1
  <2> QED BY <2>1 DEF Grown
<1>3. \A i \in DOMAIN ls : i \in DOMAIN r BY <1>1
<1>4. ASSUME NEW i \in DOMAIN ls
      PROVE  /\ r[i].trx = ls[i].trx
             /\ (r[i].wait /\ OnRec(r[i], p, k)) <=> (ls[i].wait /\ OnRec(ls[i], p, k))
  <2>1. /\ Alike(ls[i], r[i]) /\ r[i].wait = ls[i].wait
        /\ ls[i].wait => r[i].bits = ls[i].bits
    BY DEF Grown
  <2> QED BY <2>1 DEF Alike, OnRec
<1>5. \A t : t \in Cancelled(r, p, k) <=> \E i \in DOMAIN r : r[i].trx = t /\ r[i].wait /\ OnRec(r[i], p, k)
  BY DEF Cancelled
<1>6. \A t : t \in Cancelled(ls, p, k) <=> \E i \in DOMAIN ls : ls[i].trx = t /\ ls[i].wait /\ OnRec(ls[i], p, k)
  BY DEF Cancelled
<1>7. \A t : t \in Cancelled(r, p, k) <=> t \in Cancelled(ls, p, k)
  BY <1>2, <1>3, <1>4, <1>5, <1>6
<1> QED BY <1>7

\* update_delete.
LEMMA DeleteWaits ==
  ASSUME LockInv, WaitInv, NEW p \in Pages, NEW k \in Keys, update_delete(p, k),
         kernel = NoCall, kernel' = kernel, conc' = conc,
         \A q \in Pages, m \in Keys : rec_trx'[q][m] \in Trx => rec_trx'[q][m] = rec_trx[q][m]
  PROVE  WaitInv'
<1>1. PICK ls \in rec_inherit_to_gap(locks, p, NextRec(p, k), k) :
        locks' = rec_reset_and_release_wait(ls, p, k)
  BY DEF update_delete
<1>0. locks \in Seq(Lock) /\ WaitsIn(locks) /\ OwnersIn(locks, Begun) BY DEF LockInv, TypeOK, WaitInv
<1>2. NextRec(p, k) \in HeapNos /\ k \in HeapNos BY NextRecIs, KeyIs
<1>3. Inherited(locks, ls, p, NextRec(p, k))
  <2> DEFINE Q == {i \in DOMAIN locks : /\ OnRec(locks[i], p, k) /\ ~locks[i].ins
                                        /\ locks[i].trx \notin ReadCommitted /\ locks[i].mode = "X"}
  <2>1. /\ Q \in SUBSET DOMAIN locks
        /\ \A i \in Q : locks[i].type = "REC" /\ locks[i].on = p /\ locks[i].mode \in RecModes
    BY DEF RecModes, OnRec
  <2>2. ls \in InheritTo(locks, Q, p, NextRec(p, k)) BY DEF rec_inherit_to_gap
  <2> HIDE DEF Q
  <2> QED BY <1>0, <1>2, <2>1, <2>2, InheritResult
<1>4. Grown(locks, ls, Begun) BY <1>0, <1>2, <1>3, InheritGrows DEF WaitsIn
<1>5. Carries(locks, ls, Begun) BY <1>0, <1>4, GrownCarries
<1>6. ls \in Seq(Lock) /\ WaitsIn(ls) BY <1>5 DEF Carries
<1> DEFINE D == Cancelled(locks, p, k)
<1>7. Cancelled(ls, p, k) = D BY <1>4, GrownCancelled
<1> HIDE DEF D
<1>8. /\ Shrunk(ls, locks') /\ BlockedIn(locks')
      /\ \A t : IsWaiting(ls, t) => IsWaiting(locks', t) \/ t \in D
      /\ \A t \in D : ~IsWaiting(locks', t)
  BY <1>1, <1>2, <1>6, <1>7, ResetShrinks
<1>9. /\ Calmer(ls, locks') /\ IntentionIn(locks') /\ Len(locks') = Len(ls)
      /\ \A n, u, q, m : IntendsIn(ls, n, u, q, m) => IntendsIn(locks', n, u, q, m)
  BY <1>6, <1>8, ShrunkCalmer DEF Shrunk, WaitsIn
<1>10. WaitsIn(locks') BY <1>6, <1>8, <1>9 DEF WaitsIn, Calmer
<1>11. \A u, v : WaitsFor(locks', u, v) => WaitsFor(locks, u, v) BY <1>5, <1>9 DEF Calmer, Carries
<1>12. \A u \in Trx : IsWaiting(locks', u) <=> IsWaiting(locks, u) /\ u \notin D
  BY <1>5, <1>8, <1>9 DEF Calmer, Carries
<1>13. /\ \A u \in Trx : que'[u] = "LOCK_WAIT" <=> que[u] = "LOCK_WAIT" /\ u \notin D
       /\ \A u \in Trx : conc'[u] # "ACTIVE" => que'[u] = "RUNNING"
  <2>1. que' = end_lock_wait(D) BY DEF update_delete, D
  <2> QED BY <2>1, EndLockWait
<1>14. OwnersIn(locks', Begun')
  <2>1. Begun' = Begun BY DEF Begun
  <2> QED BY <1>5, <1>9, <2>1 DEF Calmer, Carries
<1>15. ASSUME NEW q \in Pages, NEW m \in Keys, rec_trx'[q][m] \in Trx, TableOf[q] \in Tables
       PROVE  IntendsIn(locks', Len(locks'), rec_trx'[q][m], q, "X")
  <2>1. IntendsIn(locks, Len(locks), rec_trx'[q][m], q, "X") BY <1>15 DEF WaitInv, WriterIntends
  <2>2. IntendsIn(ls, Len(ls), rec_trx'[q][m], q, "X") BY <1>5, <2>1 DEF Carries
  <2> QED BY <1>9, <2>2
<1>16. kernel.op \notin CheckOps /\ kernel'.op \notin CheckOps BY DEF NoCall, Call, CheckOps
<1> QED BY <1>10, <1>11, <1>12, <1>13, <1>14, <1>15, <1>16, IdleStep

\* Purge removes a row.
LEMMA PurgeWaitAction ==
  ASSUME LockInv, WaitInv, NEW p \in Pages, NEW k \in Keys, purge_remove(p, k)
  PROVE  WaitInv'
BY DeleteWaits DEF purge_remove

\* The rollback of one row change.
LEMMA RollbackWaitAction ==
  ASSUME LockInv, WaitInv, NEW t \in Trx, RollbackRow(t)
  PROVE  WaitInv'
<1> DEFINE n == Len(undo[t])
           u == undo[t][n]
<1>1. undo[t] \in Seq(UndoRec) /\ undo[t] # <<>> BY DEF LockInv, TypeOK, RollbackRow
<1>2. n \in DOMAIN undo[t] /\ u \in UndoRec BY <1>1
<1>3. rec_trx[u.page][u.key] = t /\ u.old_trx \in {t, NoTrx}
  BY <1>2 DEF LockInv, UndoConsistent
<1>4. u.page \in Pages /\ u.key \in Keys BY <1>2 DEF UndoRec
<1>5. /\ rec_trx' = [rec_trx EXCEPT ![u.page][u.key] = u.old_trx]
      /\ kernel = NoCall /\ kernel' = kernel /\ conc' = conc
      /\ update_delete(u.page, u.key) \/ UNCHANGED <<locks, que>>
  BY DEF RollbackRow
<1> HIDE DEF u, n
<1>6. ASSUME NEW q \in Pages, NEW m \in Keys, rec_trx'[q][m] \in Trx
      PROVE  rec_trx'[q][m] = rec_trx[q][m]
  <2>1. rec_trx \in [Pages -> [Keys -> Trx \cup {NoTrx}]] BY DEF LockInv, TypeOK
  <2> QED BY <1>3, <1>4, <1>5, <1>6, <2>1, ConstantsAssumption
<1>7. CASE update_delete(u.page, u.key) BY <1>4, <1>5, <1>6, <1>7, DeleteWaits
<1>8. CASE UNCHANGED <<locks, que>>
  <2>1. Begun \subseteq Begun' BY <1>5 DEF Begun
  <2>2. kernel.op \notin CheckOps /\ kernel'.op \notin CheckOps BY <1>5 DEF NoCall, Call, CheckOps
  <2>3. \A v \in Trx : conc'[v] # "ACTIVE" => que'[v] = "RUNNING" BY <1>5, <1>8 DEF WaitInv, WaitStates
  <2> QED BY <1>5, <1>6, <1>8, <2>1, <2>2, <2>3, QuietWaits
<1> QED BY <1>5, <1>7, <1>8

-----------------------------------------------------------------------------
(* Requests that are granted at once.                                      *)

\* A client that makes a request is active and does not wait, and its table lock
\* is the intention lock of its record locks.
LEMMA RequestIntends ==
  ASSUME LockInv, WaitInv, NEW t \in Trx, CanRequest(t)
  PROVE  /\ t \in Begun /\ ~IsWaiting(locks, t) /\ conc[t] = "ACTIVE" /\ que[t] = "RUNNING"
         /\ \A p \in Pages : \A mode :
              (IntentionHeld(t, p, IntentionMode(mode)) /\ TableOf[p] \in Tables) =>
                IntendsIn(locks, Len(locks), t, p, mode)
<1>1. kernel.op \notin CheckOps /\ que[t] = "RUNNING" /\ conc[t] = "ACTIVE"
  BY DEF CanRequest, NoCall, Call, CheckOps
<1>2. ~IsWaiting(locks, t) BY <1>1 DEF WaitInv, WaitStates, Checking, CheckOps
<1>3. t \in Begun BY <1>1 DEF Begun
<1>4. ASSUME NEW p \in Pages, NEW mode, IntentionHeld(t, p, IntentionMode(mode)), TableOf[p] \in Tables
      PROVE  IntendsIn(locks, Len(locks), t, p, mode)
  <2>1. PICK i \in DOMAIN locks : /\ locks[i].type = "TABLE" /\ locks[i].on = TableOf[p] /\ locks[i].trx = t
                                 /\ mode_stronger_or_eq(locks[i].mode, IntentionMode(mode))
    BY <1>4 DEF IntentionHeld, table_has
  <2>2. ~locks[i].wait BY <1>2, <2>1 DEF IsWaiting
  <2>3. i <= Len(locks)
    <3>1. DOMAIN locks = 1..Len(locks) BY SeqIsFcn DEF LockInv, TypeOK
    <3> QED BY <3>1
  <2> QED BY <2>1, <2>2, <2>3 DEF IntendsIn
<1> QED BY <1>1, <1>2, <1>3, <1>4

\* rec_convert_impl_to_expl: the writer of the record has its intention lock.
LEMMA ConvertCarries ==
  ASSUME LockInv, WaitInv, NEW p \in Pages, NEW k \in Keys
  PROVE  Carries(locks, rec_convert_impl_to_expl(locks, p, k), Begun)
<1> DEFINE req == Request("X", "REC_NOT_GAP", FALSE)
           r == rec_convert_impl_to_expl(locks, p, k)
<1>0. locks \in Seq(Lock) /\ WaitsIn(locks) /\ OwnersIn(locks, Begun) BY DEF LockInv, TypeOK, WaitInv
<1>2. \A o, q \in clust_rec_some_has_impl(p, k) : o = q BY DEF clust_rec_some_has_impl
<1>3. CASE \A o \in clust_rec_some_has_impl(p, k) : rec_has_expl(locks, p, req, k, o)
  <2>1. r = locks BY <1>3 DEF rec_convert_impl_to_expl
  <2> QED BY <1>0, <2>1, CarriesOn
<1>4. ASSUME NEW o \in clust_rec_some_has_impl(p, k), ~rec_has_expl(locks, p, req, k, o)
      PROVE  Carries(locks, r, Begun)
  <2>1. r = rec_add_to_queue(locks, o, p, req, k) BY <1>2, <1>4 DEF rec_convert_impl_to_expl
  <2>2. o \in Trx /\ rec_trx[p][k] = o /\ conc[o] = "ACTIVE" BY DEF clust_rec_some_has_impl
  <2>3. req \in Requests /\ req.mode = "X" BY RequestType DEF Request
  <2> HIDE DEF req, r
  <2>4. TableOf[p] \in Tables => IntendsIn(locks, Len(locks), o, p, req.mode)
    BY <2>2, <2>3 DEF WaitInv, WriterIntends
  <2>5. o \in Begun BY <2>2 DEF Begun
  <2>6. Grown(locks, r, Begun) BY <1>0, <2>1, <2>2, <2>3, <2>4, <2>5, KeyIs, AddGrows
  <2> QED BY <1>0, <2>6, GrownCarries
<1> QED BY <1>3, <1>4

\* What rec_lock leaves in the queue when it does not wait.
LEMMA RecLockCarries ==
  ASSUME NEW ls \in Seq(Lock), NEW S, WaitsIn(ls), OwnersIn(ls, S), NEW t \in Trx, t \in S, NEW p \in Pages,
         NEW h \in HeapNos, NEW req \in Requests,
         TableOf[p] \in Tables => IntendsIn(ls, Len(ls), t, p, req.mode), NEW impl \in BOOLEAN, NEW r,
         \/ rec_lock_fast(ls, t, p, req, h) /\ r = RecLockFast(ls, impl, t, p, req, h)
         \/ ~RecLockWaits(ls, t, p, req, h) /\ r = RecLockSlow(ls, impl, t, p, req, h)
  PROVE  Carries(ls, r, S)
<1>1. CASE r = ls BY <1>1, CarriesOn
<1>2. CASE r = Append(ls, NewRecLock(t, p, req, h, FALSE))
  <2> DEFINE l == NewRecLock(t, p, req, h, FALSE)
  <2>1. l \in Lock /\ l.trx = t /\ l.on = p /\ l.mode = req.mode /\ ~l.wait
    BY NewRecLockType DEF NewRecLock
  <2> HIDE DEF l
  <2>2. Grown(ls, Append(ls, l), S) BY <2>1, AppendGrows
  <2> QED BY <1>2, <2>2, GrownCarries DEF l
<1>3. ASSUME NEW i \in DOMAIN ls, PageLocks(ls, p) = {i}, ~ls[i].wait, r = SetBit(ls, i, h)
      PROVE  Carries(ls, r, S)
  <2>1. ~RecHasWaiter(ls, p, h) BY <1>3 DEF RecHasWaiter, PageLocks, OnRec
  <2>2. ls[i].on = p BY <1>3 DEF PageLocks
  <2>3. Grown(ls, r, S) BY <1>3, <2>1, <2>2, SetBitGrows
  <2> QED BY <2>3, GrownCarries
<1>4. CASE r = rec_add_to_queue(ls, t, p, req, h)
  <2>1. Grown(ls, r, S) BY <1>4, AddGrows
  <2> QED BY <2>1, GrownCarries
<1>5. CASE rec_lock_fast(ls, t, p, req, h) /\ r = RecLockFast(ls, impl, t, p, req, h)
  <2>1. CASE impl BY <1>1, <1>5, <2>1 DEF RecLockFast
  <2>2. CASE ~impl /\ PageLocks(ls, p) = {} BY <1>2, <1>5, <2>2 DEF RecLockFast, rec_create_low
  <2>3. CASE ~impl /\ PageLocks(ls, p) # {}
    <3>1. PICK i \in DOMAIN ls : PageLocks(ls, p) = {i} /\ ~ls[i].wait
      BY <1>5, <2>3 DEF rec_lock_fast
    <3>2. (CHOOSE j \in DOMAIN ls : j \in PageLocks(ls, p)) = i BY <3>1
    <3>3. r = SetBit(ls, i, h) BY <1>5, <2>3, <3>2 DEF RecLockFast
    <3> QED BY <1>3, <3>1, <3>3
  <2> QED BY <2>1, <2>2, <2>3
<1>6. CASE r = RecLockSlow(ls, impl, t, p, req, h)
  BY <1>1, <1>4, <1>6 DEF RecLockSlow
<1> QED BY <1>5, <1>6

\* A step that grants a request and makes nobody wait or stop waiting.
LEMMA GrantedStep ==
  ASSUME LockInv, WaitInv, UNCHANGED trxVars, kernel'.op \notin CheckOps, Carries(locks, locks', Begun),
         \A t \in Trx : IsWaiting(locks, t) => que[t] = "LOCK_WAIT",
         \A p \in Pages, k \in Keys : (rec_trx'[p][k] \in Trx /\ TableOf[p] \in Tables) =>
           IntendsIn(locks, Len(locks), rec_trx'[p][k], p, "X")
  PROVE  WaitInv'
<1> DEFINE D == {}
<1>1. conc' = conc /\ que' = que BY DEF trxVars
<1>2. Begun' = Begun BY <1>1 DEF Begun
<1>3. WaitsIn(locks') /\ OwnersIn(locks', Begun') BY <1>2 DEF Carries
<1>4. \A t, u : WaitsFor(locks', t, u) => WaitsFor(locks, t, u) BY DEF Carries
<1>5. /\ \A t \in Trx : IsWaiting(locks', t) <=> IsWaiting(locks, t) /\ t \notin D
      /\ \A t \in Trx : que'[t] = "LOCK_WAIT" <=> que[t] = "LOCK_WAIT" /\ t \notin D
      /\ \A t \in Trx : (IsWaiting(locks, t) /\ t \notin D) => que[t] = "LOCK_WAIT"
  BY <1>1 DEF Carries
<1>6. \A t \in Trx : conc'[t] # "ACTIVE" => que'[t] = "RUNNING" BY <1>1 DEF WaitInv, WaitStates
<1>7. \A p \in Pages, k \in Keys : (rec_trx'[p][k] \in Trx /\ TableOf[p] \in Tables) =>
        IntendsIn(locks', Len(locks'), rec_trx'[p][k], p, "X")
  BY DEF Carries
<1> HIDE DEF D
<1> QED BY <1>3, <1>4, <1>5, <1>6, <1>7, EndStep

\* What the caller does once its lock call has succeeded.
LEMMA SucceedStep ==
  ASSUME LockInv, WaitInv, UNCHANGED trxVars, kernel'.op \notin CheckOps,
         \A u \in Trx : IsWaiting(locks, u) => que[u] = "LOCK_WAIT",
         NEW t \in Trx, NEW p, NEW k, NEW to, NEW op, NEW ls, Succeed(ls, op, t, p, k, to),
         Carries(locks, ls, Begun), op = "insert" => ls = locks,
         op \in {"insert", "modify"} =>
           /\ p \in Pages /\ k \in Keys
           /\ TableOf[p] \in Tables => IntendsIn(locks, Len(locks), t, p, "X")
  PROVE  WaitInv'
<1>0. locks \in Seq(Lock) /\ WaitsIn(locks) /\ OwnersIn(locks, Begun) BY DEF LockInv, TypeOK, WaitInv
<1>1. \A q \in Pages, m \in Keys : (rec_trx[q][m] \in Trx /\ TableOf[q] \in Tables) =>
        IntendsIn(locks, Len(locks), rec_trx[q][m], q, "X")
  BY DEF WaitInv, WriterIntends
<1>2. ASSUME op \in {"insert", "modify"}
      PROVE  \A q \in Pages, m \in Keys : (rec_trx'[q][m] \in Trx /\ TableOf[q] \in Tables) =>
               IntendsIn(locks, Len(locks), rec_trx'[q][m], q, "X")
  <2>1. rec_trx' = [rec_trx EXCEPT ![p][k] = t] /\ p \in Pages /\ k \in Keys BY <1>2 DEF Succeed
  <2>2. rec_trx \in [Pages -> [Keys -> Trx \cup {NoTrx}]] BY DEF LockInv, TypeOK
  <2>3. ASSUME NEW q \in Pages, NEW m \in Keys, rec_trx'[q][m] \in Trx, TableOf[q] \in Tables
        PROVE  IntendsIn(locks, Len(locks), rec_trx'[q][m], q, "X")
    <3>1. CASE q = p /\ m = k
      <4>1. rec_trx'[q][m] = t BY <2>1, <2>2, <3>1
      <4> QED BY <1>2, <2>3, <3>1, <4>1
    <3>2. CASE ~(q = p /\ m = k)
      <4>1. rec_trx'[q][m] = rec_trx[q][m] BY <2>1, <2>2, <3>2
      <4> QED BY <1>1, <2>3, <4>1
    <3> QED BY <3>1, <3>2
  <2> QED BY <2>3
<1>3. CASE op = "lock"
  <2>1. locks' = ls /\ rec_trx' = rec_trx BY <1>3 DEF Succeed, rowVars
  <2> QED BY <1>1, <2>1, GrantedStep
<1>4. CASE op = "modify"
  <2>1. locks' = ls BY <1>4 DEF Succeed
  <2> QED BY <1>2, <1>4, <2>1, GrantedStep
<1>5. CASE op = "insert"
  <2>1. locks' \in rec_inherit_to_gap_if_gap_lock(locks, p, k, NextRec(p, k)) /\ p \in Pages /\ k \in Keys
    BY <1>5 DEF Succeed
  <2>2. Inherited(locks, locks', p, k)
    <3> DEFINE Q == {i \in DOMAIN locks : /\ OnRec(locks[i], p, NextRec(p, k)) /\ ~locks[i].ins
                                          /\ \/ NextRec(p, k) = PAGE_HEAP_NO_SUPREMUM
                                             \/ locks[i].gap # "REC_NOT_GAP"}
    <3>1. /\ Q \in SUBSET DOMAIN locks
          /\ \A i \in Q : locks[i].type = "REC" /\ locks[i].on = p /\ locks[i].mode \in RecModes
      BY DEF LockInv, BitsPresentIn, OnRec
    <3>2. locks' \in InheritTo(locks, Q, p, k) BY <2>1 DEF rec_inherit_to_gap_if_gap_lock
    <3> HIDE DEF Q
    <3> QED BY <1>0, <2>1, <3>1, <3>2, KeyIs, InheritResult
  <2>3. Grown(locks, locks', Begun) BY <1>0, <2>1, <2>2, KeyIs, InheritGrows DEF WaitsIn
  <2>4. Carries(locks, locks', Begun) BY <1>0, <2>3, GrownCarries
  <2> QED BY <1>2, <1>5, <2>4, GrantedStep
<1> QED BY <1>3, <1>4, <1>5 DEF Succeed

-----------------------------------------------------------------------------
(* Requests that have to wait.                                             *)

\* A waiting request goes to the end of the queue, behind a lock that blocks it.
LEMMA AppendWaits ==
  ASSUME NEW ls \in Seq(Lock), NEW l \in Lock, NEW S, WaitsIn(ls), OwnersIn(ls, S), l.trx \in S, l.wait,
         ~IsWaiting(ls, l.trx), l.type = "REC" => \E h \in HeapNos : l.bits = {h},
         \E j \in DOMAIN ls : has_to_wait_for(l, ls[j]),
         (l.type = "REC" /\ TableOf[l.on] \in Tables) => IntendsIn(ls, Len(ls), l.trx, l.on, l.mode)
  PROVE  LET r == Append(ls, l)
         IN  /\ WaitsIn(r) /\ OwnersIn(r, S) /\ r[Len(r)] = l
             /\ \A t : IsWaiting(r, t) <=> IsWaiting(ls, t) \/ t = l.trx
             /\ \A t, u : (t # l.trx /\ WaitsFor(r, t, u)) => WaitsFor(ls, t, u)
             /\ \A t, p, mode : IntendsIn(ls, Len(ls), t, p, mode) => IntendsIn(r, Len(r), t, p, mode)
<1> DEFINE r == Append(ls, l)
           n == Len(ls) + 1
<1>1. /\ r \in Seq(Lock) /\ DOMAIN r = 1..n /\ DOMAIN ls = 1..Len(ls) /\ Len(ls) \in Nat
      /\ \A i \in 1..Len(ls) : r[i] = ls[i]
      /\ r[n] = l
  BY AppendType
<1>2. Len(r) = n BY <1>1
<1> HIDE DEF r
<1>3. /\ \A i \in DOMAIN ls : i \in DOMAIN r /\ r[i] = ls[i]
      /\ n \in DOMAIN r /\ n \notin DOMAIN ls
      /\ \A i \in DOMAIN r : i \in DOMAIN ls \/ i = n
      /\ \A i \in DOMAIN ls : \A j \in 1..(i-1) : j \in DOMAIN ls
      /\ \A i \in DOMAIN ls : i \in 1..(n-1) /\ i <= n /\ i <= Len(ls)
      /\ n \in Nat
  BY <1>1
<1>4. r[n] = l BY <1>1
<1> HIDE DEF n
<1>5. OneWaitIn(r)
  <2> SUFFICES ASSUME NEW i \in DOMAIN r, r[i].wait
               PROVE  /\ r[i].type = "REC" => \E h \in HeapNos : r[i].bits = {h}
                      /\ \A j \in DOMAIN r : (r[j].wait /\ r[j].trx = r[i].trx) => i = j
    BY DEF OneWaitIn
  <2>1. \A j \in DOMAIN ls : r[j].wait => r[j].trx # l.trx BY <1>3 DEF IsWaiting
  <2>2. CASE i = n BY <1>3, <1>4, <2>1, <2>2
  <2>3. CASE i \in DOMAIN ls
    <3>1. r[i].type = "REC" => \E h \in HeapNos : r[i].bits = {h} BY <1>3, <2>3 DEF WaitsIn, OneWaitIn
    <3>2. ASSUME NEW j \in DOMAIN r, r[j].wait, r[j].trx = r[i].trx PROVE i = j
      <4>1. j \in DOMAIN ls BY <1>3, <1>4, <2>1, <2>3, <3>2
      <4> QED BY <1>3, <2>3, <3>2, <4>1 DEF WaitsIn, OneWaitIn
    <3> QED BY <3>1, <3>2
  <2> QED BY <1>3, <2>2, <2>3
<1>6. BlockedIn(r)
  <2>1. ASSUME NEW i \in DOMAIN ls, r[i].wait PROVE has_to_wait_in_queue(r, i)
    <3>1. PICK j \in 1..(i-1) : has_to_wait_for(ls[i], ls[j])
      BY <1>3, <2>1 DEF WaitsIn, BlockedIn, has_to_wait_in_queue
    <3>2. has_to_wait_for(r[i], r[j]) BY <1>3, <3>1
    <3> QED BY <3>1, <3>2 DEF has_to_wait_in_queue
  <2>2. has_to_wait_in_queue(r, n) BY <1>3, <1>4 DEF has_to_wait_in_queue
  <2> QED BY <1>3, <2>1, <2>2 DEF BlockedIn
<1>7. ASSUME NEW m, NEW i \in DOMAIN r, NEW t, NEW p, NEW mode, IntendsIn(ls, m, t, p, mode),
             m = i \/ (m = Len(ls) /\ i = n)
      PROVE  IntendsIn(r, i, t, p, mode)
  <2>1. PICK j \in DOMAIN ls :
          /\ j <= m /\ ls[j].type = "TABLE" /\ ls[j].trx = t /\ ls[j].on = TableOf[p] /\ ~ls[j].wait
          /\ mode_stronger_or_eq(ls[j].mode, IntentionMode(mode))
    BY <1>7 DEF IntendsIn
  <2>2. j <= i BY <1>3, <1>7, <2>1
  <2> QED BY <1>3, <2>1, <2>2 DEF IntendsIn
<1>8. IntentionIn(r)
  <2>1. ASSUME NEW i \in DOMAIN ls, r[i].type = "REC", TableOf[r[i].on] \in Tables
        PROVE  IntendsIn(r, i, r[i].trx, r[i].on, r[i].mode)
    <3>1. r[i] = ls[i] /\ i \in DOMAIN r BY <1>3
    <3>2. IntendsIn(ls, i, r[i].trx, r[i].on, r[i].mode) BY <2>1, <3>1 DEF WaitsIn, IntentionIn
    <3> QED BY <1>7, <3>1, <3>2
  <2>2. ASSUME l.type = "REC", TableOf[l.on] \in Tables PROVE IntendsIn(r, n, l.trx, l.on, l.mode)
    BY <1>3, <1>7, <2>2
  <2> QED BY <1>3, <1>4, <2>1, <2>2 DEF IntentionIn
<1>9. OwnersIn(r, S) BY <1>3, <1>4 DEF OwnersIn
<1>10. \A t : IsWaiting(r, t) <=> IsWaiting(ls, t) \/ t = l.trx BY <1>3, <1>4 DEF IsWaiting
<1>11. ASSUME NEW t, NEW u, t # l.trx, WaitsFor(r, t, u) PROVE WaitsFor(ls, t, u)
  <2>1. PICK i \in DOMAIN r : r[i].trx = t /\ r[i].wait /\ \E j \in 1..(i-1) : r[j].trx = u /\ has_to_wait_for(r[i], r[j])
    BY <1>11 DEF WaitsFor
  <2>2. PICK j \in 1..(i-1) : r[j].trx = u /\ has_to_wait_for(r[i], r[j]) BY <2>1
  <2>3. i \in DOMAIN ls BY <1>3, <1>4, <1>11, <2>1
  <2>4. r[i] = ls[i] /\ r[j] = ls[j] BY <1>3, <2>2, <2>3
  <2> QED BY <2>1, <2>2, <2>3, <2>4 DEF WaitsFor
<1>12. \A t, p, mode : IntendsIn(ls, Len(ls), t, p, mode) => IntendsIn(r, Len(r), t, p, mode)
  BY <1>2, <1>3, <1>7 DEF n
<1>13. r[Len(r)] = l BY <1>2, <1>4 DEF n
<1> QED BY <1>5, <1>6, <1>8, <1>9, <1>10, <1>11, <1>12, <1>13 DEF WaitsIn, r

\* A request of t is enqueued and deadlock_occurs is called.
LEMMA EnqueueWaits ==
  ASSUME LockInv, WaitInv, kernel = NoCall, UNCHANGED trxVars, rec_trx' = rec_trx,
         NEW t \in Trx, conc[t] = "ACTIVE", que[t] = "RUNNING", ~IsWaiting(locks, t),
         NEW ls, Carries(locks, ls, Begun), NEW l \in Lock, l.trx = t, l.wait,
         l.type = "REC" => \E h \in HeapNos : l.bits = {h},
         \E j \in DOMAIN ls : has_to_wait_for(l, ls[j]),
         (l.type = "REC" /\ TableOf[l.on] \in Tables) => IntendsIn(ls, Len(ls), l.trx, l.on, l.mode),
         locks' = Append(ls, l), kernel'.op \in CheckOps, kernel'.trx = t,
         (kernel'.op \in {"insert", "modify"} /\ TableOf[kernel'.page] \in Tables) =>
           IntendsIn(locks, Len(locks), t, kernel'.page, "X")
  PROVE  WaitInv'
<1>0. ls \in Seq(Lock) /\ WaitsIn(ls) /\ OwnersIn(ls, Begun) /\ ~IsWaiting(ls, t) BY DEF Carries
<1>1. conc' = conc /\ que' = que BY DEF trxVars
<1>2. Begun' = Begun /\ Sleeping' = Sleeping BY <1>1 DEF Begun, Sleeping
<1>3. t \in Begun BY DEF Begun
<1>4. /\ WaitsIn(locks') /\ OwnersIn(locks', Begun) /\ locks'[Len(locks')] = l
      /\ \A u : IsWaiting(locks', u) <=> IsWaiting(ls, u) \/ u = t
      /\ \A u, v : (u # t /\ WaitsFor(locks', u, v)) => WaitsFor(ls, u, v)
      /\ \A u, p, mode : IntendsIn(ls, Len(ls), u, p, mode) => IntendsIn(locks', Len(locks'), u, p, mode)
  BY <1>0, <1>3, AppendWaits
<1>5. /\ \A u, v : (u # t /\ WaitsFor(locks', u, v)) => WaitsFor(locks, u, v)
      /\ \A u : IsWaiting(locks', u) <=> IsWaiting(locks, u) \/ u = t
      /\ \A u, p, mode : IntendsIn(locks, Len(locks), u, p, mode) => IntendsIn(locks', Len(locks'), u, p, mode)
  BY <1>4 DEF Carries
<1>6. NoCycleIn(locks', Sleeping)
  <2>1. NoCycleIn(locks, Sleeping) BY DEF WaitInv
  <2>2. t \notin Sleeping BY DEF Sleeping
  <2>3. \A u \in Sleeping : \A v : WaitsFor(locks', u, v) => WaitsFor(locks, u, v) BY <1>5, <2>2
  <2> QED BY <2>1, <2>3, NoCycleKept
<1>7. \A p \in Pages, k \in Keys : (rec_trx'[p][k] \in Trx /\ TableOf[p] \in Tables) =>
        IntendsIn(locks', Len(locks'), rec_trx'[p][k], p, "X")
  BY <1>5 DEF WaitInv, WriterIntends
<1>8. (kernel'.op \in {"insert", "modify"} /\ TableOf[kernel'.page] \in Tables) =>
        IntendsIn(locks', Len(locks'), kernel'.trx, kernel'.page, "X")
  BY <1>5
<1>9. kernel.op \notin CheckOps BY DEF NoCall, Call, CheckOps
<1>10. ASSUME NEW u \in Trx
       PROVE  LET checking == kernel'.op \in CheckOps /\ kernel'.trx = u
              IN  /\ que'[u] = "LOCK_WAIT" => IsWaiting(locks', u)
                  /\ IsWaiting(locks', u) => que'[u] = "LOCK_WAIT" \/ checking
                  /\ checking => conc'[u] = "ACTIVE" /\ que'[u] = "RUNNING"
                  /\ conc'[u] # "ACTIVE" => que'[u] = "RUNNING"
                  /\ (checking /\ IsWaiting(locks', u)) =>
                       locks'[Len(locks')].trx = u /\ locks'[Len(locks')].wait
  <2>1. /\ que[u] = "LOCK_WAIT" => IsWaiting(locks, u)
        /\ IsWaiting(locks, u) => que[u] = "LOCK_WAIT"
        /\ conc[u] # "ACTIVE" => que[u] = "RUNNING"
    BY <1>9 DEF WaitInv, WaitStates, Checking, CheckOps
  <2> QED BY <1>1, <1>4, <1>5, <2>1
<1> QED BY <1>2, <1>4, <1>6, <1>7, <1>8, <1>10, WaitInvNext

\* The waiting request has to wait for every lock that is in its way.
LEMMA ConflictWaits ==
  ASSUME NEW t, NEW p, NEW req, NEW h, NEW b, OnRec(b, p, h), rec_blocks(b, t, req, h)
  PROVE  has_to_wait_for(NewRecLock(t, p, req, h, TRUE), b)
<1> DEFINE l == NewRecLock(t, p, req, h, TRUE)
<1>1. /\ l.type = "REC" /\ l.trx = t /\ l.on = p /\ l.mode = req.mode /\ l.bits = {h} /\ l.ins = req.ins
      /\ l.gap = StoredGap(req, h)
  BY DEF NewRecLock
<1> HIDE DEF l
<1>2. rec_blocks(b, l.trx, l, h)
  <2>1. CASE h = PAGE_HEAP_NO_SUPREMUM
    <3>1. l.gap = "ORDINARY" BY <1>1, <2>1 DEF StoredGap
    <3> QED BY <1>1, <2>1, <3>1 DEF rec_blocks
  <2>2. CASE h # PAGE_HEAP_NO_SUPREMUM
    <3>1. l.gap = req.gap BY <1>1, <2>2 DEF StoredGap
    <3> QED BY <1>1, <3>1 DEF rec_blocks
  <2> QED BY <2>1, <2>2
<1>3. h \in l.bits \cap b.bits /\ l.on = b.on BY <1>1 DEF OnRec
<1>4. l.trx # b.trx /\ ~mode_compatible(l.mode, b.mode) BY <1>2 DEF rec_blocks
<1>5. has_to_wait_for(l, b) BY <1>2, <1>3, <1>4 DEF has_to_wait_for
<1> QED BY <1>5 DEF l

\* A conflicting lock that rec_other_has_conflicting found is one to wait for.
LEMMA ConflictIsAhead ==
  ASSUME NEW ls \in Seq(Lock), NEW t \in Trx, NEW p \in Pages, NEW req \in Requests, NEW h \in HeapNos,
         rec_other_has_conflicting(ls, p, req, h, t)
  PROVE  \E j \in DOMAIN ls : has_to_wait_for(NewRecLock(t, p, req, h, TRUE), ls[j])
<1>1. PICK j \in DOMAIN ls : OnRec(ls[j], p, h) /\ rec_blocks(ls[j], t, req, h)
  BY DEF rec_other_has_conflicting
<1> QED BY <1>1, ConflictWaits

\* rec_enqueue_waiting.
LEMMA RecEnqueueWaits ==
  ASSUME LockInv, WaitInv, NEW t \in Trx, CanRequest(t), NEW ls, Carries(locks, ls, Begun),
         NEW p \in Pages, NEW req \in Requests, NEW h \in HeapNos, NEW call,
         rec_enqueue_waiting(ls, t, p, req, h, call), rec_other_has_conflicting(ls, p, req, h, t),
         TableOf[p] \in Tables => IntendsIn(locks, Len(locks), t, p, req.mode),
         call.op \in CheckOps, call.trx = t,
         call.op \in {"insert", "modify"} => call.page = p /\ req.mode = "X"
  PROVE  WaitInv'
<1> DEFINE l == NewRecLock(t, p, req, h, TRUE)
<1>1. /\ l \in Lock /\ l.type = "REC" /\ l.trx = t /\ l.on = p /\ l.mode = req.mode /\ l.bits = {h} /\ l.wait
  BY NewRecLockType DEF NewRecLock
<1>2. ls \in Seq(Lock) BY DEF Carries
<1>3. \E j \in DOMAIN ls : has_to_wait_for(l, ls[j]) BY <1>2, ConflictIsAhead
<1>4. /\ locks' = Append(ls, l) /\ kernel' = call /\ UNCHANGED trxVars /\ rec_trx' = rec_trx
  BY DEF rec_enqueue_waiting, rec_create_low, rowVars
<1> HIDE DEF l
<1>5. conc[t] = "ACTIVE" /\ que[t] = "RUNNING" /\ ~IsWaiting(locks, t) BY RequestIntends
<1>6. TableOf[p] \in Tables => IntendsIn(ls, Len(ls), t, p, req.mode) BY DEF Carries
<1>7. kernel = NoCall BY DEF CanRequest
<1> QED BY <1>1, <1>3, <1>4, <1>5, <1>6, <1>7, EnqueueWaits

\* Outside deadlock_occurs whoever waits is asleep.
LEMMA IdleSleep ==
  ASSUME WaitInv, kernel = NoCall
  PROVE  \A t \in Trx : IsWaiting(locks, t) => que[t] = "LOCK_WAIT"
BY DEF WaitInv, WaitStates, Checking, NoCall, Call

\* lock_table.
LEMMA TableWaitAction ==
  ASSUME LockInv, WaitInv, NEW t \in Trx, NEW tab \in Tables, NEW mode \in TableModes, lock_table(t, tab, mode)
  PROVE  WaitInv'
<1> DEFINE lk(w) == [trx |-> t, type |-> "TABLE", on |-> tab, mode |-> mode, gap |-> "ORDINARY",
                     ins |-> FALSE, wait |-> w, bits |-> {}]
<1>0. locks \in Seq(Lock) /\ WaitsIn(locks) /\ OwnersIn(locks, Begun) BY DEF LockInv, TypeOK, WaitInv
<1>1. /\ UNCHANGED trxVars /\ rec_trx' = rec_trx /\ kernel = NoCall /\ CanRequest(t)
  BY DEF lock_table, rowVars, CanRequest
<1>2. t \in Begun /\ conc[t] = "ACTIVE" /\ que[t] = "RUNNING" /\ ~IsWaiting(locks, t) BY <1>1, RequestIntends
<1>3. Carries(locks, locks, Begun) BY <1>0, CarriesOn
<1>4. CASE /\ table_other_has_incompatible(locks, t, tab, mode)
           /\ locks' = table_create(locks, t, tab, mode, TRUE)
           /\ kernel' = Call("lock", t, NoTable, 0, "absent", 0)
  <2> DEFINE l == lk(TRUE)
  <2>1. /\ l \in Lock /\ l.type = "TABLE" /\ l.trx = t /\ l.on = tab /\ l.mode = mode /\ l.wait
    BY DEF Lock, GapModes
  <2>2. locks' = Append(locks, l) BY <1>4 DEF table_create
  <2> HIDE DEF l
  <2>3. PICK j \in DOMAIN locks : /\ locks[j].type = "TABLE" /\ locks[j].on = tab /\ locks[j].trx # t
                                 /\ ~mode_compatible(locks[j].mode, mode)
    BY <1>4 DEF table_other_has_incompatible
  <2>4. has_to_wait_for(l, locks[j]) BY <2>1, <2>3, CompatSym DEF has_to_wait_for
  <2>5. /\ kernel'.op \in CheckOps /\ kernel'.trx = t /\ kernel'.op \notin {"insert", "modify"}
    BY <1>4 DEF Call, CheckOps
  <2> QED BY <1>1, <1>2, <1>3, <2>1, <2>2, <2>4, <2>5, EnqueueWaits
<1>5. CASE /\ locks' = table_create(locks, t, tab, mode, FALSE) /\ UNCHANGED kernel
  <2> DEFINE l == lk(FALSE)
  <2>1. /\ l \in Lock /\ l.type = "TABLE" /\ l.trx = t /\ ~l.wait
    BY DEF Lock, GapModes
  <2>2. locks' = Append(locks, l) BY <1>5 DEF table_create
  <2> HIDE DEF l
  <2>3. Grown(locks, locks', Begun) BY <1>0, <1>2, <2>1, <2>2, AppendGrows
  <2>4. Carries(locks, locks', Begun) BY <1>0, <2>3, GrownCarries
  <2>5. kernel'.op \notin CheckOps BY <1>1, <1>5 DEF NoCall, Call, CheckOps
  <2>6. \A p \in Pages, k \in Keys : (rec_trx'[p][k] \in Trx /\ TableOf[p] \in Tables) =>
          IntendsIn(locks, Len(locks), rec_trx'[p][k], p, "X")
    BY <1>1 DEF WaitInv, WriterIntends
  <2>7. \A u \in Trx : IsWaiting(locks, u) => que[u] = "LOCK_WAIT" BY <1>1, IdleSleep
  <2> QED BY <1>1, <2>4, <2>5, <2>6, <2>7, GrantedStep
<1> QED BY <1>4, <1>5 DEF lock_table

\* rec_lock for a locking read or for a modification.
LEMMA RecLockWaitStep ==
  ASSUME LockInv, WaitInv, NEW t \in Trx, CanRequest(t), NEW ls, Carries(locks, ls, Begun),
         NEW impl \in BOOLEAN, NEW p \in Pages, NEW req \in Requests, NEW h \in HeapNos, NEW call,
         rec_lock(ls, impl, t, p, req, h, call),
         TableOf[p] \in Tables => IntendsIn(locks, Len(locks), t, p, req.mode),
         call.op \in {"lock", "modify"}, call.trx = t,
         call.op = "modify" => call.page = p /\ req.mode = "X" /\ h \in Keys
  PROVE  WaitInv'
<1>0. kernel = NoCall /\ kernel.op \notin CheckOps BY DEF CanRequest, NoCall, Call, CheckOps
<1>1. \A u \in Trx : IsWaiting(locks, u) => que[u] = "LOCK_WAIT" BY <1>0, IdleSleep
<1>2. t \in Begun BY RequestIntends
<1>3. ls \in Seq(Lock) /\ WaitsIn(ls) /\ OwnersIn(ls, Begun)
      /\ (TableOf[p] \in Tables => IntendsIn(ls, Len(ls), t, p, req.mode))
  BY DEF Carries
<1>4. ASSUME NEW r, Succeed(r, call.op, t, p, h, call.to), UNCHANGED <<trxVars, kernel>>,
             \/ rec_lock_fast(ls, t, p, req, h) /\ r = RecLockFast(ls, impl, t, p, req, h)
             \/ ~RecLockWaits(ls, t, p, req, h) /\ r = RecLockSlow(ls, impl, t, p, req, h)
      PROVE  WaitInv'
  <2>1. Carries(ls, r, Begun) BY <1>2, <1>3, <1>4, RecLockCarries
  <2>2. Carries(locks, r, Begun) BY <2>1, CarriesOn
  <2>3. kernel'.op \notin CheckOps BY <1>0, <1>4
  <2>4. UNCHANGED trxVars BY <1>4
  <2> QED BY <1>1, <1>4, <2>2, <2>3, <2>4, SucceedStep
<1>5. CASE RecLockWaits(ls, t, p, req, h) /\ rec_enqueue_waiting(ls, t, p, req, h, call)
  <2>1. rec_other_has_conflicting(ls, p, req, h, t) BY <1>5 DEF RecLockWaits
  <2>2. call.op \in CheckOps BY DEF CheckOps
  <2> QED BY <1>5, <2>1, <2>2, RecEnqueueWaits
<1> QED BY <1>4, <1>5 DEF rec_lock

\* Locking reads.
LEMMA ReadWaitAction ==
  ASSUME LockInv, WaitInv, NEW t \in Trx, NEW p \in Pages, NEW h \in HeapNos \ {PAGE_HEAP_NO_INFIMUM},
         NEW mode \in RecModes, NEW gap \in GapModes, clust_rec_read_check_and_lock(t, p, h, mode, gap)
  PROVE  WaitInv'
<1> DEFINE req == Request(mode, gap, FALSE)
           ls == IF h = PAGE_HEAP_NO_SUPREMUM THEN locks ELSE rec_convert_impl_to_expl(locks, p, h)
           call == Call("lock", t, p, h, "absent", 0)
<1>1. req \in Requests /\ req.mode = mode BY RequestType DEF Request
<1>2. h = PAGE_HEAP_NO_SUPREMUM \/ h \in Keys BY DEF clust_rec_read_check_and_lock, Present
<1>3. Carries(locks, ls, Begun)
  <2>1. CASE h = PAGE_HEAP_NO_SUPREMUM
    <3>1. Carries(locks, locks, Begun) BY CarriesOn DEF LockInv, TypeOK, WaitInv
    <3> QED BY <2>1, <3>1
  <2>2. CASE h # PAGE_HEAP_NO_SUPREMUM
    <3>1. ls = rec_convert_impl_to_expl(locks, p, h) BY <2>2
    <3> HIDE DEF ls
    <3> QED BY <1>2, <2>2, <3>1, ConvertCarries
  <2> QED BY <2>1, <2>2
<1>4. rec_lock(ls, FALSE, t, p, req, h, call) /\ CanRequest(t) /\ IntentionHeld(t, p, IntentionMode(mode))
  BY DEF clust_rec_read_check_and_lock, IntentionMode
<1>5. call.op = "lock" /\ call.trx = t BY DEF Call
<1> HIDE DEF req, ls, call
<1>6. TableOf[p] \in Tables => IntendsIn(locks, Len(locks), t, p, req.mode) BY <1>1, <1>4, RequestIntends
<1> QED BY <1>1, <1>3, <1>4, <1>5, <1>6, RecLockWaitStep

\* Modifications.
LEMMA ModifyWaitAction ==
  ASSUME LockInv, WaitInv, NEW t \in Trx, NEW p \in Pages, NEW k \in Keys, NEW to \in {"live", "marked"},
         clust_rec_modify_check_and_lock(t, p, k, to)
  PROVE  WaitInv'
<1> DEFINE req == Request("X", "REC_NOT_GAP", FALSE)
           ls == rec_convert_impl_to_expl(locks, p, k)
           call == Call("modify", t, p, k, to, 0)
<1>1. req \in Requests /\ req.mode = "X" BY RequestType DEF Request
<1>2. IntentionMode("X") = "IX" BY DEF IntentionMode
<1>3. rec_lock(ls, TRUE, t, p, req, k, call) /\ CanRequest(t) /\ IntentionHeld(t, p, IntentionMode("X"))
  BY <1>2 DEF clust_rec_modify_check_and_lock
<1>4. call.op = "modify" /\ call.trx = t /\ call.page = p BY DEF Call
<1>5. Carries(locks, ls, Begun) BY ConvertCarries
<1> HIDE DEF req, ls, call
<1>6. TableOf[p] \in Tables => IntendsIn(locks, Len(locks), t, p, req.mode) BY <1>1, <1>3, RequestIntends
<1> QED BY <1>1, <1>3, <1>4, <1>5, <1>6, KeyIs, RecLockWaitStep

\* Inserts.
LEMMA InsertWaitAction ==
  ASSUME LockInv, WaitInv, NEW t \in Trx, NEW p \in Pages, NEW k \in Keys, rec_insert_check_and_lock(t, p, k)
  PROVE  WaitInv'
<1> DEFINE req == Request("X", "GAP", TRUE)
           next == NextRec(p, k)
           call == Call("insert", t, p, k, "live", 0)
<1>1. req \in Requests /\ req.mode = "X" BY RequestType DEF Request
<1>2. IntentionMode("X") = "IX" BY DEF IntentionMode
<1>3. CanRequest(t) /\ IntentionHeld(t, p, IntentionMode("X")) /\ kernel = NoCall
  BY <1>2 DEF rec_insert_check_and_lock, CanRequest
<1>4. TableOf[p] \in Tables => IntendsIn(locks, Len(locks), t, p, "X") BY <1>3, RequestIntends
<1>5. Carries(locks, locks, Begun) BY CarriesOn DEF LockInv, TypeOK, WaitInv
<1>6. CASE /\ Succeed(locks, "insert", t, p, k, "live") /\ UNCHANGED <<trxVars, kernel>>
  <2>1. UNCHANGED trxVars /\ kernel'.op \notin CheckOps BY <1>3, <1>6 DEF NoCall, Call, CheckOps
  <2>2. \A u \in Trx : IsWaiting(locks, u) => que[u] = "LOCK_WAIT" BY <1>3, IdleSleep
  <2> QED BY <1>4, <1>5, <1>6, <2>1, <2>2, SucceedStep
<1>7. CASE /\ rec_other_has_conflicting(locks, p, req, next, t)
           /\ rec_enqueue_waiting(locks, t, p, req, next, call)
  <2>1. call.op = "insert" /\ call.op \in CheckOps /\ call.trx = t /\ call.page = p BY DEF Call, CheckOps
  <2>2. next \in HeapNos BY NextRecIs
  <2> HIDE DEF req, next, call
  <2> QED BY <1>1, <1>3, <1>4, <1>5, <1>7, <2>1, <2>2, RecEnqueueWaits
<1> QED BY <1>6, <1>7 DEF rec_insert_check_and_lock

-----------------------------------------------------------------------------
(* The answers of deadlock_occurs.                                         *)

\* The newest request stays the newest when a request of another is cancelled.
LEMMA NewestSurvives ==
  ASSUME NEW ls \in Seq(Lock), NEW i \in DOMAIN ls, OneWaitIn(ls), NEW t, ls[i].trx # t,
         ls[Len(ls)].trx = t, ls[Len(ls)].wait, IsWaiting(Grant(Remove(ls, i), Revisited(ls, i)), t)
  PROVE  LET r == Grant(Remove(ls, i), Revisited(ls, i))
         IN  r[Len(r)].trx = t /\ r[Len(r)].wait
<1> DEFINE q == Remove(ls, i)
           r == Grant(q, Revisited(ls, i))
           n == Len(ls)
<1>1. /\ q \in Seq(Lock) /\ Len(q) = n - 1 /\ n \in Nat /\ DOMAIN ls = 1..n /\ i \in 1..n
  BY RemoveType, SeqIsFcn
<1>2. \A b \in DOMAIN q : Unshift(i, b) \in DOMAIN ls /\ q[b] = ls[Unshift(i, b)] /\ Shift(i, Unshift(i, b)) = b
  BY RemoveIs
<1>3. Shrunk(q, r) BY <1>1, GrantShrinks DEF Revisited
<1>4. i < n BY <1>1
<1> HIDE DEF q, r
<1>5. PICK j \in DOMAIN r : r[j].trx = t /\ r[j].wait BY DEF IsWaiting, r, q
<1>6. Len(r) = Len(q) /\ DOMAIN r = 1..Len(r) /\ DOMAIN q = 1..Len(q) BY <1>1, <1>3, SeqIsFcn DEF Shrunk
<1>7. q[j].trx = t /\ q[j].wait BY <1>3, <1>5, <1>6 DEF Shrunk, Alike
<1>8. Unshift(i, j) = n
  <2>1. n \in DOMAIN ls BY <1>1, <1>4
  <2>2. ls[Unshift(i, j)].trx = t /\ ls[Unshift(i, j)].wait /\ Unshift(i, j) \in DOMAIN ls
    BY <1>2, <1>5, <1>6, <1>7
  <2> QED BY <2>1, <2>2 DEF OneWaitIn
<1>9. j = Shift(i, n) BY <1>2, <1>5, <1>6, <1>8
<1>10. j = Len(r) BY <1>1, <1>4, <1>6, <1>9 DEF Shift
<1> QED BY <1>5, <1>10 DEF r, q

\* LOCK_VICTIM_IS_OTHER: the victim's wait is cancelled and the search repeated.
LEMMA VictimWaitAction ==
  ASSUME LockInv, WaitInv, NEW t \in Trx, NEW v \in Trx, VictimIsOther(t, v)
  PROVE  WaitInv'
<1> DEFINE i == WaitLock(v)
           r == Grant(Remove(locks, i), Revisited(locks, i))
           done == Granted(Remove(locks, i), Revisited(locks, i))
           D == done \cup {v}
<1>0. locks \in Seq(Lock) /\ WaitsIn(locks) /\ OneWaitIn(locks) BY DEF LockInv, TypeOK, WaitInv, WaitsIn
<1>1. /\ i \in DOMAIN locks /\ locks[i].wait /\ locks[i].trx = v
      /\ v # t /\ IsWaiting(locks, t) /\ Checking(t)
  BY WaitLockIs, SearchedWait DEF VictimIsOther
<1>2. /\ kernel' = kernel /\ conc' = conc /\ rec_trx' = rec_trx /\ cancel_waiting_and_release(i)
  BY DEF VictimIsOther, Choose, rowVars
<1> HIDE DEF i
<1>3. locks' = r /\ que' = end_lock_wait(D) BY <1>1, <1>2 DEF cancel_waiting_and_release
<1>4. /\ WaitsIn(r) /\ Calmer(locks, r)
      /\ \A u : IsWaiting(locks, u) => IsWaiting(r, u) \/ u \in done \/ u = v
      /\ \A u \in done : ~IsWaiting(r, u)
      /\ ~IsWaiting(r, v)
      /\ \A u, p, mode : IntendsIn(locks, Len(locks), u, p, mode) => IntendsIn(r, Len(r), u, p, mode)
  BY <1>0, <1>1, DequeueWaits
<1>5. IsWaiting(r, t) => r[Len(r)].trx = t /\ r[Len(r)].wait
  <2>1. locks[Len(locks)].trx = t /\ locks[Len(locks)].wait BY <1>1 DEF WaitInv, NewestRequest
  <2> QED BY <1>0, <1>1, <2>1, NewestSurvives
<1>d. \A u : u \in D <=> u \in done \/ u = v OBVIOUS
<1> HIDE DEF r, done, D
<1>6. /\ \A u \in Trx : que'[u] = "LOCK_WAIT" <=> que[u] = "LOCK_WAIT" /\ u \notin D
      /\ \A u \in Trx : conc'[u] # "ACTIVE" => que'[u] = "RUNNING"
      /\ \A u \in Trx : que[u] = "RUNNING" => que'[u] = "RUNNING"
  BY <1>2, <1>3, EndLockWait
<1>7. \A u \in Trx : IsWaiting(locks', u) <=> IsWaiting(locks, u) /\ u \notin D
  BY <1>d, <1>3, <1>4 DEF Calmer
<1>8. OwnersIn(locks', Begun')
  <2>1. Begun' = Begun BY <1>2 DEF Begun
  <2> QED BY <1>3, <1>4, <2>1 DEF Calmer, WaitInv
<1>9. \A p \in Pages, k \in Keys : (rec_trx'[p][k] \in Trx /\ TableOf[p] \in Tables) =>
        IntendsIn(locks', Len(locks'), rec_trx'[p][k], p, "X")
  BY <1>2, <1>3, <1>4, WritersKept
<1>10. (kernel'.op \in {"insert", "modify"} /\ TableOf[kernel'.page] \in Tables) =>
         IntendsIn(locks', Len(locks'), kernel'.trx, kernel'.page, "X")
  BY <1>2, <1>3, <1>4 DEF WaitInv, WriterIntends
<1>11. ASSUME NEW u \in Trx
       PROVE  LET checking == kernel'.op \in CheckOps /\ kernel'.trx = u
              IN  /\ que'[u] = "LOCK_WAIT" => IsWaiting(locks', u)
                  /\ IsWaiting(locks', u) => que'[u] = "LOCK_WAIT" \/ checking
                  /\ checking => conc'[u] = "ACTIVE" /\ que'[u] = "RUNNING"
                  /\ conc'[u] # "ACTIVE" => que'[u] = "RUNNING"
                  /\ (checking /\ IsWaiting(locks', u)) =>
                       locks'[Len(locks')].trx = u /\ locks'[Len(locks')].wait
  <2>1. /\ que[u] = "LOCK_WAIT" => IsWaiting(locks, u)
        /\ IsWaiting(locks, u) => que[u] = "LOCK_WAIT" \/ Checking(u)
        /\ Checking(u) => conc[u] = "ACTIVE" /\ que[u] = "RUNNING"
    BY DEF WaitInv, WaitStates
  <2>2. kernel'.op \in CheckOps /\ kernel'.trx = t BY <1>1, <1>2 DEF Checking, CheckOps
  <2>3. Checking(u) <=> u = t BY <1>1 DEF Checking
  <2> QED BY <1>2, <1>3, <1>5, <1>6, <1>7, <2>1, <2>2, <2>3
<1>12. NoCycleIn(locks', Sleeping')
  <2>1. NoCycleIn(locks, Sleeping) BY DEF WaitInv
  <2> DEFINE S == Sleeping'
  <2>2. S \subseteq Sleeping BY <1>6 DEF Sleeping
  <2> HIDE DEF S
  <2>3. \A u \in S : \A w : WaitsFor(locks', u, w) => WaitsFor(locks, u, w) BY <1>3, <1>4 DEF Calmer
  <2>4. NoCycleIn(locks', S) BY <2>1, <2>2, <2>3, NoCycleKept
  <2> QED BY <2>4 DEF S
<1>13. WaitsIn(locks') BY <1>3, <1>4
<1> QED BY <1>8, <1>9, <1>10, <1>11, <1>12, <1>13, WaitInvNext

\* The request that deadlock_occurs was called for, while it still waits.
LEMMA NewestIs ==
  ASSUME LockInv, WaitInv, NEW t \in Trx, Checking(t), IsWaiting(locks, t)
  PROVE  WaitLock(t) = Len(locks) /\ Len(locks) \in DOMAIN locks
<1>1. WaitLock(t) \in DOMAIN locks /\ locks[WaitLock(t)].trx = t /\ locks[WaitLock(t)].wait BY WaitLockIs
<1>2. DOMAIN locks = 1..Len(locks) /\ Len(locks) \in Nat BY SeqIsFcn DEF LockInv, TypeOK
<1>3. Len(locks) \in DOMAIN locks BY <1>1, <1>2
<1>4. locks[Len(locks)].trx = t /\ locks[Len(locks)].wait BY DEF WaitInv, NewestRequest
<1> QED BY <1>1, <1>3, <1>4 DEF WaitInv, WaitsIn, OneWaitIn

\* The refused request: VictimIsStart and ExceedMaxDepth.
LEMMA RefuseWaitActions ==
  ASSUME LockInv, WaitInv, NEW t \in Trx, VictimIsStart(t) \/ ExceedMaxDepth(t)
  PROVE  WaitInv'
<1> DEFINE n == Len(locks)
           D == {t}
<1>0. locks \in Seq(Lock) /\ WaitsIn(locks) BY DEF LockInv, TypeOK, WaitInv
<1>1. Refuse(t) /\ IsWaiting(locks, t) /\ Checking(t)
  BY SearchedWait DEF VictimIsStart, ExceedMaxDepth
<1>2. WaitLock(t) = n /\ n \in DOMAIN locks /\ locks[n].trx = t /\ locks[n].wait
  BY <1>1, NewestIs, WaitLockIs
<1>3. n \in Nat /\ DOMAIN locks = 1..n /\ \A i \in DOMAIN locks : locks[i] \in Lock BY <1>0, SeqIsFcn
<1>4. /\ kernel' = NoCall /\ conc' = conc /\ que' = que /\ rec_trx' = rec_trx
      /\ locks' = IF locks[n].type = "TABLE" THEN Remove(locks, n)
                  ELSE [locks EXCEPT ![n] = [@ EXCEPT !.wait = FALSE, !.bits = {}]]
  BY <1>1, <1>2 DEF Refuse, rowVars
<1>5. /\ WaitsIn(locks') /\ Calmer(locks, locks') /\ ~IsWaiting(locks', t)
      /\ \A u : IsWaiting(locks, u) => IsWaiting(locks', u) \/ u = t
      /\ \A u, p, mode : IntendsIn(locks, Len(locks), u, p, mode) => IntendsIn(locks', Len(locks'), u, p, mode)
  <2>1. CASE locks[n].type = "TABLE"
    <3> DEFINE r == Remove(locks, n)
    <3>1. /\ Calmer(locks, r) /\ IntentionIn(r)
          /\ \A b \in DOMAIN r : r[b].wait => b \in Revisited(locks, n) \/ has_to_wait_in_queue(r, b)
          /\ \A u : IsWaiting(locks, u) => IsWaiting(r, u) \/ u = t
          /\ ~IsWaiting(r, t)
          /\ \A u, p, mode : IntendsIn(locks, Len(locks), u, p, mode) => IntendsIn(r, Len(r), u, p, mode)
      BY <1>0, <1>2, RemoveWaits
    <3>2. DOMAIN r = 1..(n - 1) BY <1>0, <1>2, <1>3, RemoveType, SeqIsFcn
    <3>3. \A b \in Revisited(locks, n) : b \in DOMAIN r /\ b >= n BY <2>1 DEF Revisited
    <3>4. locks' = r BY <1>4, <2>1
    <3> HIDE DEF r
    <3>5. \A b \in DOMAIN r : b \notin Revisited(locks, n) BY <1>3, <3>2, <3>3
    <3>6. BlockedIn(r) BY <3>1, <3>5 DEF BlockedIn
    <3>7. OneWaitIn(r) BY <1>0, <3>1 DEF Calmer, WaitsIn
    <3> QED BY <3>1, <3>4, <3>6, <3>7 DEF WaitsIn
  <2>2. CASE locks[n].type # "TABLE"
    <3> DEFINE r == [locks EXCEPT ![n] = [@ EXCEPT !.wait = FALSE, !.bits = {}]]
    <3>1. /\ DOMAIN r = DOMAIN locks /\ \A j \in DOMAIN locks : j # n => r[j] = locks[j]
          /\ r[n] = [locks[n] EXCEPT !.wait = FALSE, !.bits = {}]
      BY <1>2
    <3>2. /\ r[n] \in Lock /\ Alike(locks[n], r[n]) /\ ~r[n].wait /\ r[n].bits = {}
      BY <1>2, <1>3, <3>1 DEF Lock, Alike
    <3>3. r \in Seq(Lock) /\ Len(r) = n
      <4>1. \A j \in DOMAIN locks : r[j] \in Lock BY <1>3, <3>1, <3>2
      <4>2. r \in [1..n -> Lock] BY <1>3, <4>1
      <4> HIDE DEF r, n
      <4> QED BY <1>3, <4>2, SeqOfFcn
    <3>4. locks' = r BY <1>4, <2>2
    <3> HIDE DEF r, n
    <3>5. \A j \in DOMAIN locks : j # n => r[j] = locks[j] /\ Alike(locks[j], r[j]) BY <3>1 DEF Alike
    <3>6. Shrunk(locks, r) BY <1>0, <3>2, <3>3, <3>5 DEF Shrunk, n
    <3>7. /\ Calmer(locks, r) /\ IntentionIn(r)
          /\ \A m, u, p, mode : IntendsIn(locks, m, u, p, mode) => IntendsIn(r, m, u, p, mode)
      BY <1>0, <3>6, ShrunkCalmer DEF WaitsIn
    <3>8. BlockedIn(r)
      <4> SUFFICES ASSUME NEW j \in DOMAIN r, r[j].wait PROVE has_to_wait_in_queue(r, j) BY DEF BlockedIn
      <4>1. j # n /\ j \in DOMAIN locks /\ r[j] = locks[j] BY <3>1, <3>2
      <4>2. PICK a \in 1..(j-1) : has_to_wait_for(locks[j], locks[a])
        BY <1>0, <4>1 DEF WaitsIn, BlockedIn, has_to_wait_in_queue
      <4>3. a # n /\ a \in DOMAIN locks BY <1>3, <4>1, <4>2
      <4>4. has_to_wait_for(r[j], r[a]) BY <3>1, <4>1, <4>2, <4>3
      <4> QED BY <4>2, <4>4 DEF has_to_wait_in_queue
    <3>9. WaitsIn(r) BY <1>0, <3>7, <3>8 DEF Calmer, WaitsIn
    <3>10. ~IsWaiting(r, t)
      <4> SUFFICES ASSUME NEW j \in DOMAIN r, r[j].trx = t, r[j].wait PROVE FALSE BY DEF IsWaiting
      <4>1. j # n /\ j \in DOMAIN locks /\ r[j] = locks[j] BY <3>1, <3>2
      <4> QED BY <1>0, <1>2, <4>1 DEF WaitsIn, OneWaitIn
    <3>11. ASSUME NEW u, IsWaiting(locks, u) PROVE IsWaiting(r, u) \/ u = t
      <4>1. PICK j \in DOMAIN locks : locks[j].trx = u /\ locks[j].wait BY <3>11 DEF IsWaiting
      <4> QED BY <1>2, <3>1, <4>1 DEF IsWaiting
    <3> QED BY <3>3, <3>4, <3>7, <3>9, <3>10, <3>11 DEF n
  <2> QED BY <2>1, <2>2
<1>6. \A u : u \in D <=> u = t OBVIOUS
<1> HIDE DEF D, n
<1>7. \A u \in Trx :
        /\ que[u] = "LOCK_WAIT" => u # t
        /\ (IsWaiting(locks, u) /\ u # t) => que[u] = "LOCK_WAIT"
        /\ conc[u] # "ACTIVE" => que[u] = "RUNNING"
  BY <1>1 DEF WaitInv, WaitStates, Checking
<1>8. OwnersIn(locks', Begun')
  <2>1. Begun' = Begun BY <1>4 DEF Begun
  <2> QED BY <1>5, <2>1 DEF Calmer, WaitInv
<1>9. \A p \in Pages, k \in Keys : (rec_trx'[p][k] \in Trx /\ TableOf[p] \in Tables) =>
        IntendsIn(locks', Len(locks'), rec_trx'[p][k], p, "X")
  BY <1>4, <1>5, WritersKept
<1>10. kernel'.op \notin CheckOps BY <1>4 DEF NoCall, Call, CheckOps
<1>11. /\ \A u \in Trx : (IsWaiting(locks, u) /\ u \notin D) => que[u] = "LOCK_WAIT"
       /\ \A u \in Trx : IsWaiting(locks', u) <=> IsWaiting(locks, u) /\ u \notin D
       /\ \A u \in Trx : que'[u] = "LOCK_WAIT" <=> que[u] = "LOCK_WAIT" /\ u \notin D
       /\ \A u \in Trx : conc'[u] # "ACTIVE" => que'[u] = "RUNNING"
  BY <1>4, <1>5, <1>6, <1>7 DEF Calmer
<1>12. WaitsIn(locks') /\ \A u, w : WaitsFor(locks', u, w) => WaitsFor(locks, u, w) BY <1>5 DEF Calmer
<1> QED BY <1>8, <1>9, <1>10, <1>11, <1>12, EndStep

\* A cycle that the search did not find is not there: were t, the transaction that
\* now goes to sleep, on a cycle of sleepers, the part of it that the search can
\* enter would be a cycle without t.
LEMMA SleepMakesNoCycle ==
  ASSUME NEW t \in Trx, Closers(t) = {}, NoCycleIn(locks, Sleeping)
  PROVE  NoCycleIn(locks, Sleeping \cup {t})
<1> SUFFICES ASSUME NEW C \in SUBSET (Sleeping \cup {t}), C # {}, \A u \in C : \E w \in C : WaitsFor(locks, u, w)
             PROVE  FALSE
  BY DEF NoCycleIn
<1>1. CASE t \notin C
  <2>1. C \in SUBSET Sleeping BY <1>1
  <2> QED BY <2>1 DEF NoCycleIn
<1>2. CASE t \in C
  <2> DEFINE E == {u \in C : u \in Searched(t) /\ u # t}
  <2>1. \A u, w : WaitsFor(locks, u, w) => u # w BY DEF WaitsFor, has_to_wait_for
  <2>2. t \in Searched(t) BY DEF Searched
  <2>3. \A u \in C : u # t => u \in Trx /\ que[u] = "LOCK_WAIT" BY DEF Sleeping
  <2>4. ASSUME NEW u \in Searched(t), NEW w \in Trx, WaitsFor(locks, u, w), que[w] = "LOCK_WAIT"
        PROVE  w \in Searched(t)
    BY <2>4 DEF Searched
  <2>5. ASSUME NEW u \in Searched(t), NEW w \in C, w # t, WaitsFor(locks, u, w) PROVE w \in E
    <3>1. w \in Searched(t) BY <2>3, <2>4, <2>5
    <3> QED BY <2>5, <3>1
  <2>6. E # {}
    <3>1. PICK w \in C : WaitsFor(locks, t, w) BY <1>2
    <3>2. w # t BY <2>1, <3>1
    <3>3. w \in E BY <2>2, <2>5, <3>1, <3>2
    <3> QED BY <3>3
  <2>7. ASSUME NEW u \in E PROVE \E w \in E : WaitsFor(locks, u, w)
    <3>1. PICK w \in C : WaitsFor(locks, u, w) OBVIOUS
    <3>2. w # t BY <3>1 DEF Closers
    <3>3. w \in E BY <2>5, <3>1, <3>2
    <3> QED BY <3>1, <3>3
  <2>8. E \in SUBSET Sleeping OBVIOUS
  <2> HIDE DEF E
  <2> QED BY <2>6, <2>7, <2>8 DEF NoCycleIn
<1> QED BY <1>1, <1>2

\* deadlock_occurs finds nothing: the caller sleeps, or goes on because its request
\* was granted meanwhile.
LEMMA NoDeadlockWaitAction ==
  ASSUME LockInv, WaitInv, NEW t \in Trx, NoDeadlock(t)
  PROVE  WaitInv'
<1>1. /\ Checking(t) /\ kernel.trx = t /\ kernel.op \in CheckOps /\ kernel' = NoCall /\ Closers(t) = {}
  BY DEF NoDeadlock, NotRefused, Checking, CheckOps
<1>2. kernel'.op \notin CheckOps /\ kernel'.op \notin {"insert", "modify"} BY <1>1 DEF NoCall, Call, CheckOps
<1>3. \A u \in Trx :
        /\ que[u] = "LOCK_WAIT" => IsWaiting(locks, u)
        /\ (IsWaiting(locks, u) /\ u # t) => que[u] = "LOCK_WAIT"
        /\ conc[u] # "ACTIVE" => que[u] = "RUNNING"
  BY <1>1 DEF WaitInv, WaitStates, Checking
<1>4. CASE /\ IsWaiting(locks, t)
           /\ que' = [que EXCEPT ![t] = "LOCK_WAIT"]
           /\ UNCHANGED <<locks, rowVars, conc>>
  <2>1. locks' = locks /\ rec_trx' = rec_trx /\ conc' = conc BY <1>4 DEF rowVars
  <2>2. que \in [Trx -> {"RUNNING", "LOCK_WAIT", "ROLLING_BACK"}] BY DEF LockInv, TypeOK
  <2>3. \A u \in Trx : que'[u] = IF u = t THEN "LOCK_WAIT" ELSE que[u] BY <1>4, <2>2
  <2>4. conc[t] = "ACTIVE" BY <1>1 DEF WaitInv, WaitStates
  <2>5. Begun' = Begun BY <2>1 DEF Begun
  <2>6. NoCycleIn(locks', Sleeping')
    <3>1. Sleeping' = Sleeping \cup {t} BY <2>3 DEF Sleeping
    <3>2. NoCycleIn(locks, Sleeping \cup {t}) BY <1>1, SleepMakesNoCycle DEF WaitInv
    <3> QED BY <2>1, <3>1, <3>2
  <2>7. WaitsIn(locks') /\ OwnersIn(locks', Begun') BY <2>1, <2>5 DEF WaitInv
  <2>8. \A p \in Pages, k \in Keys : (rec_trx'[p][k] \in Trx /\ TableOf[p] \in Tables) =>
          IntendsIn(locks', Len(locks'), rec_trx'[p][k], p, "X")
    BY <2>1 DEF WaitInv, WriterIntends
  <2>9. \A u \in Trx :
          /\ que'[u] = "LOCK_WAIT" => IsWaiting(locks', u)
          /\ IsWaiting(locks', u) => que'[u] = "LOCK_WAIT"
          /\ conc'[u] # "ACTIVE" => que'[u] = "RUNNING"
    BY <1>3, <1>4, <2>1, <2>3, <2>4
  <2> QED BY <1>2, <2>6, <2>7, <2>8, <2>9, WaitInvNext
<1>5. CASE /\ ~IsWaiting(locks, t)
           /\ Succeed(locks, kernel.op, t, kernel.page, kernel.key, kernel.to)
           /\ UNCHANGED trxVars
  <2>1. Carries(locks, locks, Begun) BY CarriesOn DEF LockInv, TypeOK, WaitInv
  <2>2. \A u \in Trx : IsWaiting(locks, u) => que[u] = "LOCK_WAIT" BY <1>3, <1>5
  <2>3. ASSUME kernel.op \in {"insert", "modify"}
        PROVE  /\ kernel.page \in Pages /\ kernel.key \in Keys
               /\ TableOf[kernel.page] \in Tables => IntendsIn(locks, Len(locks), t, kernel.page, "X")
    <3>1. kernel \in Calls BY DEF LockInv, TypeOK
    <3>2. kernel \in [op : {"insert", "modify"}, trx : Trx, page : Pages, key : Keys, to : RecStates, count : {0}]
      BY <2>3, <3>1 DEF Calls
    <3> QED BY <1>1, <2>3, <3>2 DEF WaitInv, WriterIntends
  <2> QED BY <1>2, <1>5, <2>1, <2>2, <2>3, SucceedStep
<1> QED BY <1>4, <1>5 DEF NoDeadlock, NotRefused

-----------------------------------------------------------------------------
(* The theorems.                                                           *)

\* WaitInv holds at the start.
LEMMA WaitInvInit == Init => WaitInv
<1> SUFFICES ASSUME Init PROVE WaitInv OBVIOUS
<1>1. locks = <<>> /\ DOMAIN locks = {} BY DEF Init
<1>2. /\ \A p \in Pages, k \in Keys : rec_trx[p][k] \notin Trx
      /\ \A t \in Trx : que[t] = "RUNNING" /\ ~Checking(t)
      /\ kernel.op = "none"
  BY ConstantsAssumption DEF Init, Checking, NoCall, Call
<1>3. \A t : ~IsWaiting(locks, t) BY <1>1 DEF IsWaiting
<1>4. OwnersIn(locks, Begun) /\ WaitsIn(locks)
  BY <1>1 DEF OwnersIn, WaitsIn, OneWaitIn, BlockedIn, IntentionIn
<1>5. WriterIntends BY <1>2 DEF WriterIntends
<1>6. WaitStates /\ NewestRequest BY <1>2, <1>3 DEF WaitStates, NewestRequest
<1>7. Sleeping = {} BY <1>2 DEF Sleeping
<1>8. NoCycleIn(locks, Sleeping) BY <1>7 DEF NoCycleIn
<1> QED BY <1>4, <1>5, <1>6, <1>8 DEF WaitInv

\* Every step of the lock manager preserves WaitInv.
LEMMA WaitInvStep == LockInv /\ WaitInv /\ [Next]_vars => WaitInv'
<1> SUFFICES ASSUME LockInv, WaitInv, [Next]_vars PROVE WaitInv' OBVIOUS
<1>0. LockInv' BY LockInvStep
<1>1. CASE UNCHANGED vars BY <1>1, NoWaitChange DEF vars
<1>2. ASSUME NEW t \in Trx, ClientRequest(t) PROVE WaitInv'
  <2>1. ASSUME NEW tab \in Tables, NEW mode \in TableModes, lock_table(t, tab, mode) PROVE WaitInv'
    BY <2>1, TableWaitAction
  <2>2. ASSUME NEW p \in Pages, NEW h \in HeapNos \ {PAGE_HEAP_NO_INFIMUM}, NEW r \in ReadRequests,
               clust_rec_read_check_and_lock(t, p, h, r[1], r[2])
        PROVE  WaitInv'
    <3>1. r[1] \in RecModes /\ r[2] \in GapModes BY ConstantsAssumption
    <3> QED BY <2>2, <3>1, ReadWaitAction
  <2>3. ASSUME NEW p \in Pages, NEW k \in Keys, NEW to \in {"live", "marked"},
               clust_rec_modify_check_and_lock(t, p, k, to)
        PROVE  WaitInv'
    BY <2>3, ModifyWaitAction
  <2>4. ASSUME NEW p \in Pages, NEW k \in Keys, rec_insert_check_and_lock(t, p, k) PROVE WaitInv'
    BY <2>4, InsertWaitAction
  <2>5. ASSUME NEW p \in Pages, NEW k \in Keys, NEW mode \in RecModes, rec_unlock(t, p, k, mode)
        PROVE  WaitInv'
    BY <1>0, <2>5, UnlockWaitAction
  <2> QED BY <1>2, <2>1, <2>2, <2>3, <2>4, <2>5 DEF ClientRequest
<1>3. ASSUME NEW t \in Trx, DeadlockCheck(t) PROVE WaitInv'
  BY <1>3, NoDeadlockWaitAction, VictimWaitAction, RefuseWaitActions DEF DeadlockCheck
<1>4. ASSUME NEW t \in Trx, TrxStep(t) PROVE WaitInv'
  BY <1>0, <1>4, QuietWaitActions, RollbackWaitAction, DequeueWaitActions DEF TrxStep
<1>5. ASSUME NEW t \in Trx, WaitStep(t) PROVE WaitInv'
  <2>1. CASE LockTimeout(t) BY <1>0, <2>1, DequeueWaitActions
  <2>2. CASE ResumeWait(t) BY <2>2, NoWaitChange DEF ResumeWait, rowVars
  <2>3. CASE ReportTimeout(t) BY <2>3, NoWaitChange DEF ReportTimeout, rowVars
  <2> QED BY <1>5, <2>1, <2>2, <2>3 DEF WaitStep
<1>6. ASSUME NEW p \in Pages, NEW k \in Keys, purge_remove(p, k) PROVE WaitInv'
  BY <1>6, PurgeWaitAction
<1> QED BY <1>1, <1>2, <1>3, <1>4, <1>5, <1>6 DEF Next

\* WaitInv, next to LockInv, is an invariant of the lock manager.
THEOREM WaitInvariant == Spec => [](LockInv /\ WaitInv)
<1>1. Init => WaitInv BY WaitInvInit
<1>2. LockInv /\ WaitInv /\ [Next]_vars => WaitInv' BY WaitInvStep
<1> QED BY <1>1, <1>2, LockInvariant, PTL DEF Spec

\* m_wait_lock, TRX_QUE_LOCK_WAIT and the bitmap agree: a transaction has one
\* waiting lock, with one bit, iff it is in the lock-wait state or is inside
\* deadlock_occurs.
THEOREM WaitStatesAgree == Spec => []WaitStateConsistent
<1>1. ASSUME LockInv, WaitInv PROVE WaitStateConsistent
  <2>1. OneWaitIn(locks) /\ WaitStates BY <1>1 DEF WaitInv, WaitsIn
  <2>2. \A i \in DOMAIN locks : locks[i].trx \in Trx BY <1>1 DEF WaitInv, OwnersIn, Begun
  <2>3. ASSUME NEW i \in DOMAIN locks, locks[i].wait
        PROVE  que[locks[i].trx] = "LOCK_WAIT" \/ Checking(locks[i].trx)
    <3>1. IsWaiting(locks, locks[i].trx) BY <2>3 DEF IsWaiting
    <3> QED BY <2>1, <2>2, <3>1 DEF WaitStates
  <2>4. \A t \in Trx : que[t] = "LOCK_WAIT" => IsWaiting(locks, t) BY <2>1 DEF WaitStates
  <2> QED BY <2>1, <2>3, <2>4 DEF WaitStateConsistent, OneWaitIn
<1> QED BY <1>1, WaitInvariant, PTL

\* No lost grant: outside a lock call every waiting request has a conflicting lock
\* ahead of it, whatever was dequeued, unlocked, cancelled or refused before.
THEOREM NoLostGrant == Spec => []WaitersAreBlocked
<1>1. WaitInv => WaitersAreBlocked BY DEF WaitInv, WaitsIn, BlockedIn, WaitersAreBlocked
<1> QED BY <1>1, WaitInvariant, PTL

\* deadlock_occurs, with its limits and its choice of victims, leaves no cycle of
\* waiting transactions behind.
THEOREM NoDeadlockLeft == Spec => []NoWaitCycle
<1>1. WaitInv => NoWaitCycle BY DEF WaitInv, NoCycleIn, Sleeping, NoWaitCycle
<1> QED BY <1>1, WaitInvariant, PTL

\* Locks are of transactions that have not ended and on records that exist, also
\* when a lock is inherited while release_off_kernel had let the kernel mutex go.
THEOREM LocksHaveOwners == Spec => []NoDanglingLock
<1>1. ASSUME LockInv, WaitInv PROVE NoDanglingLock
  <2>1. \A i \in DOMAIN locks : conc[locks[i].trx] # "NOT_STARTED" BY <1>1 DEF WaitInv, OwnersIn, Begun
  <2>2. BitsPresentIn(locks) BY <1>1 DEF LockInv
  <2> QED BY <2>1, <2>2 DEF NoDanglingLock, BitsPresentIn
<1> QED BY <1>1, WaitInvariant, PTL

\* What is compatible with a lock is compatible with the weaker intention lock.
LEMMA WeakerIntention ==
  \A a, b, mode : (mode_compatible(a, b) /\ mode_stronger_or_eq(b, IntentionMode(mode))) =>
    mode_compatible(a, IntentionMode(mode))
BY DEF mode_compatible, Lock_compatibility_matrix, mode_stronger_or_eq, Lock_strength_matrix, IntentionMode

\* The multigranularity rule that rec_lock asserts part of: beside a granted table
\* lock others have only the record locks that a compatible intention lock allows.
THEOREM TableLocksHold == Spec => []TableLocksExclude
<1>1. ASSUME LockInv, WaitInv PROVE TableLocksExclude
  <2> SUFFICES ASSUME NEW i \in DOMAIN locks, NEW j \in DOMAIN locks,
                      locks[i].type = "TABLE", ~locks[i].wait, ~locks[j].wait, locks[i].trx # locks[j].trx,
                      locks[j].type = "REC", TableOf[locks[j].on] = locks[i].on
               PROVE  mode_compatible(locks[i].mode, IntentionMode(locks[j].mode))
    BY DEF TableLocksExclude, IntentionMode
  <2>1. locks \in Seq(Lock) /\ NoOvertakingIn(locks) BY <1>1 DEF LockInv, TypeOK
  <2>2. locks[i] \in Lock /\ DOMAIN locks = 1..Len(locks) /\ Len(locks) \in Nat BY <2>1, SeqIsFcn
  <2>3. TableOf[locks[j].on] \in Tables
    <3>1. locks[j].on \in Pages BY <1>1 DEF LockInv, BitsPresentIn
    <3>2. TableOf[locks[j].on] \in Tables \cup {NoTable} BY <3>1, ConstantsAssumption
    <3>3. TableOf[locks[j].on] \in Tables \cup Pages BY <2>2 DEF Lock
    <3> QED BY <3>2, <3>3, ConstantsAssumption
  <2>4. IntendsIn(locks, j, locks[j].trx, locks[j].on, locks[j].mode)
    BY <1>1, <2>3 DEF WaitInv, WaitsIn, IntentionIn
  <2>5. PICK k \in DOMAIN locks :
          /\ locks[k].type = "TABLE" /\ locks[k].trx = locks[j].trx
          /\ locks[k].on = TableOf[locks[j].on] /\ ~locks[k].wait
          /\ mode_stronger_or_eq(locks[k].mode, IntentionMode(locks[j].mode))
    BY <2>4 DEF IntendsIn
  <2>6. mode_compatible(locks[i].mode, locks[k].mode)
    <3>1. i < k \/ k < i BY <2>2, <2>5
    <3>2. CASE i < k BY <2>1, <2>5, <3>2 DEF NoOvertakingIn, Clash
    <3>3. CASE k < i
      <4>1. mode_compatible(locks[k].mode, locks[i].mode) BY <2>1, <2>5, <3>3 DEF NoOvertakingIn, Clash
      <4> QED BY <4>1, CompatSym
    <3> QED BY <3>1, <3>2, <3>3
  <2> QED BY <2>5, <2>6, WeakerIntention
<1> QED BY <1>1, WaitInvariant, PTL

\* Two queues on whose page p the same kinds of locks are set answer alike.
LEMMA SameAnswers ==
  ASSUME NEW ls, NEW r, NEW p,
         \A h \in HeapNos : \A t, req :
           /\ rec_other_has_conflicting(ls, p, req, h, t) <=> rec_other_has_conflicting(r, p, req, h, t)
           /\ rec_has_expl(ls, p, req, h, t) <=> rec_has_expl(r, p, req, h, t)
  PROVE  Answers(ls, p) = Answers(r, p) /\ Held(ls, p) = Held(r, p)
<1>1. \A a : a \in Answers(ls, p) <=> a \in Answers(r, p) BY DEF Answers
<1>2. \A a : a \in Held(ls, p) <=> a \in Held(r, p) BY DEF Held
<1> QED BY <1>1, <1>2

\* On the supremum a GAP lock and an ordinary one are the same lock: rec_lock_fast
\* reuses the one where rec_lock_slow creates the other.
LEMMA SupremumAlike ==
  ASSUME NEW ls \in Seq(Lock), NEW i \in DOMAIN ls, NEW p \in Pages, PageLocks(ls, p) = {i},
         ls[i].gap = "GAP", ls[i].ins = FALSE, ls[i].wait = FALSE, PAGE_HEAP_NO_SUPREMUM \notin ls[i].bits,
         NEW l \in Lock, l.trx = ls[i].trx, l.type = ls[i].type, l.on = ls[i].on, l.mode = ls[i].mode,
         l.gap = "ORDINARY", l.ins = FALSE, l.wait = FALSE, l.bits = {PAGE_HEAP_NO_SUPREMUM}
  PROVE  LET fast == SetBit(ls, i, PAGE_HEAP_NO_SUPREMUM)
             slow == Append(ls, l)
         IN  Answers(fast, p) = Answers(slow, p) /\ Held(fast, p) = Held(slow, p)
<1> DEFINE sup == PAGE_HEAP_NO_SUPREMUM
           fast == SetBit(ls, i, sup)
           slow == Append(ls, l)
           n == Len(ls) + 1
<1>0. sup \in HeapNos BY ConstantsAssumption DEF HeapNos, PAGE_HEAP_NO_SUPREMUM
<1>1. /\ DOMAIN fast = DOMAIN ls /\ fast[i] = [ls[i] EXCEPT !.bits = @ \cup {sup}]
      /\ \A j \in DOMAIN ls : j # i => fast[j] = ls[j]
  BY <1>0, SetBitType
<1>2. /\ \A j \in DOMAIN ls : j \in DOMAIN slow /\ slow[j] = ls[j]
      /\ n \in DOMAIN slow /\ slow[n] = l /\ \A j \in DOMAIN slow : j \in DOMAIN ls \/ j = n
  BY AppendType
<1> HIDE DEF fast, slow, n, sup
<1>3. ls[i] \in Lock BY SeqIsFcn
<1>4. /\ fast[i].trx = ls[i].trx /\ fast[i].type = ls[i].type /\ fast[i].on = ls[i].on /\ fast[i].mode = ls[i].mode
      /\ fast[i].gap = "GAP" /\ fast[i].ins = FALSE /\ fast[i].wait = FALSE /\ fast[i].bits = ls[i].bits \cup {sup}
  BY <1>1, <1>3 DEF Lock
<1>5. /\ l.trx = ls[i].trx /\ l.type = ls[i].type /\ l.on = ls[i].on /\ l.mode = ls[i].mode
      /\ l.gap = "ORDINARY" /\ l.ins = FALSE /\ l.wait = FALSE /\ l.bits = {sup}
  BY DEF sup
<1>6. ls[i].type = "REC" /\ ls[i].on = p /\ i \in DOMAIN fast /\ sup \notin ls[i].bits BY <1>1 DEF PageLocks, sup
<1>7. \A j \in DOMAIN ls : (ls[j].type = "REC" /\ ls[j].on = p) => j = i BY DEF PageLocks
<1>8. /\ \A j \in DOMAIN fast : \A h : OnRec(fast[j], p, h) => j = i
      /\ \A j \in DOMAIN slow : \A h : OnRec(slow[j], p, h) => j = i \/ (j = n /\ h = sup)
  <2>1. ASSUME NEW j \in DOMAIN fast, NEW h, OnRec(fast[j], p, h), j # i PROVE FALSE
    <3>1. j \in DOMAIN ls /\ fast[j] = ls[j] BY <1>1, <2>1
    <3> QED BY <1>7, <2>1, <3>1 DEF OnRec
  <2>2. ASSUME NEW j \in DOMAIN slow, NEW h, OnRec(slow[j], p, h), j # i PROVE j = n /\ h = sup
    <3>1. j = n
      <4>1. SUFFICES ASSUME j # n PROVE FALSE OBVIOUS
      <4>2. j \in DOMAIN ls /\ slow[j] = ls[j] BY <1>2, <4>1
      <4> QED BY <1>7, <2>2, <4>2 DEF OnRec
    <3> QED BY <1>2, <1>5, <2>2, <3>1 DEF OnRec
  <2> QED BY <2>1, <2>2
<1>9. ASSUME NEW h, NEW t, NEW req
      PROVE  /\ rec_other_has_conflicting(fast, p, req, h, t) <=> rec_other_has_conflicting(slow, p, req, h, t)
             /\ rec_has_expl(fast, p, req, h, t) <=> rec_has_expl(slow, p, req, h, t)
  <2>1. CASE h = sup
    <3>1. OnRec(fast[i], p, h) /\ OnRec(slow[n], p, h) /\ ~OnRec(slow[i], p, h)
      BY <1>2, <1>4, <1>5, <1>6, <2>1 DEF OnRec
    <3>2. rec_other_has_conflicting(fast, p, req, h, t) <=> rec_blocks(fast[i], t, req, h)
      BY <1>6, <1>8, <3>1 DEF rec_other_has_conflicting
    <3>3. rec_other_has_conflicting(slow, p, req, h, t) <=> rec_blocks(slow[n], t, req, h)
      BY <1>2, <1>8, <3>1 DEF rec_other_has_conflicting
    <3>4. rec_blocks(fast[i], t, req, h) <=> rec_blocks(slow[n], t, req, h)
      BY <1>2, <1>4, <1>5, <2>1 DEF rec_blocks, sup
    <3>5. rec_has_expl(fast, p, req, h, t) <=> ls[i].trx = t /\ mode_stronger_or_eq(ls[i].mode, req.mode)
      BY <1>4, <1>6, <1>8, <2>1, <3>1 DEF rec_has_expl, sup
    <3>6. rec_has_expl(slow, p, req, h, t) <=> ls[i].trx = t /\ mode_stronger_or_eq(ls[i].mode, req.mode)
      BY <1>2, <1>5, <1>8, <2>1, <3>1 DEF rec_has_expl, sup
    <3> QED BY <3>2, <3>3, <3>4, <3>5, <3>6
  <2>2. CASE h # sup
    <3>1. OnRec(fast[i], p, h) <=> OnRec(slow[i], p, h) BY <1>2, <1>4, <2>2 DEF OnRec
    <3>2. i \in DOMAIN slow /\ \A j \in DOMAIN slow : OnRec(slow[j], p, h) => j = i BY <1>2, <1>8, <2>2
    <3>3. /\ rec_other_has_conflicting(fast, p, req, h, t) <=> OnRec(fast[i], p, h) /\ rec_blocks(fast[i], t, req, h)
          /\ rec_other_has_conflicting(slow, p, req, h, t) <=> OnRec(slow[i], p, h) /\ rec_blocks(slow[i], t, req, h)
      BY <1>6, <1>8, <3>2 DEF rec_other_has_conflicting
    <3>4. /\ slow[i] = ls[i] BY <1>2
    <3>5. rec_blocks(fast[i], t, req, h) <=> rec_blocks(slow[i], t, req, h)
      BY <1>4, <3>4 DEF rec_blocks
    <3>6. rec_has_expl(fast, p, req, h, t) <=> rec_has_expl(slow, p, req, h, t)
      BY <1>4, <1>6, <1>8, <3>1, <3>2, <3>4 DEF rec_has_expl
    <3> QED BY <3>1, <3>3, <3>5, <3>6
  <2> QED BY <2>1, <2>2
<1>10. Answers(fast, p) = Answers(slow, p) /\ Held(fast, p) = Held(slow, p) BY <1>9, SameAnswers
<1> QED BY <1>10 DEF fast, slow, sup

\* rec_lock_fast does what rec_lock_slow would do.
LEMMA FastIsSlow ==
  ASSUME NEW ls \in Seq(Lock), NEW t \in Trx, NEW p \in Pages, NEW h \in HeapNos, NEW impl \in BOOLEAN,
         NEW req \in Requests, req.ins = FALSE, rec_lock_fast(ls, t, p, req, h),
         h = PAGE_HEAP_NO_SUPREMUM => req.gap # "REC_NOT_GAP"
  PROVE  LET fast == RecLockFast(ls, impl, t, p, req, h)
             slow == RecLockSlow(ls, impl, t, p, req, h)
         IN  /\ ~RecLockWaits(ls, t, p, req, h)
             /\ fast # slow => Answers(fast, p) = Answers(slow, p) /\ Held(fast, p) = Held(slow, p)
<1> DEFINE fast == RecLockFast(ls, impl, t, p, req, h)
           slow == RecLockSlow(ls, impl, t, p, req, h)
<1>1. CASE PageLocks(ls, p) = {}
  <2>1. \A j \in DOMAIN ls : ~OnRec(ls[j], p, h) /\ ~(ls[j].type = "REC" /\ ls[j].on = p)
    BY <1>1 DEF PageLocks, OnRec
  <2>2. ~RecLockWaits(ls, t, p, req, h) /\ ~rec_has_expl(ls, p, req, h, t)
    BY <2>1 DEF RecLockWaits, rec_other_has_conflicting, rec_has_expl
  <2>3. Similar(ls, t, p, req, h) = {} BY <2>1 DEF Similar
  <2>4. rec_find_similar_on_page(ls, t, p, req, h) = {} BY <2>3 DEF rec_find_similar_on_page
  <2>5. fast = slow BY <1>1, <2>2, <2>4 DEF RecLockFast, RecLockSlow, rec_add_to_queue
  <2> QED BY <2>2, <2>5
<1>2. ASSUME NEW i \in DOMAIN ls, PageLocks(ls, p) = {i}, ls[i].trx = t, ls[i].mode = req.mode,
             ls[i].gap = req.gap, ls[i].ins = req.ins, ~ls[i].wait
      PROVE  /\ ~RecLockWaits(ls, t, p, req, h)
             /\ fast # slow => Answers(fast, p) = Answers(slow, p) /\ Held(fast, p) = Held(slow, p)
  <2>1. /\ ls[i].type = "REC" /\ ls[i].on = p /\ ls[i] \in Lock
        /\ \A j \in DOMAIN ls : (ls[j].type = "REC" /\ ls[j].on = p) => j = i
    BY <1>2, SeqIsFcn DEF PageLocks
  <2>2. ~RecLockWaits(ls, t, p, req, h)
    BY <1>2, <2>1 DEF RecLockWaits, rec_other_has_conflicting, OnRec, rec_blocks
  <2>3. CASE impl BY <2>2, <2>3 DEF RecLockFast, RecLockSlow
  <2>4. CASE ~impl
    <3>1. (CHOOSE j \in DOMAIN ls : j \in PageLocks(ls, p)) = i BY <1>2
    <3>2. fast = SetBit(ls, i, h) BY <1>2, <2>4, <3>1 DEF RecLockFast
    <3>3. mode_stronger_or_eq(req.mode, req.mode)
      BY DEF Requests, RecModes, mode_stronger_or_eq, Lock_strength_matrix
    <3>4. CASE h \in ls[i].bits
      <4>1. OnRec(ls[i], p, h) BY <2>1, <3>4 DEF OnRec
      <4>2. rec_has_expl(ls, p, req, h, t) BY <1>2, <3>3, <4>1 DEF rec_has_expl
      <4>3. slow = ls BY <4>2 DEF RecLockSlow
      <4>4. [ls[i] EXCEPT !.bits = @ \cup {h}] = ls[i] BY <2>1, <3>4 DEF Lock
      <4>5. ls = [j \in DOMAIN ls |-> ls[j]] OBVIOUS
      <4>6. SetBit(ls, i, h) = ls BY <4>4, <4>5 DEF SetBit
      <4> QED BY <2>2, <3>2, <4>3, <4>6
    <3>5. CASE h \notin ls[i].bits
      <4>1. ~rec_has_expl(ls, p, req, h, t) /\ ~RecHasWaiter(ls, p, h)
        BY <2>1, <3>5 DEF rec_has_expl, RecHasWaiter, OnRec
      <4>2. slow = rec_add_to_queue(ls, t, p, req, h) BY <2>4, <4>1 DEF RecLockSlow
      <4>3. CASE StoredGap(req, h) = req.gap
        <5>1. Similar(ls, t, p, req, h) = {i} BY <1>2, <2>1, <4>3 DEF Similar
        <5>2. i \in Nat BY SeqIsFcn
        <5>3. rec_find_similar_on_page(ls, t, p, req, h) = {i}
          BY <5>1, <5>2 DEF rec_find_similar_on_page
        <5>4. slow = SetBit(ls, i, h) BY <4>1, <4>2, <5>3 DEF rec_add_to_queue
        <5> QED BY <2>2, <3>2, <5>4
      <4>4. CASE StoredGap(req, h) # req.gap
        <5>1. h = PAGE_HEAP_NO_SUPREMUM /\ req.gap = "GAP" /\ StoredGap(req, h) = "ORDINARY"
          BY <4>4 DEF StoredGap, Requests, GapModes
        <5>2. Similar(ls, t, p, req, h) = {} BY <1>2, <2>1, <4>4 DEF Similar
        <5>3. rec_find_similar_on_page(ls, t, p, req, h) = {} BY <5>2 DEF rec_find_similar_on_page
        <5> DEFINE l == NewRecLock(t, p, req, h, FALSE)
        <5>4. slow = Append(ls, l) BY <4>2, <5>3 DEF rec_add_to_queue, rec_create_low
        <5>5. l \in Lock BY NewRecLockType
        <5>6. /\ l.trx = ls[i].trx /\ l.type = ls[i].type /\ l.on = ls[i].on /\ l.mode = ls[i].mode
              /\ l.gap = "ORDINARY" /\ l.ins = FALSE /\ l.wait = FALSE /\ l.bits = {PAGE_HEAP_NO_SUPREMUM}
          BY <1>2, <2>1, <5>1 DEF NewRecLock
        <5> HIDE DEF l, fast, slow
        <5>7. Answers(fast, p) = Answers(slow, p) /\ Held(fast, p) = Held(slow, p)
          <6>1. ls[i].wait = FALSE /\ ls[i].ins = FALSE /\ ls[i].gap = "GAP" BY <1>2, <2>1, <5>1 DEF Lock
          <6>2. PAGE_HEAP_NO_SUPREMUM \notin ls[i].bits BY <3>5, <5>1
          <6>3. fast = SetBit(ls, i, PAGE_HEAP_NO_SUPREMUM) BY <3>2, <5>1
          <6> QED BY <1>2, <5>4, <5>5, <5>6, <6>1, <6>2, <6>3, SupremumAlike
        <5> QED BY <2>2, <5>7
      <4> QED BY <4>3, <4>4
    <3> QED BY <3>4, <3>5
  <2> QED BY <2>3, <2>4
<1> QED BY <1>1, <1>2 DEF rec_lock_fast

\* The fast path of rec_lock, taken on the evidence of one struct of the page, never
\* grants what the slow path would refuse, and leaves a queue that answers every
\* later request as the slow path's would.
THEOREM FastPathIsSound == Spec => []FastPathAgrees
<1>1. ASSUME LockInv PROVE FastPathAgrees
  <2> DEFINE Req(mode, gap) == Request(mode, gap, FALSE)
             Fast(t, p, mode, gap, impl, h) == RecLockFast(locks, impl, t, p, Req(mode, gap), h)
             Slow(t, p, mode, gap, impl, h) == RecLockSlow(locks, impl, t, p, Req(mode, gap), h)
             Agree(t, p, mode, gap, impl, h) ==
               (rec_lock_fast(locks, t, p, Req(mode, gap), h) /\ (h = PAGE_HEAP_NO_SUPREMUM => gap # "REC_NOT_GAP"))
                 => /\ ~RecLockWaits(locks, t, p, Req(mode, gap), h)
                    /\ Fast(t, p, mode, gap, impl, h) # Slow(t, p, mode, gap, impl, h) =>
                         /\ Answers(Fast(t, p, mode, gap, impl, h), p) = Answers(Slow(t, p, mode, gap, impl, h), p)
                         /\ Held(Fast(t, p, mode, gap, impl, h), p) = Held(Slow(t, p, mode, gap, impl, h), p)
  <2>1. ASSUME NEW t \in Trx, NEW p \in Pages, NEW mode \in RecModes, NEW gap \in GapModes,
               NEW impl \in BOOLEAN, NEW h \in Present(p) \cup {PAGE_HEAP_NO_SUPREMUM}
        PROVE  Agree(t, p, mode, gap, impl, h)
    <3> DEFINE req == Req(mode, gap)
    <3>1. req \in Requests /\ req.ins = FALSE /\ req.gap = gap BY RequestType DEF Request
    <3>2. h \in HeapNos
      <4>1. PAGE_HEAP_NO_SUPREMUM \in HeapNos BY ConstantsAssumption DEF HeapNos, PAGE_HEAP_NO_SUPREMUM
      <4> QED BY <4>1, KeyIs DEF Present
    <3>3. locks \in Seq(Lock) BY <1>1 DEF LockInv, TypeOK
    <3> HIDE DEF Req
    <3> QED BY <3>1, <3>2, <3>3, FastIsSlow
  <2>2. FastPathAgrees <=>
          \A t \in Trx, p \in Pages, mode \in RecModes, gap \in GapModes, impl \in BOOLEAN :
            \A h \in Present(p) \cup {PAGE_HEAP_NO_SUPREMUM} : Agree(t, p, mode, gap, impl, h)
    BY Zenon DEF FastPathAgrees
  <2> HIDE DEF Agree
  <2>3. \A t \in Trx, p \in Pages, mode \in RecModes, gap \in GapModes, impl \in BOOLEAN :
          \A h \in Present(p) \cup {PAGE_HEAP_NO_SUPREMUM} : Agree(t, p, mode, gap, impl, h)
    BY <2>1, Zenon
  <2> QED BY <2>2, <2>3
<1> QED BY <1>1, LockInvariant, PTL

-----------------------------------------------------------------------------
(* FACT B for exclusive locks: the gap locks of a transaction through one  *)
(* change of a queue.                                                      *)

\* The struct is a granted X lock of t on the gap before record h.
GapLock(l, t, p, h) == l.trx = t /\ l.mode = "X" /\ ~l.wait /\ OnRec(l, p, h) /\ LocksGap(l, h)
HoldsGap(ls, t, p, h) == \E i \in DOMAIN ls : GapLock(ls[i], t, p, h)

\* A lock struct on the supremum is not REC_NOT_GAP.
OnSupremum(l) == l.type = "REC" /\ PAGE_HEAP_NO_SUPREMUM \in l.bits => l.gap # "REC_NOT_GAP"

\* From one queue to the other t loses no gap lock, and the supremum has no other locks.
Gaps(ls, r, t) ==
  /\ SupremumIn(ls) => SupremumIn(r)
  /\ \A p, h : HoldsGap(ls, t, p, h) => HoldsGap(r, t, p, h)

\* Queue changes one after the other.
LEMMA GapsOn ==
  /\ \A ls, t : Gaps(ls, ls, t)
  /\ \A ls, r, q, t : Gaps(ls, r, t) /\ Gaps(r, q, t) => Gaps(ls, q, t)
BY DEF Gaps

\* Every struct of t that holds a gap lives on, and no struct is a new kind of lock
\* on the supremum.
LEMMA GapsFrom ==
  ASSUME NEW ls, NEW r, NEW t,
         \A j \in DOMAIN r : OnSupremum(r[j]) \/ \E i \in DOMAIN ls : OnSupremum(ls[i]) => OnSupremum(r[j]),
         \A i \in DOMAIN ls : \A p, h : GapLock(ls[i], t, p, h) => \E j \in DOMAIN r : GapLock(r[j], t, p, h)
  PROVE  Gaps(ls, r, t)
BY DEF Gaps, HoldsGap, SupremumIn, OnSupremum

\* A new struct at the end of the queue.
LEMMA AppendGaps ==
  ASSUME NEW ls \in Seq(Lock), NEW l \in Lock, OnSupremum(l), NEW t
  PROVE  Gaps(ls, Append(ls, l), t)
<1> DEFINE r == Append(ls, l)
<1>1. /\ DOMAIN r = 1..(Len(ls) + 1) /\ DOMAIN ls = 1..Len(ls) /\ Len(ls) \in Nat
      /\ \A i \in 1..Len(ls) : r[i] = ls[i]
      /\ r[Len(ls) + 1] = l
  BY AppendType
<1> HIDE DEF r
<1>2. \A i \in DOMAIN ls : i \in DOMAIN r /\ r[i] = ls[i] BY <1>1
<1>3. \A j \in DOMAIN r : j \in DOMAIN ls \/ r[j] = l BY <1>1
<1>4. \A j \in DOMAIN r : OnSupremum(r[j]) \/ \E i \in DOMAIN ls : OnSupremum(ls[i]) => OnSupremum(r[j])
  BY <1>2, <1>3
<1> QED BY <1>2, <1>4, GapsFrom DEF r

\* A request's record is the supremum only for a request that is not REC_NOT_GAP.
LEMMA NewGaps ==
  ASSUME NEW ls \in Seq(Lock), NEW t \in Trx, NEW p \in Pages, NEW req \in Requests, NEW h \in HeapNos,
         NEW w \in BOOLEAN, NEW u
  PROVE  Gaps(ls, rec_create_low(ls, t, p, req, h, w), u)
<1> DEFINE l == NewRecLock(t, p, req, h, w)
<1>1. l \in Lock BY NewRecLockType
<1>2. OnSupremum(l) BY DEF OnSupremum, NewRecLock, StoredGap
<1> HIDE DEF l
<1>3. Gaps(ls, Append(ls, l), u) BY <1>1, <1>2, AppendGaps
<1> QED BY <1>3 DEF rec_create_low, l

\* One more bit in a struct.
LEMMA SetBitGaps ==
  ASSUME NEW ls \in Seq(Lock), NEW i \in DOMAIN ls, NEW h \in HeapNos,
         h = PAGE_HEAP_NO_SUPREMUM => ls[i].gap # "REC_NOT_GAP", NEW u
  PROVE  Gaps(ls, SetBit(ls, i, h), u)
<1> DEFINE r == SetBit(ls, i, h)
<1>1. /\ DOMAIN r = DOMAIN ls /\ r[i] = [ls[i] EXCEPT !.bits = @ \cup {h}]
      /\ \A j \in DOMAIN ls : j # i => r[j] = ls[j]
  BY SetBitType
<1> HIDE DEF r
<1>2. ls[i] \in Lock BY SeqIsFcn
<1>3. /\ r[i].trx = ls[i].trx /\ r[i].type = ls[i].type /\ r[i].on = ls[i].on /\ r[i].mode = ls[i].mode
      /\ r[i].gap = ls[i].gap /\ r[i].ins = ls[i].ins /\ r[i].wait = ls[i].wait /\ r[i].bits = ls[i].bits \cup {h}
  BY <1>1, <1>2 DEF Lock
<1>4. \A p, g : GapLock(ls[i], u, p, g) => GapLock(r[i], u, p, g) BY <1>3 DEF GapLock, OnRec, LocksGap
<1>5. OnSupremum(ls[i]) => OnSupremum(r[i]) BY <1>3 DEF OnSupremum
<1>6. \A j \in DOMAIN r : OnSupremum(r[j]) \/ \E n \in DOMAIN ls : OnSupremum(ls[n]) => OnSupremum(r[j])
  BY <1>1, <1>5
<1>7. \A j \in DOMAIN ls : \A p, g : GapLock(ls[j], u, p, g) => \E n \in DOMAIN r : GapLock(r[n], u, p, g)
  BY <1>1, <1>4
<1> QED BY <1>6, <1>7, GapsFrom DEF r

\* rec_add_to_queue.
LEMMA AddGaps ==
  ASSUME NEW ls \in Seq(Lock), NEW t \in Trx, NEW p \in Pages, NEW req \in Requests, NEW h \in HeapNos, NEW u
  PROVE  Gaps(ls, rec_add_to_queue(ls, t, p, req, h), u)
<1> DEFINE r == rec_add_to_queue(ls, t, p, req, h)
<1>1. CASE r = Append(ls, NewRecLock(t, p, req, h, FALSE))
  BY <1>1, NewGaps DEF rec_create_low
<1>2. CASE \E i \in Similar(ls, t, p, req, h) : r = SetBit(ls, i, h)
  <2>1. PICK i \in Similar(ls, t, p, req, h) : r = SetBit(ls, i, h) BY <1>2
  <2>2. i \in DOMAIN ls /\ ls[i].gap = StoredGap(req, h) BY DEF Similar
  <2>3. h = PAGE_HEAP_NO_SUPREMUM => ls[i].gap # "REC_NOT_GAP" BY <2>2 DEF StoredGap
  <2> HIDE DEF r
  <2>4. Gaps(ls, SetBit(ls, i, h), u) BY <2>2, <2>3, SetBitGaps
  <2> QED BY <2>1, <2>4 DEF r
<1>3. \/ r = Append(ls, NewRecLock(t, p, req, h, FALSE))
      \/ \E i \in Similar(ls, t, p, req, h) : r = SetBit(ls, i, h)
  BY AddToQueue
<1> QED BY <1>1, <1>2, <1>3

\* The inheritance loops.
LEMMA InheritGaps ==
  ASSUME NEW ls \in Seq(Lock), NEW r, NEW p \in Pages, NEW heir \in HeapNos, Inherited(ls, r, p, heir), NEW u
  PROVE  Gaps(ls, r, u)
<1>1. /\ DOMAIN r = 1..Len(r) /\ DOMAIN ls = 1..Len(ls) /\ Len(ls) \in Nat /\ Len(r) \in Nat /\ Len(ls) <= Len(r)
  BY DEF Inherited
<1>2. ASSUME NEW i \in DOMAIN ls
      PROVE  /\ OnSupremum(ls[i]) => OnSupremum(r[i])
             /\ \A q, h : GapLock(ls[i], u, q, h) => GapLock(r[i], u, q, h)
  <2>1. CASE r[i] = ls[i] BY <2>1
  <2>2. CASE GapStruct(ls[i], p, heir) /\ r[i] = [ls[i] EXCEPT !.bits = @ \cup {heir}]
    <3>1. ls[i] \in Lock BY SeqIsFcn
    <3>2. /\ r[i].trx = ls[i].trx /\ r[i].type = ls[i].type /\ r[i].on = ls[i].on /\ r[i].mode = ls[i].mode
          /\ r[i].gap = ls[i].gap /\ r[i].ins = ls[i].ins /\ r[i].wait = ls[i].wait
          /\ r[i].bits = ls[i].bits \cup {heir}
      BY <2>2, <3>1 DEF Lock
    <3>3. ls[i].gap # "REC_NOT_GAP" BY <2>2 DEF GapStruct
    <3> QED BY <3>2, <3>3 DEF OnSupremum, GapLock, OnRec, LocksGap
  <2> QED BY <1>1, <2>1, <2>2 DEF Inherited
<1>3. ASSUME NEW i \in DOMAIN r, i \notin DOMAIN ls PROVE OnSupremum(r[i])
  <2>1. i > Len(ls) BY <1>1, <1>3
  <2>2. GapStruct(r[i], p, heir) BY <2>1 DEF Inherited
  <2> QED BY <2>2 DEF GapStruct, OnSupremum
<1>4. \A i \in DOMAIN ls : i \in DOMAIN r BY <1>1
<1>5. \A j \in DOMAIN r : OnSupremum(r[j]) \/ \E i \in DOMAIN ls : OnSupremum(ls[i]) => OnSupremum(r[j])
  BY <1>2, <1>3
<1>6. \A i \in DOMAIN ls : \A q, h : GapLock(ls[i], u, q, h) => \E j \in DOMAIN r : GapLock(r[j], u, q, h)
  BY <1>2, <1>4
<1> QED BY <1>5, <1>6, GapsFrom

\* Taking out a struct that is not a granted one of u.
LEMMA RemoveGaps ==
  ASSUME NEW ls \in Seq(Lock), NEW i \in DOMAIN ls, NEW u, ls[i].wait \/ ls[i].trx # u
  PROVE  Gaps(ls, Remove(ls, i), u)
<1> DEFINE r == Remove(ls, i)
<1>1. /\ \A a \in DOMAIN ls : a # i => Shift(i, a) \in DOMAIN r /\ r[Shift(i, a)] = ls[a]
      /\ \A b \in DOMAIN r : Unshift(i, b) \in DOMAIN ls /\ r[b] = ls[Unshift(i, b)]
  BY RemoveIs
<1> HIDE DEF r
<1>2. \A q, h : ~GapLock(ls[i], u, q, h) BY DEF GapLock
<1>3. \A j \in DOMAIN r : OnSupremum(r[j]) \/ \E a \in DOMAIN ls : OnSupremum(ls[a]) => OnSupremum(r[j])
  BY <1>1
<1>4. \A a \in DOMAIN ls : \A q, h : GapLock(ls[a], u, q, h) => \E j \in DOMAIN r : GapLock(r[j], u, q, h)
  BY <1>1, <1>2
<1> QED BY <1>3, <1>4, GapsFrom DEF r

\* Struct by struct: bits and wait flags are lost, but not the bits of the granted
\* structs of u.
LEMMA ShrunkGaps ==
  ASSUME NEW ls, NEW r, NEW u, Shrunk(ls, r),
         \A i \in DOMAIN ls : (ls[i].trx = u /\ ~ls[i].wait) => r[i].bits = ls[i].bits
  PROVE  Gaps(ls, r, u)
<1>1. DOMAIN r = DOMAIN ls BY SeqIsFcn DEF Shrunk
<1>2. ASSUME NEW i \in DOMAIN ls
      PROVE  /\ OnSupremum(ls[i]) => OnSupremum(r[i])
             /\ \A p, h : GapLock(ls[i], u, p, h) => GapLock(r[i], u, p, h)
  <2>1. /\ Alike(ls[i], r[i]) /\ r[i].bits \subseteq ls[i].bits
        /\ r[i].wait => ls[i].wait
    BY DEF Shrunk
  <2>2. OnSupremum(ls[i]) => OnSupremum(r[i]) BY <2>1 DEF OnSupremum, Alike
  <2>3. ASSUME NEW p, NEW h, GapLock(ls[i], u, p, h) PROVE GapLock(r[i], u, p, h)
    <3>1. r[i].bits = ls[i].bits BY <2>3 DEF GapLock
    <3> QED BY <2>1, <2>3, <3>1 DEF GapLock, OnRec, LocksGap, Alike
  <2> QED BY <2>2, <2>3
<1>3. \A j \in DOMAIN r : OnSupremum(r[j]) \/ \E i \in DOMAIN ls : OnSupremum(ls[i]) => OnSupremum(r[j])
  BY <1>1, <1>2
<1>4. \A i \in DOMAIN ls : \A p, h : GapLock(ls[i], u, p, h) => \E j \in DOMAIN r : GapLock(r[j], u, p, h)
  BY <1>1, <1>2
<1> QED BY <1>3, <1>4, GapsFrom

\* Granting.
LEMMA GrantGaps ==
  ASSUME NEW ls \in Seq(Lock), NEW who \in SUBSET DOMAIN ls, NEW u
  PROVE  Gaps(ls, Grant(ls, who), u)
<1> DEFINE r == Grant(ls, who)
<1>1. Shrunk(ls, r) BY GrantShrinks
<1>2. ASSUME NEW i \in DOMAIN ls PROVE r[i].bits = ls[i].bits
  <2>1. ls[i] \in Lock BY SeqIsFcn
  <2> QED BY <2>1 DEF Grant, Lock
<1> HIDE DEF r
<1>3. Gaps(ls, r, u) BY <1>1, <1>2, ShrunkGaps
<1> QED BY <1>3 DEF r

\* Dequeue: the i-th struct goes, and others are granted.
LEMMA DequeueGaps ==
  ASSUME NEW ls \in Seq(Lock), NEW i \in DOMAIN ls, NEW u, ls[i].wait \/ ls[i].trx # u
  PROVE  Gaps(ls, Grant(Remove(ls, i), Revisited(ls, i)), u)
<1>1. Gaps(ls, Remove(ls, i), u) BY RemoveGaps
<1>2. Remove(ls, i) \in Seq(Lock) BY RemoveType
<1>3. Revisited(ls, i) \in SUBSET DOMAIN Remove(ls, i) BY DEF Revisited
<1>4. Gaps(Remove(ls, i), Grant(Remove(ls, i), Revisited(ls, i)), u) BY <1>2, <1>3, GrantGaps
<1> QED BY <1>1, <1>4, GapsOn

\* rec_reset_and_release_wait takes gap locks on its record only.
LEMMA ResetGaps ==
  ASSUME NEW ls \in Seq(Lock), NEW p, NEW k, NEW u
  PROVE  LET r == rec_reset_and_release_wait(ls, p, k)
         IN  /\ SupremumIn(ls) => SupremumIn(r)
             /\ \A q, h : (q # p \/ h # k) /\ HoldsGap(ls, u, q, h) => HoldsGap(r, u, q, h)
<1> DEFINE r == rec_reset_and_release_wait(ls, p, k)
<1>1. DOMAIN r = DOMAIN ls BY DEF rec_reset_and_release_wait
<1>2. ASSUME NEW i \in DOMAIN ls
      PROVE  /\ OnSupremum(ls[i]) => OnSupremum(r[i])
             /\ \A q, h : (q # p \/ h # k) /\ GapLock(ls[i], u, q, h) => GapLock(r[i], u, q, h)
  <2>1. ls[i] \in Lock BY SeqIsFcn
  <2>2. /\ r[i].trx = ls[i].trx /\ r[i].type = ls[i].type /\ r[i].on = ls[i].on /\ r[i].mode = ls[i].mode
        /\ r[i].gap = ls[i].gap /\ r[i].ins = ls[i].ins /\ (~ls[i].wait => ~r[i].wait)
        /\ r[i].bits \subseteq ls[i].bits
        /\ (ls[i].on # p => r[i].bits = ls[i].bits) /\ ls[i].bits \ {k} \subseteq r[i].bits
    <3>1. CASE OnRec(ls[i], p, k)
      <4>1. r[i] = [ls[i] EXCEPT !.bits = @ \ {k}, !.wait = FALSE]
        BY <3>1 DEF rec_reset_and_release_wait
      <4> HIDE DEF r
      <4> QED BY <2>1, <3>1, <4>1 DEF Lock, OnRec
    <3>2. CASE ~OnRec(ls[i], p, k)
      <4>1. r[i] = ls[i] BY <3>2 DEF rec_reset_and_release_wait
      <4> QED BY <4>1
    <3> QED BY <3>1, <3>2
  <2> HIDE DEF r
  <2>3. OnSupremum(ls[i]) => OnSupremum(r[i]) BY <2>2 DEF OnSupremum
  <2>4. \A q, h : (q # p \/ h # k) /\ GapLock(ls[i], u, q, h) => GapLock(r[i], u, q, h)
    BY <2>2 DEF GapLock, OnRec, LocksGap
  <2> QED BY <2>3, <2>4
<1> HIDE DEF r
<1>3. SupremumIn(ls) => SupremumIn(r) BY <1>1, <1>2 DEF SupremumIn, OnSupremum
<1>4. \A q, h : (q # p \/ h # k) /\ HoldsGap(ls, u, q, h) => HoldsGap(r, u, q, h)
  BY <1>1, <1>2 DEF HoldsGap
<1> QED BY <1>3, <1>4 DEF r

-----------------------------------------------------------------------------
(* What the inheritance loops promise to the owner of a lock in the loop.  *)

\* Strictly increasing functions onto a set of their domain's size reach all of it.
LEMMA OrdersReach ==
  ASSUME NEW T, IsFiniteSet(T), T \subseteq Nat, NEW f \in Orders(T)
  PROVE  \A i \in T : \E m \in DOMAIN f : f[m] = i
<1>1. IsFiniteSet(T) OBVIOUS
<1> DEFINE c == Cardinality(T)
<1>2. c \in Nat BY <1>1, FS_CardinalityType
<1>3. f \in [1..c -> T] /\ \A a, b \in 1..c : a < b => f[a] < f[b] BY DEF Orders
<1>4. IsFiniteSet(1..c) /\ Cardinality(1..c) = c BY <1>2, FS_Interval
<1>5. \A a, b \in 1..c : f[a] = f[b] => a = b
  <2> SUFFICES ASSUME NEW a \in 1..c, NEW b \in 1..c, f[a] = f[b], a # b PROVE FALSE OBVIOUS
  <2>0. f[a] \in T /\ f[b] \in T BY <1>3
  <2>1. f[a] \in Nat /\ f[b] \in Nat BY <2>0
  <2>2. a < b \/ b < a BY <1>2
  <2> QED BY <1>3, <2>1, <2>2
<1>6. f \in Injection(1..c, T) BY <1>3, <1>5 DEF Injection, IsInjective
<1>7. f \in Surjection(1..c, T)
  <2> HIDE DEF c
  <2>1. Cardinality(T) = c BY DEF c
  <2> QED BY <1>1, <1>4, <1>6, <2>1, FS_Injection
<1>8. \A x \in T : \E m \in 1..c : f[m] = x BY <1>7 DEF Surjection
<1> QED BY <1>3, <1>8

\* InheritTo's sets: the structs that get one more bit, and the locks for which a
\* new struct is made.
SimilarTo(ls, i, p, heir) == rec_find_similar_on_page(ls, ls[i].trx, p, GapRequest(ls[i]), heir)
Reused(ls, Q, p, heir) ==
  IF RecHasWaiter(ls, p, heir) THEN {} ELSE UNION {SimilarTo(ls, i, p, heir) : i \in Q}
Fresh(ls, Q, p, heir) ==
  IF RecHasWaiter(ls, p, heir) THEN Q
  ELSE {i \in Q : SimilarTo(ls, i, p, heir) = {} /\ ~\E j \in Q :
          j < i /\ ls[j].trx = ls[i].trx /\ ls[j].mode = ls[i].mode}

\* A struct with one more bit.
WithBit(l, h) == [l EXCEPT !.bits = @ \cup {h}]

\* The structs of InheritTo's queue: the reused ones, and one for each fresh lock.
LEMMA InheritShape ==
  ASSUME NEW ls \in Seq(Lock), NEW Q \in SUBSET DOMAIN ls, NEW p \in Pages, NEW heir \in HeapNos,
         \A i \in Q : ls[i].type = "REC" /\ ls[i].on = p /\ ls[i].mode \in RecModes,
         NEW r \in InheritTo(ls, Q, p, heir)
  PROVE  /\ \A i \in Reused(ls, Q, p, heir) :
              i \in DOMAIN r /\ r[i] = WithBit(ls[i], heir)
         /\ \A i \in Fresh(ls, Q, p, heir) : \E m \in DOMAIN r :
              r[m] = NewRecLock(ls[i].trx, p, GapRequest(ls[i]), heir, FALSE)
<1> DEFINE reused == Reused(ls, Q, p, heir)
           fresh == Fresh(ls, Q, p, heir)
           old == [i \in DOMAIN ls |->
                     IF i \in reused THEN [ls[i] EXCEPT !.bits = @ \cup {heir}] ELSE ls[i]]
           lock(i) == NewRecLock(ls[i].trx, p, GapRequest(ls[i]), heir, FALSE)
           new(f) == [m \in DOMAIN f |-> lock(f[m])]
<1>1. PICK f \in Orders(fresh) : r = old \o new(f)
  BY DEF InheritTo, Reused, Fresh, SimilarTo
<1>2. Len(ls) \in Nat /\ DOMAIN ls = 1..Len(ls) /\ \A i \in DOMAIN ls : ls[i] \in Lock
  BY SeqIsFcn
<1>3. fresh \in SUBSET (1..Len(ls)) BY <1>2 DEF Fresh
<1>4. reused \in SUBSET (1..Len(ls))
  BY <1>2 DEF Reused, SimilarTo, rec_find_similar_on_page, Similar
<1>5. old \in [1..Len(ls) -> Lock]
  <2> HIDE DEF reused
  <2> SUFFICES ASSUME NEW i \in 1..Len(ls) PROVE old[i] \in Lock BY <1>2
  <2> QED BY <1>2 DEF Lock
<1>6. ASSUME NEW i \in fresh PROVE lock(i) \in Lock
  <2>1. i \in Q BY DEF Fresh
  <2>2. ls[i] \in Lock /\ ls[i].mode \in RecModes BY <1>2, <2>1
  <2>3. GapRequest(ls[i]) \in Requests BY <2>2 DEF GapRequest, Request, Requests, GapModes
  <2>4. ls[i].trx \in Trx BY <2>2 DEF Lock
  <2> QED BY <2>3, <2>4, NewRecLockType
<1> DEFINE n == Cardinality(fresh)
<1>7. n \in Nat /\ f \in [1..n -> fresh] /\ IsFiniteSet(fresh)
  <2> HIDE DEF fresh, reused
  <2>1. Len(ls) \in Int /\ 1 \in Int BY <1>2
  <2>2. IsFiniteSet(1..Len(ls)) BY <2>1, FS_Interval
  <2>3. IsFiniteSet(fresh) BY <1>3, <2>2, FS_Subset
  <2> QED BY <1>1, <2>3, FS_CardinalityType DEF Orders
<1> HIDE DEF fresh, reused, n, lock
<1>8. new(f) \in [1..n -> Lock] BY <1>6, <1>7
<1>9. old \in Seq(Lock) /\ Len(old) = Len(ls) /\ new(f) \in Seq(Lock) /\ Len(new(f)) = n
  BY <1>2, <1>5, <1>7, <1>8, SeqOfFcn
<1>10. \A i \in 1..Len(ls) : old[i] = IF i \in reused THEN [ls[i] EXCEPT !.bits = @ \cup {heir}] ELSE ls[i]
  BY <1>2
<1>11. \A m \in 1..n : new(f)[m] = lock(f[m]) BY <1>7
<1> HIDE DEF old, new
<1>12. /\ r \in Seq(Lock) /\ Len(r) = Len(ls) + n
       /\ \A i \in 1..Len(ls) + n : r[i] = IF i <= Len(ls) THEN old[i] ELSE new(f)[i - Len(ls)]
  <2>1. \A a, b \in Seq(Lock) :
          /\ a \o b \in Seq(Lock) /\ Len(a \o b) = Len(a) + Len(b)
          /\ \A i \in 1..Len(a) + Len(b) : (a \o b)[i] = IF i <= Len(a) THEN a[i] ELSE b[i - Len(a)]
    BY ConcatIs
  <2>2. /\ r \in Seq(Lock) /\ Len(r) = Len(old) + Len(new(f))
        /\ \A i \in 1..Len(old) + Len(new(f)) : r[i] = IF i <= Len(old) THEN old[i] ELSE new(f)[i - Len(old)]
    BY <1>1, <1>9, <2>1, Zenon
  <2> QED BY <1>9, <2>2
<1>13. DOMAIN r = 1..Len(ls) + n BY <1>12, SeqIsFcn
<1>14. ASSUME NEW i \in reused PROVE i \in DOMAIN r /\ r[i] = [ls[i] EXCEPT !.bits = @ \cup {heir}]
  <2>1. i \in 1..Len(ls) BY <1>4
  <2>2. i \in 1..Len(ls) + n /\ i <= Len(ls) BY <1>2, <1>7, <2>1
  <2>3. r[i] = old[i] BY <1>12, <2>2
  <2> QED BY <1>10, <1>13, <2>1, <2>2, <2>3, Zenon
<1>15. ASSUME NEW i \in fresh PROVE \E m \in DOMAIN r : r[m] = lock(i)
  <2>0. f \in Orders(fresh) BY <1>1
  <2>1. PICK m \in DOMAIN f : f[m] = i
    <3>1. fresh \subseteq Nat BY <1>3
    <3>2. IsFiniteSet(fresh) BY <1>7
    <3>3. \A x \in fresh : \E m \in DOMAIN f : f[m] = x BY <3>1, <3>2, OrdersReach
    <3> QED BY <3>3
  <2>2. m \in 1..n BY <1>7
  <2>3. Len(ls) + m \in 1..Len(ls) + n /\ ~(Len(ls) + m <= Len(ls)) /\ (Len(ls) + m) - Len(ls) = m
    BY <1>2, <1>7, <2>2
  <2>4. r[Len(ls) + m] = new(f)[m] BY <1>12, <2>3
  <2>5. r[Len(ls) + m] = lock(i) BY <1>11, <2>1, <2>2, <2>4
  <2> QED BY <1>13, <2>3, <2>5
<1> QED BY <1>14, <1>15 DEF reused, fresh, lock, WithBit

\* After the loops the owner of every lock they went over holds the gap before
\* heir, in that lock's mode.
LEMMA HeirHasGap ==
  ASSUME NEW ls \in Seq(Lock), NEW Q \in SUBSET DOMAIN ls, NEW p \in Pages, NEW heir \in HeapNos,
         \A i \in Q : ls[i].type = "REC" /\ ls[i].on = p /\ ls[i].mode \in RecModes,
         NEW r \in InheritTo(ls, Q, p, heir), NEW i \in Q, ls[i].mode = "X"
  PROVE  HoldsGap(r, ls[i].trx, p, heir)
<1>1. /\ \A j \in Reused(ls, Q, p, heir) :
           j \in DOMAIN r /\ r[j] = WithBit(ls[j], heir)
      /\ \A j \in Fresh(ls, Q, p, heir) : \E m \in DOMAIN r :
           r[m] = NewRecLock(ls[j].trx, p, GapRequest(ls[j]), heir, FALSE)
  BY InheritShape
<1>2. Len(ls) \in Nat /\ DOMAIN ls = 1..Len(ls) /\ \A j \in DOMAIN ls : ls[j] \in Lock
  BY SeqIsFcn
<1>3. ASSUME NEW j \in Fresh(ls, Q, p, heir), ls[j].trx = ls[i].trx, ls[j].mode = "X"
      PROVE  HoldsGap(r, ls[i].trx, p, heir)
  <2>1. PICK m \in DOMAIN r : r[m] = NewRecLock(ls[j].trx, p, GapRequest(ls[j]), heir, FALSE) BY <1>1
  <2> DEFINE l == NewRecLock(ls[j].trx, p, GapRequest(ls[j]), heir, FALSE)
  <2>2. /\ l.trx = ls[j].trx /\ l.mode = "X" /\ ~l.wait /\ l.type = "REC" /\ l.on = p /\ l.bits = {heir}
        /\ ~l.ins /\ l.gap # "REC_NOT_GAP"
    BY <1>3 DEF NewRecLock, GapRequest, Request, StoredGap
  <2> HIDE DEF l
  <2>3. GapLock(l, ls[i].trx, p, heir) BY <1>3, <2>2 DEF GapLock, OnRec, LocksGap
  <2> QED BY <2>1, <2>3 DEF HoldsGap, l
<1>4. CASE RecHasWaiter(ls, p, heir)
  <2>1. i \in Fresh(ls, Q, p, heir) BY <1>4 DEF Fresh
  <2> QED BY <1>3, <2>1
<1>5. CASE ~RecHasWaiter(ls, p, heir) /\ SimilarTo(ls, i, p, heir) # {}
  <2>1. PICK j \in SimilarTo(ls, i, p, heir) : TRUE BY <1>5
  <2>2. j \in Reused(ls, Q, p, heir) BY <1>5, <2>1 DEF Reused
  <2>3. /\ j \in DOMAIN ls /\ ls[j].type = "REC" /\ ls[j].on = p /\ ls[j].trx = ls[i].trx /\ ls[j].mode = "X"
        /\ ls[j].gap # "REC_NOT_GAP" /\ ~ls[j].ins /\ ~ls[j].wait
    BY <2>1 DEF SimilarTo, rec_find_similar_on_page, Similar, GapRequest, Request, StoredGap
  <2>4. j \in DOMAIN r /\ r[j] = WithBit(ls[j], heir) BY <1>1, <2>2
  <2>5. ls[j] \in Lock BY <1>2, <2>3
  <2>6. GapLock(r[j], ls[i].trx, p, heir) BY <2>3, <2>4, <2>5 DEF GapLock, OnRec, LocksGap, Lock, WithBit
  <2> QED BY <2>4, <2>6 DEF HoldsGap
<1>6. CASE ~RecHasWaiter(ls, p, heir) /\ SimilarTo(ls, i, p, heir) = {}
  <2> DEFINE T == {j \in Q : ls[j].trx = ls[i].trx /\ ls[j].mode = ls[i].mode}
  <2>1. T \in SUBSET Nat /\ T # {} BY <1>2
  <2>2. PICK j \in T : \A a \in T : j <= a BY <2>1, NatMin
  <2>3. j \in Q /\ ls[j].trx = ls[i].trx /\ ls[j].mode = ls[i].mode /\ j \in Nat BY <2>1, <2>2
  <2>4. ~\E a \in Q : a < j /\ ls[a].trx = ls[j].trx /\ ls[a].mode = ls[j].mode
    <3> SUFFICES ASSUME NEW a \in Q, a < j, ls[a].trx = ls[j].trx, ls[a].mode = ls[j].mode PROVE FALSE OBVIOUS
    <3>1. a \in T /\ a \in Nat BY <2>1, <2>3
    <3>2. j <= a BY <2>2, <3>1
    <3> QED BY <2>3, <3>1, <3>2
  <2>5. SimilarTo(ls, j, p, heir) = {}
    <3>1. GapRequest(ls[j]) = GapRequest(ls[i]) BY <2>3 DEF GapRequest
    <3> QED BY <1>6, <2>3, <3>1 DEF SimilarTo
  <2>6. j \in Fresh(ls, Q, p, heir) BY <1>6, <2>3, <2>4, <2>5 DEF Fresh
  <2> QED BY <1>3, <2>3, <2>6
<1> QED BY <1>4, <1>5, <1>6

-----------------------------------------------------------------------------
(* The successor of a key, when another key comes or goes.                 *)

Successor(S, k) ==
  LET above == {j \in S : j > k}
  IN  IF above = {} THEN PAGE_HEAP_NO_SUPREMUM ELSE CHOOSE j \in above : \A i \in above : j <= i

\* What makes s the successor of k.
IsSuccessor(S, k, s) ==
  \/ s = PAGE_HEAP_NO_SUPREMUM /\ \A j \in S : ~(j > k)
  \/ s \in S /\ s > k /\ \A j \in S : j > k => s <= j

\* There is one, and it is Successor's.
LEMMA SuccessorIs ==
  ASSUME NEW S \in SUBSET Keys, NEW k \in Keys
  PROVE  /\ IsSuccessor(S, k, Successor(S, k))
         /\ \A s : IsSuccessor(S, k, s) => s = Successor(S, k)
<1> DEFINE above == {j \in S : j > k}
<1>1. Keys \in SUBSET Nat /\ PAGE_HEAP_NO_SUPREMUM \notin Keys
  BY ConstantsAssumption DEF Keys, PAGE_HEAP_NO_SUPREMUM
<1>2. IsSuccessor(S, k, Successor(S, k))
  <2>1. CASE above = {} BY <2>1 DEF IsSuccessor, Successor
  <2>2. CASE above # {}
    <3>1. above \in SUBSET Nat BY <1>1
    <3>2. \E j \in above : \A i \in above : j <= i BY <2>2, <3>1, NatMin
    <3>3. Successor(S, k) = CHOOSE j \in above : \A i \in above : j <= i BY <2>2 DEF Successor
    <3>4. Successor(S, k) \in above /\ \A i \in above : Successor(S, k) <= i BY <3>2, <3>3, Zenon
    <3> QED BY <3>4 DEF IsSuccessor
  <2> QED BY <2>1, <2>2
<1>3. ASSUME NEW a, NEW b, IsSuccessor(S, k, a), IsSuccessor(S, k, b) PROVE a = b
  <2>1. CASE a = PAGE_HEAP_NO_SUPREMUM /\ \A j \in S : ~(j > k) BY <1>3, <2>1 DEF IsSuccessor
  <2>2. CASE b = PAGE_HEAP_NO_SUPREMUM /\ \A j \in S : ~(j > k) BY <1>3, <2>2 DEF IsSuccessor
  <2>3. CASE (a \in S /\ a > k /\ \A j \in S : j > k => a <= j) /\ (b \in S /\ b > k /\ \A j \in S : j > k => b <= j)
    <3>1. a <= b /\ b <= a /\ a \in Nat /\ b \in Nat BY <1>1, <2>3
    <3> QED BY <3>1
  <2> QED BY <1>3, <2>1, <2>2, <2>3 DEF IsSuccessor
<1> QED BY <1>2, <1>3

\* A new key takes the place of its successor for the keys in between, and no other.
LEMMA SuccessorInsert ==
  ASSUME NEW S \in SUBSET Keys, NEW k \in Keys, NEW m \in Keys, m # k
  PROVE  \/ Successor(S \cup {k}, m) = Successor(S, m)
         \/ Successor(S \cup {k}, m) = k /\ Successor(S, m) = Successor(S, k)
<1> DEFINE T == S \cup {k}
<1>0. Keys \in SUBSET Nat BY ConstantsAssumption DEF Keys
<1>1. T \in SUBSET Keys OBVIOUS
<1>2. IsSuccessor(S, m, Successor(S, m)) /\ IsSuccessor(S, k, Successor(S, k)) BY SuccessorIs
<1>3. CASE ~(k > m)
  <2>1. IsSuccessor(T, m, Successor(S, m)) BY <1>2, <1>3 DEF IsSuccessor
  <2> QED BY <1>1, <2>1, SuccessorIs
<1>4. CASE k > m
  <2>1. CASE \E j \in S : j > m /\ j <= k
    <3>1. Successor(S, m) \in S /\ Successor(S, m) > m /\ \A j \in S : j > m => Successor(S, m) <= j
      BY <1>2, <2>1 DEF IsSuccessor
    <3>2. Successor(S, m) <= k
      <4>1. PICK j \in S : j > m /\ j <= k BY <2>1
      <4>2. Successor(S, m) <= j /\ j \in Nat /\ k \in Nat /\ Successor(S, m) \in Nat BY <1>0, <3>1, <4>1
      <4> QED BY <4>1, <4>2
    <3>3. IsSuccessor(T, m, Successor(S, m)) BY <3>1, <3>2 DEF IsSuccessor
    <3> QED BY <1>1, <3>3, SuccessorIs
  <2>2. CASE ~\E j \in S : j > m /\ j <= k
    <3>1. \A j \in S : j > m <=> j > k BY <1>0, <1>4, <2>2
    <3>2. IsSuccessor(T, m, k)
      <4>1. \A j \in S : j > m => k <= j BY <1>0, <3>1
      <4>2. k <= k BY <1>0
      <4> QED BY <1>4, <4>1, <4>2 DEF IsSuccessor
    <3>3. IsSuccessor(S, k, Successor(S, m)) BY <1>2, <3>1 DEF IsSuccessor
    <3> QED BY <1>1, <3>2, <3>3, SuccessorIs
  <2> QED BY <2>1, <2>2
<1> QED BY <1>3, <1>4

\* A key that goes leaves its place to its successor.
LEMMA SuccessorDelete ==
  ASSUME NEW S \in SUBSET Keys, NEW k \in Keys, NEW m \in Keys, m # k
  PROVE  \/ Successor(S \ {k}, m) = Successor(S, m) /\ Successor(S, m) # k
         \/ Successor(S, m) = k /\ Successor(S \ {k}, m) = Successor(S, k)
<1> DEFINE T == S \ {k}
<1>0. Keys \in SUBSET Nat /\ PAGE_HEAP_NO_SUPREMUM \notin Keys
  BY ConstantsAssumption DEF Keys, PAGE_HEAP_NO_SUPREMUM
<1>1. T \in SUBSET Keys OBVIOUS
<1>2. IsSuccessor(S, m, Successor(S, m)) /\ IsSuccessor(S, k, Successor(S, k)) BY SuccessorIs
<1>3. CASE Successor(S, m) # k
  <2>1. IsSuccessor(T, m, Successor(S, m)) BY <1>2, <1>3 DEF IsSuccessor
  <2> QED BY <1>1, <1>3, <2>1, SuccessorIs
<1>4. CASE Successor(S, m) = k
  <2>1. k \in S /\ k > m /\ \A j \in S : j > m => k <= j BY <1>0, <1>2, <1>4 DEF IsSuccessor
  <2>2. \A j \in T : j > m <=> j > k BY <1>0, <2>1
  <2>3. Successor(S, k) # k BY <1>0, <1>2 DEF IsSuccessor
  <2>4. IsSuccessor(T, m, Successor(S, k))
    <3>1. CASE Successor(S, k) = PAGE_HEAP_NO_SUPREMUM /\ \A j \in S : ~(j > k)
      BY <2>2, <3>1 DEF IsSuccessor
    <3>2. CASE Successor(S, k) \in S /\ Successor(S, k) > k /\ \A j \in S : j > k => Successor(S, k) <= j
      <4>1. Successor(S, k) \in T BY <2>3, <3>2
      <4> QED BY <2>2, <3>2, <4>1 DEF IsSuccessor
    <3> QED BY <1>2, <3>1, <3>2 DEF IsSuccessor
  <2> QED BY <1>1, <1>4, <2>4, SuccessorIs
<1> QED BY <1>3, <1>4

\* NextRec is the successor among the records of the page, before and after a step.
LEMMA NextRecSuccessor ==
  ASSUME NEW p, NEW k
  PROVE  /\ NextRec(p, k) = Successor(Present(p), k) /\ Present(p) \in SUBSET Keys
         /\ NextRec(p, k)' = Successor(Present(p)', k) /\ Present(p)' \in SUBSET Keys
BY DEF NextRec, Successor, Present

-----------------------------------------------------------------------------
(* The steps.                                                              *)

\* GapKept("X"), one transaction and one key at a time.
LEMMA GapKeptIntro ==
  ASSUME \A t \in Trx \ ReadCommitted, p \in Pages, k \in Keys :
           (/\ conc[t] = "ACTIVE" /\ conc'[t] = "ACTIVE"
            /\ rec[p][k] = "absent" /\ HoldsGap(locks, t, p, NextRec(p, k)))
             => \/ rec'[p][k] = "absent" /\ HoldsGap(locks', t, p, NextRec(p, k)')
                \/ rec_trx'[p][k] = t
  PROVE  GapKept("X")
<1> SUFFICES ASSUME NEW t \in Trx \ ReadCommitted, conc[t] = "ACTIVE", conc'[t] = "ACTIVE",
                    NEW pk \in GapHeld(t, "X")
             PROVE  pk \in GapHeld(t, "X")' \/ rec_trx'[pk[1]][pk[2]] = t
  BY DEF GapKept
<1>1. /\ pk \in Pages \X Keys /\ rec[pk[1]][pk[2]] = "absent"
      /\ HoldsGap(locks, t, pk[1], NextRec(pk[1], pk[2]))
  BY DEF GapHeld, HoldsGap, GapLock
<1>2. pk[1] \in Pages /\ pk[2] \in Keys BY <1>1
<1>3. \/ rec'[pk[1]][pk[2]] = "absent" /\ HoldsGap(locks', t, pk[1], NextRec(pk[1], pk[2])')
      \/ rec_trx'[pk[1]][pk[2]] = t
  BY <1>1, <1>2
<1>4. ASSUME rec'[pk[1]][pk[2]] = "absent", HoldsGap(locks', t, pk[1], NextRec(pk[1], pk[2])')
      PROVE  pk \in GapHeld(t, "X")'
  BY <1>1, <1>4 DEF GapHeld, HoldsGap, GapLock
<1> QED BY <1>3, <1>4

\* A step that leaves the records where they are and takes no gap lock from anybody
\* who runs.
LEMMA PlainGapStep ==
  ASSUME \A p \in Pages, k \in Keys : rec'[p][k] = "absent" <=> rec[p][k] = "absent",
         \A t \in Trx : conc[t] = "ACTIVE" /\ t \notin ReadCommitted => Gaps(locks, locks', t)
  PROVE  GapKept("X")
<1>1. ASSUME NEW p \in Pages, NEW k \in Keys PROVE NextRec(p, k)' = NextRec(p, k)
  <2>1. Present(p)' = Present(p) BY DEF Present
  <2> QED BY <2>1, NextRecSuccessor
<1>2. ASSUME NEW t \in Trx \ ReadCommitted, NEW p \in Pages, NEW k \in Keys,
             conc[t] = "ACTIVE", rec[p][k] = "absent", HoldsGap(locks, t, p, NextRec(p, k))
      PROVE  rec'[p][k] = "absent" /\ HoldsGap(locks', t, p, NextRec(p, k)')
  BY <1>1, <1>2 DEF Gaps
<1> QED BY <1>2, GapKeptIntro

\* No insert is in deadlock_occurs.
LEMMA NoInsertCall ==
  ASSUME SupremumIn(locks'), kernel'.op # "insert"
  PROVE  GapInv'
BY DEF GapInv, SupremumIn, InsertCall

\* The steps that touch neither the queues nor the rows.
LEMMA QuietGapStep ==
  ASSUME GapInv, UNCHANGED <<locks, rec>>, kernel'.op # "insert" \/ kernel' = kernel
  PROVE  GapInv' /\ GapKept("X")
<1>1. GapKept("X") BY PlainGapStep, GapsOn
<1>2. SupremumIn(locks') BY DEF GapInv
<1>3. CASE kernel'.op # "insert" BY <1>1, <1>2, <1>3, NoInsertCall
<1>4. CASE kernel' = kernel
  <2>1. NextRec(kernel.page, kernel.key)' = NextRec(kernel.page, kernel.key) BY <1>4 DEF NextRec, Present
  <2>2. InsertCall' BY <1>4, <2>1 DEF GapInv, InsertCall, MayInsert
  <2>3. SupremumIn(locks)' BY <1>2 DEF SupremumIn
  <2> QED BY <1>1, <2>2, <2>3 DEF GapInv
<1> QED BY <1>3, <1>4

\* A struct leaves the queue: a waiting one, or a lock of a transaction that commits.
LEMMA DequeueGapStep ==
  ASSUME LockInv, GapInv, NEW i \in DOMAIN locks,
         locks' = Grant(Remove(locks, i), Revisited(locks, i)),
         locks[i].wait \/ conc[locks[i].trx] # "ACTIVE", rec' = rec
  PROVE  SupremumIn(locks') /\ GapKept("X")
<1>1. locks \in Seq(Lock) BY DEF LockInv, TypeOK
<1>2. ASSUME NEW t, conc[t] = "ACTIVE" \/ t \notin Trx PROVE Gaps(locks, locks', t)
  <2>0. locks[i] \in Lock BY <1>1, SeqIsFcn
  <2>1. locks[i].trx \in Trx BY <2>0 DEF Lock
  <2>2. locks[i].wait \/ locks[i].trx # t BY <1>2, <2>1
  <2>3. Gaps(locks, Grant(Remove(locks, i), Revisited(locks, i)), t) BY <1>1, <2>2, DequeueGaps
  <2> QED BY <2>3
<1>3. SupremumIn(locks')
  <2>1. NoTrx \notin Trx BY ConstantsAssumption
  <2>2. Gaps(locks, locks', NoTrx) BY <1>2, <2>1
  <2> QED BY <2>2 DEF Gaps, GapInv
<1> QED BY <1>2, <1>3, PlainGapStep

\* LockTimeout and the turns of release_off_kernel.
LEMMA DequeueGapActions ==
  ASSUME LockInv, GapInv, NEW t \in Trx, release_off_kernel(t) \/ LockTimeout(t)
  PROVE  GapInv' /\ GapKept("X")
<1>1. CASE release_off_kernel(t)
  <2>1. PICK i \in DOMAIN locks : locks[i].trx = t /\ Dequeue(i) BY <1>1 DEF release_off_kernel
  <2>2. locks' = Grant(Remove(locks, i), Revisited(locks, i)) BY <2>1 DEF Dequeue
  <2>3. conc[t] = "COMMITTED_IN_MEMORY" /\ rec' = rec
    BY <1>1 DEF release_off_kernel, LockInv, CallConsistent, rowVars
  <2>4. kernel'.op # "insert"
    <3>1. kernel \in Calls /\ kernel.op = "release" BY <1>1 DEF release_off_kernel, LockInv, TypeOK
    <3>2. [kernel EXCEPT !.count = @ + 1].op = "release" BY <3>1 DEF Calls
    <3> QED BY <1>1, <3>2, NoCallType DEF release_off_kernel
  <2> QED BY <2>1, <2>2, <2>3, <2>4, DequeueGapStep, NoInsertCall
<1>2. CASE LockTimeout(t)
  <2> DEFINE i == WaitLock(t)
  <2>1. i \in DOMAIN locks /\ locks[i].wait BY <1>2, WaitLockIs DEF LockTimeout
  <2>2. locks' = Grant(Remove(locks, i), Revisited(locks, i)) /\ rec' = rec
    BY <1>2 DEF LockTimeout, cancel_waiting_and_release, rowVars
  <2>3. kernel'.op # "insert" BY <1>2, NoCallType DEF LockTimeout
  <2> HIDE DEF i
  <2> QED BY <2>1, <2>2, <2>3, DequeueGapStep, NoInsertCall
<1> QED BY <1>1, <1>2

\* One struct that is waiting or another's loses bits.
LEMMA DropGaps ==
  ASSUME NEW ls, NEW r, DOMAIN r = DOMAIN ls, NEW i \in DOMAIN ls,
         \A j \in DOMAIN ls : j # i => r[j] = ls[j],
         r[i].type = ls[i].type, r[i].gap = ls[i].gap, r[i].bits \subseteq ls[i].bits,
         NEW u, ls[i].wait \/ ls[i].trx # u
  PROVE  Gaps(ls, r, u)
<1>1. OnSupremum(ls[i]) => OnSupremum(r[i]) BY DEF OnSupremum
<1>2. \A p, h : ~GapLock(ls[i], u, p, h) BY DEF GapLock
<1>3. \A j \in DOMAIN r : OnSupremum(r[j]) \/ \E n \in DOMAIN ls : OnSupremum(ls[n]) => OnSupremum(r[j])
  BY <1>1
<1>4. \A j \in DOMAIN ls : \A p, h : GapLock(ls[j], u, p, h) => \E n \in DOMAIN r : GapLock(r[n], u, p, h)
  BY <1>2
<1> QED BY <1>3, <1>4, GapsFrom

\* rec_unlock takes locks of READ COMMITTED readers only.
LEMMA UnlockGapAction ==
  ASSUME LockInv, GapInv, NEW u \in Trx, NEW p \in Pages, NEW k \in Keys, NEW mode, rec_unlock(u, p, k, mode)
  PROVE  GapInv' /\ GapKept("X")
<1>0. locks \in Seq(Lock) /\ u \in ReadCommitted /\ rec' = rec /\ kernel'.op # "insert"
  BY NoCallType DEF LockInv, TypeOK, rec_unlock, rowVars
<1>1. PICK i \in DOMAIN locks :
        /\ locks[i].trx = u
        /\ LET ls == [locks EXCEPT ![i].bits = @ \ {k}]
               who == {j \in DOMAIN ls : OnRec(ls[j], p, k)}
           IN  locks' = Grant(ls, who)
  BY DEF rec_unlock
<1> DEFINE ls == [locks EXCEPT ![i].bits = @ \ {k}]
           who == {j \in DOMAIN ls : OnRec(ls[j], p, k)}
<1>2. locks' = Grant(ls, who) /\ who \in SUBSET DOMAIN ls BY <1>1
<1>3. locks[i] \in Lock BY <1>0, SeqIsFcn
<1>4. /\ DOMAIN ls = DOMAIN locks /\ \A j \in DOMAIN locks : j # i => ls[j] = locks[j]
      /\ ls[i] = [locks[i] EXCEPT !.bits = @ \ {k}]
  BY <1>0, <1>3
<1>5. /\ ls[i] \in Lock /\ ls[i].type = locks[i].type /\ ls[i].gap = locks[i].gap
      /\ ls[i].bits \subseteq locks[i].bits
  BY <1>3, <1>4 DEF Lock
<1>6. ls \in Seq(Lock)
  <2>1. \A j \in DOMAIN locks : ls[j] \in Lock BY <1>0, <1>4, <1>5, SeqIsFcn
  <2>2. Len(locks) \in Nat /\ DOMAIN locks = 1..Len(locks) BY <1>0, SeqIsFcn
  <2>3. ls \in [1..Len(locks) -> Lock] BY <2>1, <2>2
  <2> HIDE DEF ls
  <2> QED BY <2>2, <2>3, SeqOfFcn
<1> HIDE DEF ls, who
<1>7. ASSUME NEW t, t # u PROVE Gaps(locks, locks', t)
  <2>1. Gaps(locks, ls, t) BY <1>1, <1>4, <1>5, <1>7, DropGaps
  <2>2. Gaps(ls, Grant(ls, who), t) BY <1>2, <1>6, GrantGaps
  <2> QED BY <1>2, <2>1, <2>2, GapsOn
<1>8. SupremumIn(locks')
  <2>1. NoTrx # u BY ConstantsAssumption
  <2>2. Gaps(locks, locks', NoTrx) BY <1>7, <2>1
  <2> QED BY <2>2 DEF Gaps, GapInv
<1>9. GapKept("X") BY <1>0, <1>7, PlainGapStep
<1> QED BY <1>0, <1>8, <1>9, NoInsertCall

\* DB_DEADLOCK takes a request that waits.
LEMMA RefuseGapActions ==
  ASSUME LockInv, GapInv, NEW t \in Trx, VictimIsStart(t) \/ ExceedMaxDepth(t)
  PROVE  GapInv' /\ GapKept("X")
<1> DEFINE w == WaitLock(t)
<1>1. Refuse(t) /\ IsWaiting(locks, t) BY SearchedWait DEF VictimIsStart, ExceedMaxDepth
<1>2. w \in DOMAIN locks /\ locks[w].wait BY <1>1, WaitLockIs
<1>3. locks \in Seq(Lock) /\ locks[w] \in Lock BY <1>2, SeqIsFcn DEF LockInv, TypeOK
<1>4. rec' = rec /\ kernel'.op # "insert" BY <1>1, NoCallType DEF Refuse, rowVars
<1>5. locks' = IF locks[w].type = "TABLE" THEN Remove(locks, w)
               ELSE [locks EXCEPT ![w] = [@ EXCEPT !.wait = FALSE, !.bits = {}]]
  BY <1>1 DEF Refuse
<1> HIDE DEF w
<1>6. ASSUME NEW u PROVE Gaps(locks, locks', u)
  <2>1. CASE locks[w].type = "TABLE"
    <3>1. Gaps(locks, Remove(locks, w), u) BY <1>2, <1>3, RemoveGaps
    <3> QED BY <1>5, <2>1, <3>1
  <2>2. CASE locks[w].type # "TABLE"
    <3> DEFINE r == [locks EXCEPT ![w] = [@ EXCEPT !.wait = FALSE, !.bits = {}]]
    <3>1. /\ DOMAIN r = DOMAIN locks /\ \A j \in DOMAIN locks : j # w => r[j] = locks[j]
          /\ r[w] = [locks[w] EXCEPT !.wait = FALSE, !.bits = {}]
      BY <1>2, <1>3
    <3>2. locks' = r BY <1>5, <2>2
    <3> HIDE DEF r
    <3>3. r[w].type = locks[w].type /\ r[w].gap = locks[w].gap /\ r[w].bits \subseteq locks[w].bits
      BY <1>3, <3>1 DEF Lock
    <3>4. Gaps(locks, r, u) BY <1>2, <3>1, <3>3, DropGaps
    <3> QED BY <3>2, <3>4
  <2> QED BY <2>1, <2>2
<1>7. SupremumIn(locks') BY <1>6 DEF Gaps, GapInv
<1>8. GapKept("X") BY <1>4, <1>6, PlainGapStep
<1> QED BY <1>4, <1>7, <1>8, NoInsertCall

\* The steps of a transaction and of its waits that change no queue and no record.
LEMMA QuietGapActions ==
  ASSUME LockInv, GapInv, NEW t \in Trx,
         \/ start_low(t) \/ RollbackStart(t) \/ ResumeWait(t) \/ ReportTimeout(t)
         \/ commit_off_kernel(t) \/ ReleaseReenter(t) \/ ReleaseEnd(t)
  PROVE  GapInv' /\ GapKept("X")
<1>1. CASE start_low(t) \/ RollbackStart(t) \/ ResumeWait(t) \/ ReportTimeout(t)
  <2>1. UNCHANGED <<locks, rec>> /\ kernel' = kernel
    BY <1>1 DEF start_low, RollbackStart, ResumeWait, ReportTimeout, rowVars
  <2> QED BY <2>1, QuietGapStep
<1>2. CASE commit_off_kernel(t) \/ ReleaseReenter(t) \/ ReleaseEnd(t)
  <2>1. Call("release", t, NoTable, 0, "absent", 0).op = "release" BY DEF Call
  <2>2. UNCHANGED <<locks, rec>> /\ kernel'.op # "insert"
    BY <1>2, <2>1, NoCallType DEF commit_off_kernel, ReleaseReenter, ReleaseEnd, rowVars
  <2> QED BY <2>2, QuietGapStep
<1> QED BY <1>1, <1>2

\* A request: the queue grows, the records stay, and no insert is refused.
LEMMA RequestGapStep ==
  ASSUME GapInv, \A u : Gaps(locks, locks', u), kernel'.op # "insert",
         \A p \in Pages, k \in Keys : rec'[p][k] = "absent" <=> rec[p][k] = "absent"
  PROVE  GapInv' /\ GapKept("X")
<1>1. SupremumIn(locks') BY DEF Gaps, GapInv
<1>2. GapKept("X") BY PlainGapStep
<1> QED BY <1>1, <1>2, NoInsertCall

\* lock_table.
LEMMA TableGapAction ==
  ASSUME LockInv, GapInv, NEW t \in Trx, NEW tab \in Tables, NEW mode \in TableModes, lock_table(t, tab, mode)
  PROVE  GapInv' /\ GapKept("X")
<1>1. locks \in Seq(Lock) /\ rec' = rec BY DEF LockInv, TypeOK, lock_table, rowVars
<1>2. ASSUME NEW w \in BOOLEAN, NEW u PROVE Gaps(locks, table_create(locks, t, tab, mode, w), u)
  <2> DEFINE l == [trx |-> t, type |-> "TABLE", on |-> tab, mode |-> mode, gap |-> "ORDINARY",
                   ins |-> FALSE, wait |-> w, bits |-> {}]
  <2>1. l \in Lock /\ l.type = "TABLE" BY DEF Lock, GapModes
  <2>2. table_create(locks, t, tab, mode, w) = Append(locks, l) BY DEF table_create
  <2> HIDE DEF l
  <2>3. OnSupremum(l) BY <2>1 DEF OnSupremum
  <2> QED BY <1>1, <2>1, <2>2, <2>3, AppendGaps
<1>3. \E w \in BOOLEAN : locks' = table_create(locks, t, tab, mode, w) BY DEF lock_table
<1>4. \A u : Gaps(locks, locks', u) BY <1>2, <1>3
<1>5. kernel'.op # "insert"
  <2>1. Call("lock", t, NoTable, 0, "absent", 0).op = "lock" BY DEF Call
  <2> QED BY <2>1, NoCallType DEF lock_table, CanRequest
<1> QED BY <1>1, <1>4, <1>5, RequestGapStep

\* rec_convert_impl_to_expl.
LEMMA ConvertGaps ==
  ASSUME NEW ls \in Seq(Lock), NEW p \in Pages, NEW k \in Keys, NEW u
  PROVE  /\ Gaps(ls, rec_convert_impl_to_expl(ls, p, k), u)
         /\ rec_convert_impl_to_expl(ls, p, k) \in Seq(Lock)
<1> DEFINE req == Request("X", "REC_NOT_GAP", FALSE)
           r == rec_convert_impl_to_expl(ls, p, k)
<1>1. \A o, q \in clust_rec_some_has_impl(p, k) : o = q BY DEF clust_rec_some_has_impl
<1>2. CASE \A o \in clust_rec_some_has_impl(p, k) : rec_has_expl(ls, p, req, k, o)
  <2>1. r = ls BY <1>2 DEF rec_convert_impl_to_expl
  <2> QED BY <2>1, GapsOn
<1>3. ASSUME NEW o \in clust_rec_some_has_impl(p, k), ~rec_has_expl(ls, p, req, k, o)
      PROVE  Gaps(ls, r, u) /\ r \in Seq(Lock)
  <2>1. r = rec_add_to_queue(ls, o, p, req, k) BY <1>1, <1>3 DEF rec_convert_impl_to_expl
  <2>2. o \in Trx BY DEF clust_rec_some_has_impl
  <2>3. req \in Requests BY RequestType
  <2> HIDE DEF req, r
  <2> QED BY <2>1, <2>2, <2>3, KeyIs, AddGaps, AddToQueue
<1> QED BY <1>2, <1>3

\* rec_lock when it does not wait.
LEMMA RecLockGaps ==
  ASSUME NEW ls \in Seq(Lock), NEW t \in Trx, NEW p \in Pages, NEW h \in HeapNos, NEW req \in Requests,
         h = PAGE_HEAP_NO_SUPREMUM => req.gap # "REC_NOT_GAP", NEW impl \in BOOLEAN, NEW r,
         \/ rec_lock_fast(ls, t, p, req, h) /\ r = RecLockFast(ls, impl, t, p, req, h)
         \/ r = RecLockSlow(ls, impl, t, p, req, h),
         NEW u
  PROVE  Gaps(ls, r, u)
<1>1. CASE r = ls BY <1>1, GapsOn
<1>2. CASE r = rec_create_low(ls, t, p, req, h, FALSE) BY <1>2, NewGaps
<1>3. ASSUME NEW i \in DOMAIN ls, ls[i].gap = req.gap, r = SetBit(ls, i, h)
      PROVE  Gaps(ls, r, u)
  <2>1. h = PAGE_HEAP_NO_SUPREMUM => ls[i].gap # "REC_NOT_GAP" BY <1>3
  <2> QED BY <1>3, <2>1, SetBitGaps
<1>4. CASE r = rec_add_to_queue(ls, t, p, req, h) BY <1>4, AddGaps
<1>5. CASE rec_lock_fast(ls, t, p, req, h) /\ r = RecLockFast(ls, impl, t, p, req, h)
  <2>1. CASE impl BY <1>1, <1>5, <2>1 DEF RecLockFast
  <2>2. CASE ~impl /\ PageLocks(ls, p) = {} BY <1>2, <1>5, <2>2 DEF RecLockFast
  <2>3. CASE ~impl /\ PageLocks(ls, p) # {}
    <3>1. PICK i \in DOMAIN ls : PageLocks(ls, p) = {i} /\ ls[i].gap = req.gap
      BY <1>5, <2>3 DEF rec_lock_fast
    <3>2. (CHOOSE j \in DOMAIN ls : j \in PageLocks(ls, p)) = i BY <3>1
    <3>3. r = SetBit(ls, i, h) BY <1>5, <2>3, <3>2 DEF RecLockFast
    <3> QED BY <1>3, <3>1, <3>3
  <2> QED BY <2>1, <2>2, <2>3
<1>6. CASE r = RecLockSlow(ls, impl, t, p, req, h)
  BY <1>1, <1>4, <1>6 DEF RecLockSlow
<1> QED BY <1>5, <1>6

\* rec_lock for a locking read or for the modification of a record that is there.
LEMMA RecLockGapStep ==
  ASSUME LockInv, GapInv, NEW t \in Trx, kernel = NoCall, NEW ls \in Seq(Lock), \A u : Gaps(locks, ls, u),
         NEW impl \in BOOLEAN, NEW p \in Pages, NEW req \in Requests, NEW h \in HeapNos, NEW call,
         h = PAGE_HEAP_NO_SUPREMUM => req.gap # "REC_NOT_GAP",
         rec_lock(ls, impl, t, p, req, h, call), call.op \in {"lock", "modify"},
         call.op = "modify" => h \in Keys /\ rec[p][h] # "absent" /\ call.to # "absent"
  PROVE  GapInv' /\ GapKept("X")
<1>1. ASSUME NEW r, Succeed(r, call.op, t, p, h, call.to), kernel' = kernel,
             \/ rec_lock_fast(ls, t, p, req, h) /\ r = RecLockFast(ls, impl, t, p, req, h)
             \/ r = RecLockSlow(ls, impl, t, p, req, h)
      PROVE  GapInv' /\ GapKept("X")
  <2>1. \A u : Gaps(ls, r, u) BY <1>1, RecLockGaps
  <2>2. \A u : Gaps(locks, r, u) BY <2>1, GapsOn
  <2>3. locks' = r BY <1>1 DEF Succeed
  <2>4. \A q \in Pages, k \in Keys : rec'[q][k] = "absent" <=> rec[q][k] = "absent"
    <3>1. CASE call.op = "lock" /\ rec' = rec BY <3>1
    <3>2. CASE call.op = "modify" /\ rec' = [rec EXCEPT ![p][h] = call.to]
      <4>1. h \in Keys /\ rec[p][h] # "absent" /\ call.to # "absent" BY <3>2
      <4>2. rec \in [Pages -> [Keys -> RecStates]] BY DEF LockInv, TypeOK
      <4>3. ASSUME NEW q \in Pages, NEW k \in Keys
            PROVE  rec'[q][k] = IF q = p /\ k = h THEN call.to ELSE rec[q][k]
        BY <3>2, <4>1, <4>2
      <4> QED BY <4>1, <4>3
    <3> QED BY <1>1, <3>1, <3>2 DEF Succeed, rowVars
  <2>5. kernel'.op # "insert" BY <1>1, NoCallType
  <2> QED BY <2>2, <2>3, <2>4, <2>5, RequestGapStep
<1>2. CASE rec_enqueue_waiting(ls, t, p, req, h, call)
  <2>1. \A u : Gaps(ls, rec_create_low(ls, t, p, req, h, TRUE), u) BY NewGaps
  <2>2. locks' = rec_create_low(ls, t, p, req, h, TRUE) /\ kernel' = call /\ rec' = rec
    BY <1>2 DEF rec_enqueue_waiting, rowVars
  <2>3. \A u : Gaps(locks, locks', u) BY <2>1, <2>2, GapsOn
  <2>4. kernel'.op # "insert" BY <2>2
  <2> QED BY <2>2, <2>3, <2>4, RequestGapStep
<1> QED BY <1>1, <1>2 DEF rec_lock

\* Locking reads.
LEMMA ReadGapAction ==
  ASSUME LockInv, GapInv, NEW t \in Trx, NEW p \in Pages, NEW h \in HeapNos \ {PAGE_HEAP_NO_INFIMUM},
         NEW mode \in RecModes, NEW gap \in GapModes, clust_rec_read_check_and_lock(t, p, h, mode, gap)
  PROVE  GapInv' /\ GapKept("X")
<1> DEFINE req == Request(mode, gap, FALSE)
           ls == IF h = PAGE_HEAP_NO_SUPREMUM THEN locks ELSE rec_convert_impl_to_expl(locks, p, h)
           call == Call("lock", t, p, h, "absent", 0)
<1>0. locks \in Seq(Lock) BY DEF LockInv, TypeOK
<1>1. req \in Requests /\ req.gap = gap BY RequestType DEF Request
<1>2. h = PAGE_HEAP_NO_SUPREMUM \/ h \in Keys BY DEF clust_rec_read_check_and_lock, Present
<1>3. ls \in Seq(Lock) /\ \A u : Gaps(locks, ls, u)
  <2>1. CASE h = PAGE_HEAP_NO_SUPREMUM BY <1>0, <2>1, GapsOn
  <2>2. CASE h # PAGE_HEAP_NO_SUPREMUM
    <3>1. ls = rec_convert_impl_to_expl(locks, p, h) BY <2>2
    <3> HIDE DEF ls
    <3> QED BY <1>0, <1>2, <2>2, <3>1, ConvertGaps
  <2> QED BY <2>1, <2>2
<1>4. /\ rec_lock(ls, FALSE, t, p, req, h, call) /\ kernel = NoCall
      /\ h = PAGE_HEAP_NO_SUPREMUM => req.gap # "REC_NOT_GAP"
  BY <1>1 DEF clust_rec_read_check_and_lock, CanRequest
<1>5. call.op = "lock" BY DEF Call
<1> HIDE DEF req, ls, call
<1> QED BY <1>1, <1>3, <1>4, <1>5, RecLockGapStep

\* Modifications.
LEMMA ModifyGapAction ==
  ASSUME LockInv, GapInv, NEW t \in Trx, NEW p \in Pages, NEW k \in Keys, NEW to \in {"live", "marked"},
         clust_rec_modify_check_and_lock(t, p, k, to)
  PROVE  GapInv' /\ GapKept("X")
<1> DEFINE req == Request("X", "REC_NOT_GAP", FALSE)
           ls == rec_convert_impl_to_expl(locks, p, k)
           call == Call("modify", t, p, k, to, 0)
<1>0. locks \in Seq(Lock) BY DEF LockInv, TypeOK
<1>1. req \in Requests BY RequestType
<1>2. ls \in Seq(Lock) /\ \A u : Gaps(locks, ls, u) BY <1>0, ConvertGaps
<1>3. rec_lock(ls, TRUE, t, p, req, k, call) /\ kernel = NoCall /\ rec[p][k] # "absent"
  BY DEF clust_rec_modify_check_and_lock, CanRequest, Present
<1>4. call.op = "modify" /\ call.to = to /\ to # "absent" BY DEF Call
<1>5. k \in HeapNos /\ k # PAGE_HEAP_NO_SUPREMUM BY KeyIs
<1> HIDE DEF req, ls, call
<1> QED BY <1>1, <1>2, <1>3, <1>4, <1>5, RecLockGapStep
-----------------------------------------------------------------------------
(* Inserts.                                                                *)

\* The gap before the successor is not locked by others: a gap lock of somebody
\* else would have been in the way.
LEMMA MayInsertFrees ==
  ASSUME SupremumIn(locks), NEW u, NEW p, NEW k, MayInsert(u, p, k), NEW t, t # u
  PROVE  ~HoldsGap(locks, t, p, NextRec(p, k))
<1> DEFINE h == NextRec(p, k)
<1> SUFFICES ASSUME NEW i \in DOMAIN locks, GapLock(locks[i], t, p, h) PROVE FALSE
  BY DEF HoldsGap
<1>1. /\ locks[i].trx = t /\ locks[i].mode = "X" /\ OnRec(locks[i], p, h) /\ ~locks[i].ins
      /\ locks[i].gap # "REC_NOT_GAP" \/ h = PAGE_HEAP_NO_SUPREMUM
  BY DEF GapLock, LocksGap
<1>2. locks[i].gap # "REC_NOT_GAP" BY <1>1 DEF SupremumIn, OnRec
<1>3. ~mode_compatible("X", "X") BY DEF mode_compatible, Lock_compatibility_matrix
<1>4. rec_blocks(locks[i], u, InsertRequest, h)
  BY <1>1, <1>2, <1>3 DEF rec_blocks, InsertRequest, Request
<1> QED BY <1>1, <1>4 DEF MayInsert, rec_other_has_conflicting

\* A record comes: its locks are those on the gap it parts.
LEMMA InsertGapStep ==
  ASSUME LockInv, GapInv, NEW u \in Trx, NEW p \in Pages, NEW k \in Keys, NEW to, to # "absent",
         rec[p][k] = "absent", MayInsert(u, p, k), Succeed(locks, "insert", u, p, k, to)
  PROVE  SupremumIn(locks') /\ GapKept("X")
<1> DEFINE next == NextRec(p, k)
           Q == {i \in DOMAIN locks : /\ OnRec(locks[i], p, next) /\ ~locks[i].ins
                                      /\ next = PAGE_HEAP_NO_SUPREMUM \/ locks[i].gap # "REC_NOT_GAP"}
<1>0. /\ locks \in Seq(Lock) /\ BitsWithin(locks, Recs) /\ SupremumIn(locks)
      /\ rec \in [Pages -> [Keys -> RecStates]] /\ rec_trx \in [Pages -> [Keys -> Trx \cup {NoTrx}]]
  BY BitsPresentIs DEF LockInv, TypeOK, GapInv
<1>1. /\ locks' \in rec_inherit_to_gap_if_gap_lock(locks, p, k, next)
      /\ rec' = [rec EXCEPT ![p][k] = to] /\ rec_trx' = [rec_trx EXCEPT ![p][k] = u]
  BY DEF Succeed
<1>2. /\ Q \in SUBSET DOMAIN locks
      /\ \A i \in Q : locks[i].type = "REC" /\ locks[i].on = p /\ locks[i].mode \in RecModes
  BY <1>0 DEF BitsWithin, OnRec
<1>3. locks' \in InheritTo(locks, Q, p, k) BY <1>1 DEF rec_inherit_to_gap_if_gap_lock
<1>4. ASSUME NEW t PROVE HoldsGap(locks, t, p, next) => \E i \in Q : locks[i].trx = t /\ locks[i].mode = "X"
  BY DEF HoldsGap, GapLock, LocksGap
<1>5. \A q \in Pages, m \in Keys : /\ rec'[q][m] = IF q = p /\ m = k THEN to ELSE rec[q][m]
                                   /\ rec_trx'[p][k] = u
  BY <1>0, <1>1
<1> HIDE DEF Q
<1>6. k \in HeapNos BY KeyIs
<1>7. \A t : Gaps(locks, locks', t)
  <2>1. Inherited(locks, locks', p, k) BY <1>0, <1>2, <1>3, <1>6, InheritResult
  <2> QED BY <1>0, <1>6, <2>1, InheritGaps
<1>8. SupremumIn(locks') BY <1>0, <1>7 DEF Gaps
<1>9. ASSUME NEW t, HoldsGap(locks, t, p, next) PROVE HoldsGap(locks', t, p, k)
  <2>1. PICK i \in Q : locks[i].trx = t /\ locks[i].mode = "X" BY <1>4, <1>9
  <2>2. HoldsGap(locks', locks[i].trx, p, k) BY <1>0, <1>2, <1>3, <1>6, <2>1, HeirHasGap
  <2> QED BY <2>1, <2>2
<1>10. ASSUME NEW q \in Pages PROVE Present(q)' = IF q = p THEN Present(q) \cup {k} ELSE Present(q)
  BY <1>5 DEF Present
<1>11. ASSUME NEW t \in Trx, NEW q \in Pages, NEW m \in Keys, rec[q][m] = "absent",
              HoldsGap(locks, t, q, NextRec(q, m))
       PROVE  \/ rec'[q][m] = "absent" /\ HoldsGap(locks', t, q, NextRec(q, m)')
              \/ rec_trx'[q][m] = t
  <2>1. CASE q = p /\ m = k
    <3>1. t = u BY <1>0, <1>11, <2>1, MayInsertFrees
    <3> QED BY <1>5, <2>1, <3>1
  <2>2. CASE q = p /\ m # k
    <3>1. rec'[q][m] = "absent" BY <1>5, <1>11, <2>2
    <3>2. \/ NextRec(q, m)' = NextRec(q, m)
          \/ NextRec(q, m)' = k /\ NextRec(q, m) = next
      <4>1. Present(q)' = Present(q) \cup {k} BY <1>10, <2>2
      <4>2. /\ NextRec(q, m) = Successor(Present(q), m) /\ Present(q) \in SUBSET Keys
            /\ NextRec(q, m)' = Successor(Present(q)', m)
            /\ next = Successor(Present(p), k)
        BY NextRecSuccessor
      <4>3. \/ Successor(Present(q) \cup {k}, m) = Successor(Present(q), m)
            \/ Successor(Present(q) \cup {k}, m) = k /\ Successor(Present(q), m) = Successor(Present(q), k)
        BY <2>2, <4>2, SuccessorInsert
      <4> QED BY <2>2, <4>1, <4>2, <4>3
    <3>3. HoldsGap(locks', t, q, NextRec(q, m)) BY <1>7, <1>11 DEF Gaps
    <3> QED BY <1>9, <1>11, <2>2, <3>1, <3>2, <3>3
  <2>3. CASE q # p
    <3>1. rec'[q][m] = "absent" BY <1>5, <1>11, <2>3
    <3>2. NextRec(q, m)' = NextRec(q, m)
      <4>1. Present(q)' = Present(q) BY <1>10, <2>3
      <4> QED BY <4>1, NextRecSuccessor
    <3>3. HoldsGap(locks', t, q, NextRec(q, m)) BY <1>7, <1>11 DEF Gaps
    <3> QED BY <3>1, <3>2, <3>3
  <2> QED BY <2>1, <2>2, <2>3
<1>12. GapKept("X") BY <1>11, GapKeptIntro
<1> QED BY <1>8, <1>12

\* The answer of rec_insert_check_and_lock.
LEMMA InsertGapAction ==
  ASSUME LockInv, GapInv, NEW t \in Trx, NEW p \in Pages, NEW k \in Keys, rec_insert_check_and_lock(t, p, k)
  PROVE  GapInv' /\ GapKept("X")
<1> DEFINE next == NextRec(p, k)
           call == Call("insert", t, p, k, "live", 0)
           l == NewRecLock(t, p, InsertRequest, next, TRUE)
<1>0. locks \in Seq(Lock) /\ rec[p][k] = "absent" /\ kernel = NoCall
  BY DEF LockInv, TypeOK, rec_insert_check_and_lock, CanRequest
<1>1. CASE /\ ~rec_other_has_conflicting(locks, p, InsertRequest, next, t)
           /\ Succeed(locks, "insert", t, p, k, "live") /\ kernel' = kernel
  <2>1. MayInsert(t, p, k) BY <1>1 DEF MayInsert
  <2>2. SupremumIn(locks') /\ GapKept("X") BY <1>0, <1>1, <2>1, InsertGapStep
  <2>3. kernel'.op # "insert" BY <1>0, <1>1, NoCallType
  <2> QED BY <2>2, <2>3, NoInsertCall
<1>2. CASE rec_enqueue_waiting(locks, t, p, InsertRequest, next, call)
  <2>1. locks' = Append(locks, l) /\ kernel' = call /\ rec' = rec
    BY <1>2 DEF rec_enqueue_waiting, rec_create_low, rowVars
  <2>2. call.op = "insert" /\ call.trx = t /\ call.page = p /\ call.key = k BY DEF Call
  <2>3. next \in HeapNos /\ InsertRequest \in Requests BY NextRecIs, RequestType DEF InsertRequest
  <2>4. l \in Lock /\ l.trx = t /\ l.wait
    <3>1. l \in Lock BY <2>3, NewRecLockType
    <3> QED BY <3>1 DEF NewRecLock
  <2>5. \A u : Gaps(locks, locks', u)
    <3>1. \A u : Gaps(locks, rec_create_low(locks, t, p, InsertRequest, next, TRUE), u)
      BY <1>0, <2>3, NewGaps
    <3> QED BY <2>1, <3>1 DEF rec_create_low
  <2>6. SupremumIn(locks') BY <2>5 DEF Gaps, GapInv
  <2>7. GapKept("X") BY <2>1, <2>5, PlainGapStep
  <2>8. NextRec(p, k)' = next BY <2>1 DEF NextRec, Present
  <2>9. locks'[Len(locks')] = NewRecLock(t, p, InsertRequest, NextRec(p, k)', TRUE)
    <3> HIDE DEF l, next
    <3>1. Len(Append(locks, l)) = Len(locks) + 1 /\ Append(locks, l)[Len(locks) + 1] = l
      BY <1>0, <2>4, AppendType
    <3>2. locks'[Len(locks')] = l BY <2>1, <3>1
    <3> QED BY <2>8, <3>2 DEF l
  <2>10. Len(locks') \in DOMAIN locks'
    <3> HIDE DEF l
    <3>1. DOMAIN Append(locks, l) = 1..(Len(locks) + 1) /\ Len(locks) \in Nat
          /\ Len(Append(locks, l)) = Len(locks) + 1
      BY <1>0, <2>4, AppendType
    <3> QED BY <2>1, <3>1
  <2>11. locks'[Len(locks')].trx = t /\ locks'[Len(locks')].wait
    BY <2>9 DEF NewRecLock
  <2>12. IsWaiting(locks', t) BY <2>10, <2>11 DEF IsWaiting
  <2> HIDE DEF call, l, next
  <2>13. /\ kernel'.trx = t /\ kernel'.page = p /\ kernel'.key = k BY <2>1, <2>2
  <2>14. NextRec(kernel.page, kernel.key)' = NextRec(p, k)' BY <2>13 DEF NextRec, Present
  <2>15. InsertCall'
    <3>1. locks'[Len(locks')] =
            NewRecLock(kernel'.trx, kernel'.page, InsertRequest, NextRec(kernel.page, kernel.key)', TRUE)
      BY <2>9, <2>13, <2>14
    <3>2. IsWaiting(locks, kernel.trx)' BY <2>12, <2>13 DEF IsWaiting
    <3> QED BY <3>1, <3>2 DEF InsertCall
  <2>16. SupremumIn(locks)' BY <2>6 DEF SupremumIn
  <2> QED BY <2>7, <2>15, <2>16 DEF GapInv
<1> QED BY <1>1, <1>2 DEF rec_insert_check_and_lock, InsertRequest
-----------------------------------------------------------------------------
(* The answers of deadlock_occurs.                                         *)

Newest(ls) == ls[Len(ls)]

\* The newest request, when a request of another is cancelled: it waits as before
\* or, granted, has nothing in its way.
LEMMA RequestSurvives ==
  ASSUME NEW ls \in Seq(Lock), NEW i \in DOMAIN ls, OneWaitIn(ls), NEW t \in Trx, NEW p \in Pages,
         NEW req \in Requests, NEW h \in HeapNos, ls[i].trx # t,
         Newest(ls) = NewRecLock(t, p, req, h, TRUE)
  PROVE  LET r == Grant(Remove(ls, i), Revisited(ls, i))
         IN  IF IsWaiting(r, t) THEN r[Len(r)] = NewRecLock(t, p, req, h, TRUE)
                                ELSE ~rec_other_has_conflicting(r, p, req, h, t)
<1> DEFINE l == NewRecLock(t, p, req, h, TRUE)
           q == Remove(ls, i)
           who == Revisited(ls, i)
           r == Grant(q, who)
           n == Len(q)
<1>1. l.trx = t /\ l.wait /\ l.bits = {h} BY DEF NewRecLock
<1>2. /\ q \in Seq(Lock) /\ n = Len(ls) - 1 /\ n \in Nat /\ DOMAIN ls = 1..Len(ls) /\ Len(ls) \in Nat
      /\ DOMAIN q = 1..n /\ who \in SUBSET DOMAIN q
  BY RemoveType, SeqIsFcn DEF Revisited
<1>3. Shrunk(q, r) BY <1>2, GrantShrinks
<1>4. r = [j \in DOMAIN q |-> IF j \in Grantable(q, who) THEN [q[j] EXCEPT !.wait = FALSE] ELSE q[j]]
  BY DEF Grant
<1> HIDE DEF l
<1>5. i # Len(ls) /\ i \in 1..Len(ls) BY <1>1, <1>2 DEF l, Newest
<1>6. n \in DOMAIN q /\ q[n] = l
  <2>1. Len(ls) \in DOMAIN ls /\ Shift(i, Len(ls)) = n BY <1>2, <1>5 DEF Shift
  <2>2. Shift(i, Len(ls)) \in DOMAIN q /\ q[Shift(i, Len(ls))] = ls[Len(ls)]
    BY <1>5, <2>1, RemoveIs
  <2> QED BY <2>1, <2>2 DEF l, Newest
<1>7. CASE IsWaiting(r, t)
  <2>1. ls[Len(ls)].trx = t /\ ls[Len(ls)].wait BY <1>1 DEF l, Newest
  <2>2. r[Len(r)].trx = t /\ r[Len(r)].wait BY <1>7, <2>1, NewestSurvives
  <2>3. Len(r) = n BY <1>3 DEF Shrunk
  <2>4. n \notin Grantable(q, who)
    <3>1. q[n] \in Lock BY <1>2, <1>6, SeqIsFcn
    <3> SUFFICES ASSUME n \in Grantable(q, who) PROVE FALSE OBVIOUS
    <3>2. r[n] = [q[n] EXCEPT !.wait = FALSE] BY <1>4, <1>6
    <3> QED BY <2>2, <2>3, <3>1, <3>2 DEF Lock
  <2>5. r[n] = l BY <1>4, <1>6, <2>4
  <2> QED BY <1>7, <2>3, <2>5 DEF l
<1>8. CASE ~IsWaiting(r, t)
  <2>1. n \in Grantable(q, who)
    <3> SUFFICES ASSUME n \notin Grantable(q, who) PROVE FALSE OBVIOUS
    <3>1. r[n] = l BY <1>4, <1>6
    <3>2. n \in DOMAIN r BY <1>4, <1>6
    <3> QED BY <1>1, <1>8, <3>1, <3>2 DEF IsWaiting
  <2>2. ~has_to_wait_in_queue(q, n) BY <2>1 DEF Grantable
  <2>3. ASSUME NEW m \in DOMAIN r, OnRec(r[m], p, h), rec_blocks(r[m], t, req, h) PROVE FALSE
    <3>1. m \in DOMAIN q BY <1>4
    <3>2. Alike(q[m], r[m]) /\ r[m].bits \subseteq q[m].bits BY <1>3, <3>1 DEF Shrunk
    <3>3. OnRec(q[m], p, h) BY <2>3, <3>2 DEF OnRec, Alike
    <3>4. rec_blocks(q[m], t, req, h) BY <2>3, <3>2 DEF rec_blocks, Alike
    <3>5. has_to_wait_for(l, q[m]) BY <3>3, <3>4, ConflictWaits DEF l
    <3>6. q[m].trx # t BY <3>4 DEF rec_blocks
    <3>7. m # n BY <1>1, <1>6, <3>6
    <3>8. m \in 1..(n-1) BY <1>2, <3>1, <3>7
    <3> QED BY <1>6, <2>2, <3>5, <3>8 DEF has_to_wait_in_queue
  <2> QED BY <1>8, <2>3 DEF rec_other_has_conflicting
<1> QED BY <1>7, <1>8 DEF l, q, who, r

\* LOCK_VICTIM_IS_OTHER.
LEMMA VictimGapAction ==
  ASSUME LockInv, WaitInv, GapInv, NEW t \in Trx, NEW v \in Trx, VictimIsOther(t, v)
  PROVE  GapInv' /\ GapKept("X")
<1> DEFINE i == WaitLock(v)
           p == kernel.page
           k == kernel.key
           h == NextRec(p, k)
<1>1. /\ i \in DOMAIN locks /\ locks[i].wait /\ locks[i].trx = v
      /\ v # t /\ IsWaiting(locks, t) /\ Checking(t)
  BY WaitLockIs, SearchedWait DEF VictimIsOther
<1>2. /\ kernel' = kernel /\ rec' = rec
      /\ locks' = Grant(Remove(locks, i), Revisited(locks, i))
  BY DEF VictimIsOther, Choose, cancel_waiting_and_release, rowVars
<1>3. SupremumIn(locks') /\ GapKept("X") BY <1>1, <1>2, DequeueGapStep
<1> HIDE DEF i
<1>4. InsertCall'
  <2>1. CASE kernel.op # "insert" BY <1>2, <2>1 DEF InsertCall
  <2>2. CASE kernel.op = "insert"
    <3>1. kernel \in Calls BY DEF LockInv, TypeOK
    <3>2. p \in Pages /\ k \in Keys /\ kernel.trx = t
      BY <1>1, <2>2, <3>1 DEF Calls, Checking
    <3>3. h \in HeapNos /\ InsertRequest \in Requests BY <3>2, NextRecIs, RequestType DEF InsertRequest
    <3>4. Newest(locks) = NewRecLock(t, p, InsertRequest, h, TRUE)
      BY <1>1, <2>2, <3>2 DEF GapInv, InsertCall, Newest
    <3>5. locks \in Seq(Lock) /\ OneWaitIn(locks) BY DEF LockInv, TypeOK, WaitInv, WaitsIn
    <3>6. NextRec(kernel.page, kernel.key)' = h BY <1>2 DEF NextRec, Present
    <3> HIDE DEF h, p, k
    <3>7. IF IsWaiting(locks', t) THEN locks'[Len(locks')] = NewRecLock(t, p, InsertRequest, h, TRUE)
                                  ELSE ~rec_other_has_conflicting(locks', p, InsertRequest, h, t)
      BY <1>1, <1>2, <3>2, <3>3, <3>4, <3>5, RequestSurvives
    <3>8. kernel'.page = p /\ kernel'.key = k /\ kernel'.trx = t BY <1>2, <3>2 DEF p, k
    <3>9. MayInsert(kernel.trx, kernel.page, kernel.key)' <=>
            ~rec_other_has_conflicting(locks', p, InsertRequest, h, t)
      BY <3>6, <3>8 DEF MayInsert, rec_other_has_conflicting
    <3>10. IsWaiting(locks, kernel.trx)' <=> IsWaiting(locks', t) BY <3>8 DEF IsWaiting
    <3> QED BY <3>6, <3>7, <3>8, <3>9, <3>10 DEF InsertCall
  <2> QED BY <2>1, <2>2
<1>5. SupremumIn(locks)' BY <1>3 DEF SupremumIn
<1> QED BY <1>3, <1>4, <1>5 DEF GapInv

\* The caller goes to sleep or, its request granted meanwhile, goes on.
LEMMA NoDeadlockGapAction ==
  ASSUME LockInv, GapInv, NEW t \in Trx, NoDeadlock(t)
  PROVE  GapInv' /\ GapKept("X")
<1> DEFINE p == kernel.page
           k == kernel.key
           to == kernel.to
<1>1. kernel.trx = t /\ kernel.op \in {"lock", "insert", "modify"} /\ kernel' = NoCall
  BY DEF NoDeadlock, NotRefused, Checking
<1>2. kernel'.op # "insert" BY <1>1, NoCallType
<1>3. CASE UNCHANGED <<locks, rowVars>>
  <2>1. UNCHANGED <<locks, rec>> BY <1>3 DEF rowVars
  <2> QED BY <1>2, <2>1, QuietGapStep
<1>4. CASE ~IsWaiting(locks, t) /\ Succeed(locks, kernel.op, t, p, k, to)
  <2>1. CASE kernel.op = "lock"
    <3>1. UNCHANGED <<locks, rec>> BY <1>4, <2>1 DEF Succeed, rowVars
    <3> QED BY <1>2, <3>1, QuietGapStep
  <2>2. ASSUME kernel.op \in {"insert", "modify"} PROVE p \in Pages /\ k \in Keys /\ to # "absent"
    <3>1. kernel \in Calls BY DEF LockInv, TypeOK
    <3>2. kernel \in [op : {"insert", "modify"}, trx : Trx, page : Pages, key : Keys, to : RecStates, count : {0}]
      BY <2>2, <3>1 DEF Calls
    <3> QED BY <1>1, <2>2, <3>2 DEF LockInv, CallConsistent
  <2>3. CASE kernel.op = "insert"
    <3>1. rec[p][k] = "absent" BY <2>3 DEF LockInv, CallConsistent
    <3>2. MayInsert(t, p, k) BY <1>1, <1>4, <2>3 DEF GapInv, InsertCall
    <3>3. Succeed(locks, "insert", t, p, k, to) BY <1>4, <2>3
    <3>4. p \in Pages /\ k \in Keys /\ to # "absent" BY <2>2, <2>3
    <3> HIDE DEF p, k, to
    <3> QED BY <1>2, <3>1, <3>2, <3>3, <3>4, InsertGapStep, NoInsertCall
  <2>4. CASE kernel.op = "modify"
    <3>1. PICK i \in DOMAIN locks : OnRec(locks[i], p, k) BY <1>1, <2>4 DEF LockInv, CallConsistent
    <3>2. Succeed(locks, "modify", t, p, k, to) BY <1>4, <2>4
    <3>3. locks' = locks /\ rec' = [rec EXCEPT ![p][k] = to] BY <3>2 DEF Succeed
    <3>4. p \in Pages /\ k \in Keys /\ to # "absent" BY <2>2, <2>4
    <3> HIDE DEF p, k, to
    <3>5. rec[p][k] # "absent"
      <4>1. k \in Present(p) \cup {PAGE_HEAP_NO_SUPREMUM} BY <3>1 DEF LockInv, BitsPresentIn, OnRec
      <4> QED BY <3>4, <4>1, KeyIs DEF Present
    <3>6. \A q \in Pages, m \in Keys : rec'[q][m] = "absent" <=> rec[q][m] = "absent"
      <4>1. rec \in [Pages -> [Keys -> RecStates]] BY DEF LockInv, TypeOK
      <4>2. ASSUME NEW q \in Pages, NEW m \in Keys
            PROVE  rec'[q][m] = IF q = p /\ m = k THEN to ELSE rec[q][m]
        BY <3>3, <3>4, <4>1
      <4> QED BY <3>4, <3>5, <4>2
    <3>7. \A u : Gaps(locks, locks', u) BY <3>3, GapsOn
    <3> QED BY <1>2, <3>6, <3>7, RequestGapStep
  <2> QED BY <1>1, <2>1, <2>3, <2>4
<1> QED BY <1>3, <1>4 DEF NoDeadlock, NotRefused

-----------------------------------------------------------------------------
(* Purge and rollback.                                                     *)

\* A record goes: its gap locks pass to its successor.
LEMMA DeleteGapStep ==
  ASSUME LockInv, GapInv, NEW p \in Pages, NEW k \in Keys, update_delete(p, k),
         rec[p][k] # "absent", rec' = [rec EXCEPT ![p][k] = "absent"], kernel' = NoCall
  PROVE  GapInv' /\ GapKept("X")
<1> DEFINE heir == NextRec(p, k)
           Q == {i \in DOMAIN locks : /\ OnRec(locks[i], p, k) /\ ~locks[i].ins
                                      /\ locks[i].trx \notin ReadCommitted /\ locks[i].mode = "X"}
<1>0. /\ locks \in Seq(Lock) /\ SupremumIn(locks) /\ rec \in [Pages -> [Keys -> RecStates]]
  BY DEF LockInv, TypeOK, GapInv
<1>1. PICK ls \in rec_inherit_to_gap(locks, p, heir, k) : locks' = rec_reset_and_release_wait(ls, p, k)
  BY DEF update_delete
<1>2. /\ Q \in SUBSET DOMAIN locks
      /\ \A i \in Q : locks[i].type = "REC" /\ locks[i].on = p /\ locks[i].mode \in RecModes
  BY DEF RecModes, OnRec
<1>3. ls \in InheritTo(locks, Q, p, heir) BY <1>1 DEF rec_inherit_to_gap
<1>4. heir \in HeapNos /\ heir # k BY NextRecIs, KeyIs
<1>5. ASSUME NEW t, t \notin ReadCommitted
      PROVE  HoldsGap(locks, t, p, k) => \E i \in Q : locks[i].trx = t /\ locks[i].mode = "X"
  BY <1>5 DEF HoldsGap, GapLock, LocksGap
<1> HIDE DEF Q
<1>6. Inherited(locks, ls, p, heir) BY <1>0, <1>2, <1>3, <1>4, InheritResult
<1>7. ls \in Seq(Lock) BY <1>6 DEF Inherited
<1>8. ASSUME NEW t
      PROVE  /\ SupremumIn(locks')
             /\ \A q, m : (q # p \/ m # k) /\ HoldsGap(ls, t, q, m) => HoldsGap(locks', t, q, m)
             /\ \A q, m : HoldsGap(locks, t, q, m) => HoldsGap(ls, t, q, m)
  <2>1. Gaps(locks, ls, t) BY <1>0, <1>4, <1>6, InheritGaps
  <2>2. SupremumIn(ls) BY <1>0, <2>1 DEF Gaps
  <2> QED BY <1>1, <1>7, <2>1, <2>2, ResetGaps DEF Gaps
<1>9. ASSUME NEW t, t \notin ReadCommitted, HoldsGap(locks, t, p, k) PROVE HoldsGap(locks', t, p, heir)
  <2>1. PICK i \in Q : locks[i].trx = t /\ locks[i].mode = "X" BY <1>5, <1>9
  <2>2. HoldsGap(ls, locks[i].trx, p, heir) BY <1>0, <1>2, <1>3, <1>4, <2>1, HeirHasGap
  <2> QED BY <1>4, <1>8, <2>1, <2>2
<1>10. \A q \in Pages, m \in Keys : rec'[q][m] = IF q = p /\ m = k THEN "absent" ELSE rec[q][m]
  BY <1>0
<1>11. ASSUME NEW q \in Pages PROVE Present(q)' = IF q = p THEN Present(q) \ {k} ELSE Present(q)
  BY <1>10 DEF Present
<1>12. ASSUME NEW t \in Trx \ ReadCommitted, NEW q \in Pages, NEW m \in Keys, rec[q][m] = "absent",
              HoldsGap(locks, t, q, NextRec(q, m))
       PROVE  rec'[q][m] = "absent" /\ HoldsGap(locks', t, q, NextRec(q, m)')
  <2>1. rec'[q][m] = "absent" BY <1>10, <1>12
  <2>2. CASE q = p
    <3>0. m # k BY <1>12, <2>2
    <3>1. \/ NextRec(q, m)' = NextRec(q, m) /\ NextRec(q, m) # k
          \/ NextRec(q, m) = k /\ NextRec(q, m)' = heir
      <4>1. Present(q)' = Present(q) \ {k} BY <1>11, <2>2
      <4>2. /\ NextRec(q, m) = Successor(Present(q), m) /\ Present(q) \in SUBSET Keys
            /\ NextRec(q, m)' = Successor(Present(q)', m)
            /\ heir = Successor(Present(p), k)
        BY NextRecSuccessor
      <4>3. \/ Successor(Present(q) \ {k}, m) = Successor(Present(q), m) /\ Successor(Present(q), m) # k
            \/ Successor(Present(q), m) = k /\ Successor(Present(q) \ {k}, m) = Successor(Present(q), k)
        BY <3>0, <4>2, SuccessorDelete
      <4> QED BY <2>2, <4>1, <4>2, <4>3
    <3>2. CASE NextRec(q, m)' = NextRec(q, m) /\ NextRec(q, m) # k BY <1>8, <1>12, <2>1, <3>2
    <3>3. CASE NextRec(q, m) = k /\ NextRec(q, m)' = heir BY <1>9, <1>12, <2>1, <2>2, <3>3
    <3> QED BY <3>1, <3>2, <3>3
  <2>3. CASE q # p
    <3>1. NextRec(q, m)' = NextRec(q, m)
      <4>1. Present(q)' = Present(q) BY <1>11, <2>3
      <4> QED BY <4>1, NextRecSuccessor
    <3> QED BY <1>8, <1>12, <2>1, <2>3, <3>1
  <2> QED BY <2>2, <2>3
<1>13. GapKept("X") BY <1>12, GapKeptIntro
<1>14. SupremumIn(locks') BY <1>8
<1> QED BY <1>13, <1>14, NoCallType, NoInsertCall

\* Purge.
LEMMA PurgeGapAction ==
  ASSUME LockInv, GapInv, NEW p \in Pages, NEW k \in Keys, purge_remove(p, k)
  PROVE  GapInv' /\ GapKept("X")
<1>1. /\ update_delete(p, k) /\ rec[p][k] # "absent" /\ rec' = [rec EXCEPT ![p][k] = "absent"]
      /\ kernel' = NoCall
  BY DEF purge_remove
<1> QED BY <1>1, DeleteGapStep

\* Rollback: the record that is restored or removed is there, since its writer runs.
LEMMA RollbackGapAction ==
  ASSUME LockInv, GapInv, NEW t \in Trx, RollbackRow(t)
  PROVE  GapInv' /\ GapKept("X")
<1> DEFINE u == undo[t][Len(undo[t])]
           p == u.page
           k == u.key
<1>1. /\ undo[t] # <<>> /\ kernel' = NoCall /\ rec' = [rec EXCEPT ![p][k] = u.old]
      /\ (u.old = "absent" /\ update_delete(p, k)) \/ (u.old # "absent" /\ UNCHANGED <<locks, que>>)
  BY DEF RollbackRow
<1>2. Len(undo[t]) \in DOMAIN undo[t] /\ u \in UndoRec
  <2>0. undo[t] \in Seq(UndoRec) BY DEF LockInv, TypeOK
  <2>1. Len(undo[t]) \in Nat /\ DOMAIN undo[t] = 1..Len(undo[t]) /\ \A m \in DOMAIN undo[t] : undo[t][m] \in UndoRec
    BY <2>0, SeqIsFcn
  <2>2. Len(undo[t]) # 0 BY <1>1, <2>0, EmptySeq
  <2> QED BY <2>1, <2>2
<1>3. p \in Pages /\ k \in Keys BY <1>2 DEF UndoRec
<1>4. rec_trx[p][k] = t BY <1>2 DEF LockInv, UndoConsistent
<1>5. rec[p][k] # "absent" BY <1>3, <1>4, ConstantsAssumption DEF LockInv, WriterActive
<1> HIDE DEF u, p, k
<1>6. CASE u.old = "absent" /\ update_delete(p, k) BY <1>1, <1>3, <1>5, <1>6, DeleteGapStep
<1>7. CASE u.old # "absent" /\ UNCHANGED <<locks, que>>
  <2>1. \A q \in Pages, m \in Keys : rec'[q][m] = "absent" <=> rec[q][m] = "absent"
    <3>1. rec \in [Pages -> [Keys -> RecStates]] BY DEF LockInv, TypeOK
    <3>2. ASSUME NEW q \in Pages, NEW m \in Keys
          PROVE  rec'[q][m] = IF q = p /\ m = k THEN u.old ELSE rec[q][m]
      BY <1>1, <1>3, <3>1
    <3> QED BY <1>5, <1>7, <3>2
  <2>2. \A s : Gaps(locks, locks', s) BY <1>7, GapsOn
  <2>3. kernel'.op # "insert" BY <1>1, NoCallType
  <2> QED BY <2>1, <2>2, <2>3, RequestGapStep
<1> QED BY <1>1, <1>6, <1>7

-----------------------------------------------------------------------------
(* The theorems of FACT B.                                                 *)

\* GapInv holds at the start.
LEMMA GapInvInit == Init => GapInv
<1> SUFFICES ASSUME Init PROVE GapInv OBVIOUS
<1>1. DOMAIN locks = {} /\ kernel.op # "insert" BY NoCallType DEF Init
<1> QED BY <1>1 DEF GapInv, SupremumIn, InsertCall

\* Every step preserves GapInv and keeps the gaps.
LEMMA GapInvStep == LockInv /\ WaitInv /\ GapInv /\ [Next]_vars => GapInv' /\ GapKept("X")
<1> SUFFICES ASSUME LockInv, WaitInv, GapInv, [Next]_vars PROVE GapInv' /\ GapKept("X") OBVIOUS
<1>1. CASE UNCHANGED vars BY <1>1, QuietGapStep DEF vars
<1>2. ASSUME NEW t \in Trx, ClientRequest(t) PROVE GapInv' /\ GapKept("X")
  <2>1. ASSUME NEW tab \in Tables, NEW mode \in TableModes, lock_table(t, tab, mode)
        PROVE  GapInv' /\ GapKept("X")
    BY <2>1, TableGapAction
  <2>2. ASSUME NEW p \in Pages, NEW h \in HeapNos \ {PAGE_HEAP_NO_INFIMUM}, NEW r \in ReadRequests,
               clust_rec_read_check_and_lock(t, p, h, r[1], r[2])
        PROVE  GapInv' /\ GapKept("X")
    <3>1. r[1] \in RecModes /\ r[2] \in GapModes BY ConstantsAssumption
    <3> QED BY <2>2, <3>1, ReadGapAction
  <2>3. ASSUME NEW p \in Pages, NEW k \in Keys, NEW to \in {"live", "marked"},
               clust_rec_modify_check_and_lock(t, p, k, to)
        PROVE  GapInv' /\ GapKept("X")
    BY <2>3, ModifyGapAction
  <2>4. ASSUME NEW p \in Pages, NEW k \in Keys, rec_insert_check_and_lock(t, p, k)
        PROVE  GapInv' /\ GapKept("X")
    BY <2>4, InsertGapAction
  <2>5. ASSUME NEW p \in Pages, NEW k \in Keys, NEW mode \in RecModes, rec_unlock(t, p, k, mode)
        PROVE  GapInv' /\ GapKept("X")
    BY <2>5, UnlockGapAction
  <2> QED BY <1>2, <2>1, <2>2, <2>3, <2>4, <2>5 DEF ClientRequest
<1>3. ASSUME NEW t \in Trx, DeadlockCheck(t) PROVE GapInv' /\ GapKept("X")
  BY <1>3, NoDeadlockGapAction, VictimGapAction, RefuseGapActions DEF DeadlockCheck
<1>4. ASSUME NEW t \in Trx, TrxStep(t) PROVE GapInv' /\ GapKept("X")
  BY <1>4, QuietGapActions, RollbackGapAction, DequeueGapActions DEF TrxStep
<1>5. ASSUME NEW t \in Trx, WaitStep(t) PROVE GapInv' /\ GapKept("X")
  BY <1>5, DequeueGapActions, QuietGapActions DEF WaitStep
<1>6. ASSUME NEW p \in Pages, NEW k \in Keys, purge_remove(p, k) PROVE GapInv' /\ GapKept("X")
  BY <1>6, PurgeGapAction
<1> QED BY <1>1, <1>2, <1>3, <1>4, <1>5, <1>6 DEF Next

\* GapInv, next to LockInv and WaitInv, is an invariant of the lock manager.
THEOREM GapInvariant == Spec => []GapInv
<1>1. Init => GapInv BY GapInvInit
<1>2. LockInv /\ WaitInv /\ GapInv /\ [Next]_vars => GapInv' BY GapInvStep
<1> QED BY <1>1, <1>2, WaitInvariant, PTL DEF Spec

\* FACT B of lock0lock.cc for exclusive locks: while a transaction above READ
\* COMMITTED runs, a gap it has X-locked stays locked and nobody else inserts into
\* it, whatever is inserted, purged, rolled back, granted or cancelled around it.
THEOREM ExclusiveGapsStay == Spec => ExclusiveGapKept
<1>1. LockInv /\ WaitInv /\ GapInv /\ [Next]_vars => [GapKept("X")]_vars BY GapInvStep
<1> QED BY <1>1, WaitInvariant, GapInvariant, PTL DEF Spec, ExclusiveGapKept
=============================================================================
