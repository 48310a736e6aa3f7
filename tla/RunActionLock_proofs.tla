------------------------ MODULE RunActionLock_proofs ------------------------
(***************************************************************************)
(* Proofs about RunActionLock for any number of nodes and threads: types,  *)
(* the inductive invariant LockInv and with it mutual exclusion, that no   *)
(* update is lost among the callers that take the lock, and that the lock  *)
(* implements RunLock.                                                     *)
(***************************************************************************)
EXTENDS RunActionLock, TLAPS

-----------------------------------------------------------------------------
(* Types *)

LEMMA TypeOKInit == Init => TypeOK
<1> SUFFICES ASSUME Init PROVE TypeOK
  OBVIOUS
<1>1. env \in Environment /\ env.redis \in BOOLEAN
  BY LockAssumption DEF LockAssumption, Init, EnvironmentType
<1>2. redisUp \in BOOLEAN
  BY <1>1 DEF Init
<1>3. sees \in [Node -> BOOLEAN]
  BY <1>1, Zenon DEF Init
<1>4. runKey \in BOOLEAN
  BY <1>1 DEF Init
<1>5. keyBy \in Proc \cup {NoProc} /\ local \in [Node -> Proc \cup {NoProc}] /\ pc \in [Proc -> Steps]
  BY <1>1 DEF Init, Steps
<1>6. holdsKey \in [Proc -> BOOLEAN]
  BY <1>1 DEF Init
<1>7. stale \in [Proc -> [Copy -> SUBSET Column]]
  BY <1>1 DEF Init
<1>. QED
  BY <1>1, <1>2, <1>3, <1>4, <1>5, <1>6, <1>7 DEF TypeOK

LEMMA TypeOKStep == TypeOK /\ [Next]_vars => TypeOK'
<1> SUFFICES ASSUME TypeOK, [Next]_vars PROVE TypeOK'
  OBVIOUS
<1> USE LockAssumption DEF LockAssumption, TypeOK, Steps, Goto
<1>1. ASSUME NEW p \in Proc, Call(p) \/ LocalTimeout(p) \/ KeyBusy(p) \/ LocalOnly(p)
      PROVE  TypeOK'
  BY <1>1 DEF Call, LocalTimeout, KeyBusy, LocalOnly
<1>2. ASSUME NEW p \in Proc, AcquireLocal(p) PROVE TypeOK'
  <2>1. local' \in [Node -> Proc \cup {NoProc}] /\ pc' \in [Proc -> Steps]
    BY <1>2 DEF AcquireLocal
  <2>. QED
    BY <1>2, <2>1 DEF AcquireLocal
<1>3. ASSUME NEW p \in Proc, TakeKey(p) PROVE TypeOK'
  <2>1. runKey' \in BOOLEAN /\ keyBy' \in Proc \cup {NoProc} /\ pc' \in [Proc -> Steps]
    BY <1>3 DEF TakeKey
  <2>2. holdsKey' \in [Proc -> BOOLEAN]
    BY <1>3 DEF TakeKey
  <2>. QED
    BY <1>3, <2>1, <2>2 DEF TakeKey
<1>4. ASSUME NEW p \in Proc, LoadRun(p) \/ LoadForCancel(p) \/ ResetLoad(p)
      PROVE  TypeOK'
  <2>1. ASSUME NEW copy \in Copy, Load(p, copy)
        PROVE  stale' \in [Proc -> [Copy -> SUBSET Column]]
    BY <2>1 DEF Load
  <2>2. stale' \in [Proc -> [Copy -> SUBSET Column]]
    BY <1>4, <2>1 DEF LoadRun, LoadForCancel, ResetLoad, Copy
  <2>. QED
    BY <1>4, <2>2 DEF LoadRun, LoadForCancel, ResetLoad
<1>5. ASSUME NEW p \in Proc,
             CancelWrite(p) \/ FlattenWrite(p) \/ MonitorWrite(p) \/ ResetWrite(p)
      PROVE  TypeOK'
  <2>1. ASSUME NEW cols \in SUBSET Column, Write(p, cols)
        PROVE  stale' \in [Proc -> [Copy -> SUBSET Column]]
    BY <2>1 DEF Write
  <2>2. stale' \in [Proc -> [Copy -> SUBSET Column]]
    BY <1>5, <2>1 DEF CancelWrite, FlattenWrite, MonitorWrite, ResetWrite, Column
  <2>. QED
    BY <1>5, <2>2 DEF CancelWrite, FlattenWrite, MonitorWrite, ResetWrite
<1>6. ASSUME NEW p \in Proc, LeaveEarly(p) \/ DeleteKey(p) \/ ReleaseLocal(p)
      PROVE  TypeOK'
  BY <1>6 DEF LeaveEarly, DeleteKey, ReleaseLocal
<1>7. ASSUME NEW n \in Node, RefreshAvailability(n) \/ Crash(n)
      PROVE  TypeOK'
  BY <1>7 DEF RefreshAvailability, Crash
<1>8. CASE KeyExpires
  BY <1>8 DEF KeyExpires
<1>9. CASE RedisFlap
  BY <1>9 DEF RedisFlap
<1>10. CASE UNCHANGED vars
  BY <1>10 DEF vars
<1>. QED
  BY <1>1, <1>2, <1>3, <1>4, <1>5, <1>6, <1>7, <1>8, <1>9, <1>10 DEF Next, Thread

(* Every variable keeps its type: no thread is ever at a step the code does not
   have, and the local locks and the key belong to threads or to nobody. *)
THEOREM TypeCorrect == Spec => []TypeOK
BY TypeOKInit, TypeOKStep, PTL DEF Spec

-----------------------------------------------------------------------------
(* The local lock *)

(* Between the local acquire and the local release a thread owns the lock of
   its node, through every step of every thread and through crashes. *)
LEMMA LocalLockInvStep ==
  TypeOK /\ LocalLockInv /\ [Next]_vars => LocalLockInv'
<1> SUFFICES ASSUME TypeOK, LocalLockInv, [Next]_vars PROVE LocalLockInv'
  OBVIOUS
<1> USE LockAssumption DEF LockAssumption, TypeOK, LocalLockInv, Holds, Goto
<1>1. ASSUME NEW p \in Proc, Call(p) \/ LocalTimeout(p) PROVE LocalLockInv'
  BY <1>1 DEF Call, LocalTimeout
<1>2. ASSUME NEW p \in Proc, AcquireLocal(p) PROVE LocalLockInv'
  BY <1>2 DEF AcquireLocal
<1>3. ASSUME NEW p \in Proc, TakeKey(p) \/ KeyBusy(p) \/ LocalOnly(p) PROVE LocalLockInv'
  BY <1>3 DEF TakeKey, KeyBusy, LocalOnly
<1>4. ASSUME NEW p \in Proc, LoadRun(p) \/ LoadForCancel(p) PROVE LocalLockInv'
  BY <1>4 DEF LoadRun, LoadForCancel
<1>5. ASSUME NEW p \in Proc, CancelWrite(p) \/ FlattenWrite(p) \/ MonitorWrite(p)
      PROVE  LocalLockInv'
  BY <1>5 DEF CancelWrite, FlattenWrite, MonitorWrite
<1>6. ASSUME NEW p \in Proc, ResetLoad(p) \/ ResetWrite(p) PROVE LocalLockInv'
  BY <1>6 DEF ResetLoad, ResetWrite
<1>7. ASSUME NEW p \in Proc, LeaveEarly(p) \/ DeleteKey(p) PROVE LocalLockInv'
  BY <1>7 DEF LeaveEarly, DeleteKey
<1>8. ASSUME NEW p \in Proc, ReleaseLocal(p) PROVE LocalLockInv'
  BY <1>8 DEF ReleaseLocal
<1>9. ASSUME NEW n \in Node, Crash(n) PROVE LocalLockInv'
  BY <1>9 DEF Crash
<1>10. ASSUME NEW n \in Node, RefreshAvailability(n) PROVE LocalLockInv'
  BY <1>10 DEF RefreshAvailability
<1>11. CASE KeyExpires
  BY <1>11 DEF KeyExpires
<1>12. CASE RedisFlap
  BY <1>12 DEF RedisFlap
<1>13. CASE UNCHANGED vars
  BY <1>13 DEF vars
<1>. QED
  BY <1>1, <1>2, <1>3, <1>4, <1>5, <1>6, <1>7, <1>8, <1>9, <1>10, <1>11, <1>12, <1>13
     DEF Next, Thread

-----------------------------------------------------------------------------
(* The redis key *)

(* While redis stays and no holder outlives its lease, being inside means
   having created the key that exists: the unconditional delete is then always
   the creator's own. *)
LEMMA KeyInvStep ==
  TypeOK /\ LocalLockInv /\ KeyInv /\ [Next]_vars => KeyInv'
<1> DEFINE Asked == redisUp /\ \A n \in Node : sees[n]
           Inside == \A p \in Proc : InSection(p) => holdsKey[p]
           Creator == \A p \in Proc : holdsKey[p] => runKey /\ keyBy = p
<1> SUFFICES ASSUME TypeOK, LocalLockInv, KeyInv, [Next]_vars, (Orderly /\ env.redis)'
             PROVE  Asked' /\ Inside' /\ Creator'
  BY DEF KeyInv
<1>1. env' = env
  BY DEF Next, Thread, vars, Call, AcquireLocal, LocalTimeout, TakeKey, KeyBusy,
         LocalOnly, LoadRun, LoadForCancel, CancelWrite, FlattenWrite, MonitorWrite,
         LeaveEarly, DeleteKey, ReleaseLocal, ResetLoad, ResetWrite, KeyExpires,
         RedisFlap, RefreshAvailability, Crash
<1>2. Orderly /\ env.redis
  BY <1>1 DEF Orderly
<1>3. ~env.outlived /\ ~env.flaps /\ Asked /\ Inside /\ Creator
  BY <1>2 DEF KeyInv, Orderly
<1> USE LockAssumption DEF LockAssumption, TypeOK, InSection, Goto
<1>4. ASSUME NEW p \in Proc,
             Call(p) \/ AcquireLocal(p) \/ LocalTimeout(p) \/ KeyBusy(p) \/ ReleaseLocal(p)
      PROVE  Asked' /\ Inside' /\ Creator'
  <2>1. /\ Asked' /\ UNCHANGED <<runKey, keyBy, holdsKey>>
        /\ \E step \in {"idle", "waiting", "local", "unlocking"} : Goto(p, step)
    BY <1>3, <1>4 DEF Call, AcquireLocal, LocalTimeout, KeyBusy, ReleaseLocal
  <2>2. \A q \in Proc : InSection(q)' => InSection(q)
    BY <2>1
  <2>. QED
    BY <1>3, <2>1, <2>2
<1>5. ASSUME NEW p \in Proc, TakeKey(p)
      PROVE  Asked' /\ Inside' /\ Creator'
  BY <1>3, <1>5 DEF TakeKey
<1>6. ASSUME NEW p \in Proc, LocalOnly(p)
      PROVE  Asked' /\ Inside' /\ Creator'
  BY <1>3, <1>6 DEF LocalOnly
<1>7. ASSUME NEW p \in Proc, LoadRun(p) \/ LoadForCancel(p)
      PROVE  Asked' /\ Inside' /\ Creator'
  BY <1>3, <1>7 DEF LoadRun, LoadForCancel
<1>8. ASSUME NEW p \in Proc,
             CancelWrite(p) \/ FlattenWrite(p) \/ MonitorWrite(p) \/ LeaveEarly(p)
      PROVE  Asked' /\ Inside' /\ Creator'
  BY <1>3, <1>8 DEF CancelWrite, FlattenWrite, MonitorWrite, LeaveEarly
<1>9. ASSUME NEW p \in Proc, ResetLoad(p) \/ ResetWrite(p)
      PROVE  Asked' /\ Inside' /\ Creator'
  BY <1>3, <1>9 DEF ResetLoad, ResetWrite
<1>10. ASSUME NEW p \in Proc, DeleteKey(p)
       PROVE  Asked' /\ Inside' /\ Creator'
  <2>1. \A q \in Proc : holdsKey'[q] => q # p /\ holdsKey[q]
    BY <1>10 DEF DeleteKey
  <2>2. holdsKey[p]
    BY <1>3, <1>10, LocalLockInv DEF DeleteKey, LocalLockInv
  <2>3. \A q \in Proc : ~holdsKey'[q]
    BY <1>3, <2>1, <2>2
  <2>4. \A q \in Proc : ~InSection(q)'
    BY <1>3, <2>2, <1>10 DEF DeleteKey
  <2>. QED
    BY <1>3, <1>10, <2>3, <2>4 DEF DeleteKey
<1>11. ASSUME NEW n \in Node, Crash(n)
       PROVE  Asked' /\ Inside' /\ Creator'
  BY <1>3, <1>11 DEF Crash
<1>12. ASSUME NEW n \in Node, RefreshAvailability(n)
       PROVE  Asked' /\ Inside' /\ Creator'
  BY <1>3, <1>12 DEF RefreshAvailability
<1>13. CASE KeyExpires
  BY <1>3, <1>13 DEF KeyExpires
<1>14. CASE RedisFlap
  BY <1>3, <1>14 DEF RedisFlap
<1>15. CASE UNCHANGED vars
  BY <1>3, <1>15 DEF vars
<1>. QED
  BY <1>4, <1>5, <1>6, <1>7, <1>8, <1>9, <1>10, <1>11, <1>12, <1>13, <1>14, <1>15
     DEF Next, Thread

-----------------------------------------------------------------------------
(* Exclusion *)

LEMMA LockInvInit == Init => LockInv
<1> SUFFICES ASSUME Init PROVE LocalLockInv /\ KeyInv
  BY DEF LockInv
<1>1. LocalLockInv
  BY DEF Init, LocalLockInv, Holds
<1>2. KeyInv
  BY LockAssumption DEF LockAssumption, EnvironmentType, Init, KeyInv, InSection
<1>. QED
  BY <1>1, <1>2

(* The inductive invariant: local locks belong to whoever is past the acquire,
   and in an orderly deployment with redis the key belongs to whoever is inside. *)
THEOREM LockInvariant == Spec => []LockInv
<1>1. TypeOK /\ LockInv /\ [Next]_vars => LockInv'
  BY LocalLockInvStep, KeyInvStep DEF LockInv
<1>. QED
  BY TypeCorrect, LockInvInit, <1>1, PTL DEF Spec

LEMMA SameNode == LockInv => SameNodeExclusion
BY DEF LockInv, LocalLockInv, SameNodeExclusion, InSection, Holds

LEMMA Exclusion == TypeOK /\ LockInv => MutualExclusion
<1> SUFFICES ASSUME TypeOK, LockInv, Orderly,
                    NEW p \in Proc, NEW q \in Proc, InSection(p), InSection(q)
             PROVE  p = q
  BY DEF MutualExclusion
<1>1. CASE env.redis
  BY <1>1 DEF LockInv, KeyInv
<1>2. CASE ~env.redis
  <2>1. NodeOf[p] = NodeOf[q]
    BY <1>2, LockAssumption DEF LockAssumption, Orderly
  <2>. QED
    BY <2>1, SameNode DEF SameNodeExclusion
<1>. QED
  BY <1>1, <1>2

(* Two threads of one process are never both inside run_action_lock, for any
   number of nodes and threads, whatever redis and the nodes do. *)
THEOREM SameNodeNeverShared == Spec => []SameNodeExclusion
BY LockInvariant, SameNode, PTL

(* While redis stays as it is and no holder outlives the 120 s lease, at most
   one thread of the whole deployment is inside. *)
THEOREM NeverShared == Spec => []MutualExclusion
BY TypeCorrect, LockInvariant, Exclusion, PTL

-----------------------------------------------------------------------------
(* Refinement of RunLock *)

(* A thread comes in by itself: nobody who is inside goes out in that step. *)
LEMMA OneComesIn ==
  ASSUME TypeOK, [Next]_vars,
         NEW p \in Proc, NEW q \in Proc, InSection(p), ~InSection(q), InSection(q)'
  PROVE  InSection(p)'
<1> USE LockAssumption DEF LockAssumption, TypeOK, InSection, Goto
<1>1. ASSUME NEW r \in Proc,
             Call(r) \/ AcquireLocal(r) \/ LocalTimeout(r) \/ TakeKey(r) \/ KeyBusy(r)
               \/ LocalOnly(r)
      PROVE  InSection(p)'
  BY <1>1 DEF Call, AcquireLocal, LocalTimeout, TakeKey, KeyBusy, LocalOnly
<1>2. ASSUME NEW r \in Proc,
             LoadRun(r) \/ LoadForCancel(r) \/ CancelWrite(r) \/ FlattenWrite(r)
               \/ MonitorWrite(r) \/ LeaveEarly(r) \/ ResetLoad(r) \/ ResetWrite(r)
      PROVE  FALSE
  BY <1>2 DEF LoadRun, LoadForCancel, CancelWrite, FlattenWrite, MonitorWrite,
              LeaveEarly, ResetLoad, ResetWrite
<1>3. ASSUME NEW r \in Proc, DeleteKey(r) \/ ReleaseLocal(r) PROVE FALSE
  BY <1>3 DEF DeleteKey, ReleaseLocal
<1>4. ASSUME NEW n \in Node, Crash(n) \/ RefreshAvailability(n) PROVE FALSE
  BY <1>4 DEF Crash, RefreshAvailability
<1>5. ASSUME KeyExpires \/ RedisFlap \/ UNCHANGED vars PROVE FALSE
  BY <1>5 DEF KeyExpires, RedisFlap, vars
<1>. QED
  BY <1>1, <1>2, <1>3, <1>4, <1>5 DEF Next, Thread

LEMMA EnvironmentStays == [Next]_vars => env' = env
BY DEF Next, Thread, vars, Call, AcquireLocal, LocalTimeout, TakeKey, KeyBusy,
       LocalOnly, LoadRun, LoadForCancel, CancelWrite, FlattenWrite, MonitorWrite,
       LeaveEarly, DeleteKey, ReleaseLocal, ResetLoad, ResetWrite, KeyExpires,
       RedisFlap, RefreshAvailability, Crash

(* The owner is the thread inside, if there is one. *)
OwnerIsInside ==
  /\ Owner \in Proc \cup {NoProc}
  /\ Owner \in Proc => Orderly /\ InSection(Owner)
  /\ Orderly => \A p \in Proc : InSection(p) => Owner = p

LEMMA OwnerInside == MutualExclusion => OwnerIsInside
BY LockAssumption DEF LockAssumption, MutualExclusion, OwnerIsInside, Owner

LEMMA RefinementStep ==
  ASSUME TypeOK, LockInv, TypeOK', LockInv', [Next]_vars
  PROVE  [Abstract!Next]_Owner
<1>1. MutualExclusion /\ OwnerIsInside
  BY Exclusion, OwnerInside
<1>2. MutualExclusion' /\ OwnerIsInside'
  BY Exclusion, OwnerInside, PTL
<1>3. Orderly' <=> Orderly
  BY EnvironmentStays DEF Orderly
<1>4. ASSUME NEW p \in Proc, NEW q \in Proc, Owner = p, Owner' = q
      PROVE  p = q
  <2>1. Orderly /\ InSection(p) /\ InSection(q)'
    BY <1>1, <1>2, <1>4 DEF OwnerIsInside
  <2>2. CASE InSection(q)
    BY <1>1, <1>4, <2>1, <2>2 DEF OwnerIsInside
  <2>3. CASE ~InSection(q)
    <3>1. InSection(p)'
      BY <2>1, <2>3, OneComesIn
    <3>. QED
      BY <1>2, <1>3, <1>4, <2>1, <3>1 DEF OwnerIsInside
  <2>. QED
    BY <2>2, <2>3
<1>. QED
  BY <1>1, <1>2, <1>4 DEF OwnerIsInside, Abstract!Next, Abstract!Enter, Abstract!Exit

(* In an orderly deployment the local lock, the redis key and their release in
   the finally block or by a crash implement RunLock: one owner at a time, who
   leaves before the next one comes. *)
THEOREM LockImplementsRunLock == Spec => ImplementsRunLock
<1>1. Init => Abstract!Init
  <2> SUFFICES ASSUME Init PROVE Owner = NoProc
    BY DEF Abstract!Init
  <2>1. \A p \in Proc : ~InSection(p)
    BY DEF Init, InSection
  <2>. QED
    BY <2>1 DEF Owner
<1>2. TypeOK /\ LockInv /\ TypeOK' /\ LockInv' /\ [Next]_vars => [Abstract!Next]_Owner
  BY RefinementStep
<1>. QED
  BY <1>1, <1>2, TypeCorrect, LockInvariant, PTL DEF Spec, ImplementsRunLock, Abstract!Spec

-----------------------------------------------------------------------------
(* No lost update *)

(* Nobody's copy misses what another thread has written, and no reset is at
   work. *)
Fresh ==
  Orderly /\ LockersOnly =>
      /\ \A p \in Proc, c \in Copy : stale[p][c] = {}
      /\ \A p \in Proc : Role[p] = "reset" => pc[p] = "idle"

LEMMA FreshStep ==
  ASSUME TypeOK, LockInv, Fresh, [Next]_vars
  PROVE  Fresh'
<1> SUFFICES ASSUME Orderly, LockersOnly
             PROVE  /\ \A p \in Proc, c \in Copy : stale'[p][c] = {}
                    /\ \A p \in Proc : Role[p] = "reset" => pc'[p] = "idle"
  BY EnvironmentStays DEF Fresh, Orderly, LockersOnly
<1>1. \A p \in Proc, c \in Copy : stale[p][c] = {}
  BY DEF Fresh
<1>2. \A p \in Proc : Role[p] = "reset" => pc[p] = "idle"
  BY DEF Fresh
<1>3. \A p \in Proc : Role[p] = "reset" => pc'[p] = "idle"
  <2> SUFFICES ASSUME NEW p \in Proc, Role[p] = "reset" PROVE pc'[p] = "idle"
    OBVIOUS
  <2>1. pc[p] = "idle" /\ pc \in [Proc -> Steps]
    BY <1>2 DEF TypeOK
  <2>2. ~Call(p) /\ ~ResetLoad(p) /\ ~Thread(p)
    BY <2>1 DEF LockersOnly, Thread, Call, AcquireLocal, LocalTimeout, TakeKey, KeyBusy,
                LocalOnly, LoadRun, LoadForCancel, CancelWrite, FlattenWrite,
                MonitorWrite, LeaveEarly, DeleteKey, ReleaseLocal, ResetLoad, ResetWrite
  <2>3. ASSUME NEW q \in Proc, q # p, Call(q) \/ ResetLoad(q) \/ Thread(q)
        PROVE  pc'[p] = pc[p]
    BY <2>1, <2>3
       DEF Thread, Goto, Call, AcquireLocal, LocalTimeout, TakeKey, KeyBusy,
           LocalOnly, LoadRun, LoadForCancel, CancelWrite, FlattenWrite,
           MonitorWrite, LeaveEarly, DeleteKey, ReleaseLocal, ResetLoad, ResetWrite
  <2>4. ASSUME NEW n \in Node, RefreshAvailability(n) \/ Crash(n)
        PROVE  pc'[p] = "idle"
    BY <2>1, <2>4 DEF RefreshAvailability, Crash
  <2>5. CASE KeyExpires \/ RedisFlap \/ UNCHANGED vars
    BY <2>1, <2>5 DEF KeyExpires, RedisFlap, vars
  <2>. QED
    BY <2>1, <2>2, <2>3, <2>4, <2>5 DEF Next
<1>4. \A p, q \in Proc : InSection(p) /\ InSection(q) => p = q
  BY Exclusion DEF MutualExclusion
<1> USE DEF TypeOK
<1>5. ASSUME NEW p \in Proc, NEW cols, InSection(p), Write(p, cols)
      PROVE  \A q \in Proc, c \in Copy : stale'[q][c] = {}
  <2> SUFFICES ASSUME NEW q \in Proc, NEW c \in Copy PROVE stale'[q][c] = {}
    OBVIOUS
  <2>1. InUse(q, c) => InSection(q)
    BY <1>2 DEF InUse, InSection
  <2>2. InUse(q, c) => q = p
    BY <1>4, <1>5, <2>1
  <2>. QED
    BY <1>1, <1>5, <2>2 DEF Write
<1>6. ASSUME NEW p \in Proc,
             CancelWrite(p) \/ FlattenWrite(p) \/ MonitorWrite(p) \/ ResetWrite(p)
      PROVE  \A q \in Proc, c \in Copy : stale'[q][c] = {}
  <2>1. Role[p] # "reset"
    BY <1>2, <1>6 DEF CancelWrite, FlattenWrite, MonitorWrite, ResetWrite
  <2>. QED
    BY <1>5, <1>6, <2>1 DEF CancelWrite, FlattenWrite, MonitorWrite, ResetWrite, InSection
<1>7. ASSUME NEW p \in Proc, LoadRun(p) \/ LoadForCancel(p) \/ ResetLoad(p)
      PROVE  \A q \in Proc, c \in Copy : stale'[q][c] = {}
  <2>1. PICK copy \in Copy : Load(p, copy)
    BY <1>7 DEF LoadRun, LoadForCancel, ResetLoad, Copy
  <2>. QED
    BY <1>1, <2>1 DEF Load
<1>8. ASSUME UNCHANGED stale PROVE \A q \in Proc, c \in Copy : stale'[q][c] = {}
  BY <1>1, <1>8
<1>. QED
  BY <1>3, <1>6, <1>7, <1>8
     DEF Next, Thread, vars, Call, AcquireLocal, LocalTimeout, TakeKey, KeyBusy,
         LocalOnly, LeaveEarly, DeleteKey, ReleaseLocal, KeyExpires, RedisFlap,
         RefreshAvailability, Crash

(* Among callers that all take the lock, in an orderly deployment, nobody's
   whole-blob write of the run discards a write it has not seen; the user's
   risk reset is the caller this does not cover. *)
THEOREM NoUpdateLost == Spec => NoLostUpdate
<1>1. Init => Fresh
  BY DEF Init, Fresh
<1>2. TypeOK /\ LockInv /\ Fresh /\ [Next]_vars => Fresh'
  BY FreshStep
<1> DEFINE Kept ==
      Orderly /\ LockersOnly => \A p \in Proc :
          /\ CancelWrite(p) => ~Overwrites(p, "inner", {"instance"})
          /\ FlattenWrite(p) \/ MonitorWrite(p) => ~Overwrites(p, "outer", Column)
<1>3. Fresh => [Kept]_vars
  BY DEF Fresh, Overwrites, Copy
<1>. QED
  BY <1>1, <1>2, <1>3, TypeCorrect, LockInvariant, PTL DEF Spec, NoLostUpdate
=============================================================================
