----------------------- MODULE StreamForwarderProofs -----------------------
(***************************************************************************)
(* Proofs about StreamForwarder, for every set of pools and incarnations   *)
(* and every number of frames: the forwarder and its keepalive, racing in  *)
(* any way, keep the shared cache equal to what the connection has put,    *)
(* and never put a frame after a newer one, as long as the keepalive of an *)
(* earlier incarnation does not outlive it.                                *)
(*                                                                         *)
(* CacheCurrent speaks of the moments between two packets only; CacheInv   *)
(* says what the cache is at every await in between.  That viewers do not  *)
(* fall back then follows from Newest: whatever a task of a talking        *)
(* incarnation may put is at least as new as what viewers have.            *)
(***************************************************************************)
EXTENDS StreamForwarder, TLAPS

Connected == {"read", "caching", "refresh", "publish"}

\* The cache of incarnation i at each point of forward_app.
CacheInv ==
    \A i \in Incarnations :
        /\ fwd[i].pc \in {"unborn", "declare", "backoff", "connect"} => cache[i] = Empty
        /\ fwd[i].pc \in {"read", "refresh", "publish"} => cache[i] = local[i]
        /\ fwd[i].pc = "caching" =>
             /\ fwd[i].pool \in Pools /\ fwd[i].frame \in Nat
             /\ local[i][fwd[i].pool] = fwd[i].frame
             /\ \A q \in Pools \ {fwd[i].pool} : cache[i][q] = local[i][q]
        /\ fwd[i].pc = "refresh" => fwd[i].pool \in Pools /\ local[i][fwd[i].pool] # None
        /\ fwd[i].pc \in {"refresh", "publish"} /\ fwd[i].frame # None =>
             fwd[i].pool \in Pools /\ local[i][fwd[i].pool] = fwd[i].frame

\* There is no keepalive before the forwarder has its publisher; and until a
\* tick ends it finds in the cache what it found when it took the mutex.
TickInv ==
    \A i \in Incarnations :
        /\ fwd[i].pc \in {"unborn", "declare"} => ka[i].pc = "unborn"
        /\ ka[i].pc = "put" => \A p \in ka[i].todo : cache[i][p] # None

IInv == TypeOK /\ CacheInv /\ TickInv

-----------------------------------------------------------------------------
LEMMA InitIInv == Init => IInv
  BY ForwarderAssumption
  DEF Init, IInv, TypeOK, CacheInv, TickInv, Fwd, Ka, Empty, FwdPCs

\* Each step of the forwarder, of the keepalive, of a start or an abort keeps
\* the types and the hold of the mutex.
LEMMA StepTypeOK == IInv /\ [Next]_vars => TypeOK'
<1> SUFFICES ASSUME IInv, [Next]_vars PROVE TypeOK'
  OBVIOUS
<1> USE ForwarderAssumption DEF IInv, CacheInv, TickInv, TypeOK, FwdPCs, Fwd, Ka, Empty
<1>1. ASSUME NEW i \in Incarnations, Start(i)
      PROVE  TypeOK'
  BY <1>1 DEF Start
<1>2. ASSUME NEW i \in Incarnations, Abort(i)
      PROVE  TypeOK'
  BY <1>2 DEF Abort, Live
<1>3. ASSUME NEW i \in Incarnations, Connect(i)
      PROVE  TypeOK'
  BY <1>3 DEF Connect, Goto
<1>4. ASSUME NEW i \in Incarnations, NEW p \in Pools, ReadPoolData(i, p)
      PROVE  TypeOK'
  BY <1>4 DEF ReadPoolData
<1>5. ASSUME NEW i \in Incarnations, NEW p \in Pools, ReadCommit(i, p)
      PROVE  TypeOK'
  BY <1>5 DEF ReadCommit
<1>6. ASSUME NEW i \in Incarnations, ReadOther(i)
      PROVE  TypeOK'
  BY <1>6 DEF ReadOther
<1>7. ASSUME NEW i \in Incarnations, Disconnect(i)
      PROVE  TypeOK'
  BY <1>7 DEF Disconnect
<1>8. ASSUME NEW i \in Incarnations, Declare(i)
      PROVE  TypeOK'
  BY <1>8 DEF Declare, Goto
<1>9. ASSUME NEW i \in Incarnations, DeclareError(i)
      PROVE  TypeOK'
  BY <1>9 DEF DeclareError, Goto
<1>10. ASSUME NEW i \in Incarnations, Store(i)
      PROVE  TypeOK'
  BY <1>10 DEF Store, Goto
<1>11. ASSUME NEW i \in Incarnations, Refresh(i)
      PROVE  TypeOK'
  BY <1>11 DEF Refresh, Goto, Put
<1>12. ASSUME NEW i \in Incarnations, PublishData(i)
      PROVE  TypeOK'
  BY <1>12 DEF PublishData, Put
<1>13. ASSUME NEW i \in Incarnations, PublishOther(i)
      PROVE  TypeOK'
  BY <1>13 DEF PublishOther
<1>14. ASSUME NEW i \in Incarnations, PutError(i)
      PROVE  TypeOK'
  BY <1>14 DEF PutError
<1>15. ASSUME NEW i \in Incarnations, Clear(i)
      PROVE  TypeOK'
  BY <1>15 DEF Clear, Goto
<1>16. ASSUME NEW i \in Incarnations, Backoff(i)
      PROVE  TypeOK'
  BY <1>16 DEF Backoff, Goto
<1>17. ASSUME NEW i \in Incarnations, KeepaliveDeclare(i)
      PROVE  TypeOK'
  BY <1>17, SMTT(30) DEF KeepaliveDeclare
<1>18. ASSUME NEW i \in Incarnations, KeepaliveTick(i)
      PROVE  TypeOK'
  BY <1>18, ZenonT(60) DEF KeepaliveTick, Cached
<1>19. ASSUME NEW i \in Incarnations, NEW p \in Pools, KeepalivePut(i, p)
      PROVE  TypeOK'
  <2>1. UNCHANGED <<fwd, cache, local, sent>>
    BY <1>19 DEF KeepalivePut
  <2>2. shown' \in [Pools -> Nat \cup {None}] /\ waiting' \subseteq Pools
    BY <1>19 DEF KeepalivePut, Put
  <2>3. /\ ka' \in [Incarnations -> [pc : {"unborn", "declare", "sleep", "put", "gone"},
                                     todo : SUBSET Pools]]
        /\ lock' = [j \in Incarnations |-> IF ka'[j].pc = "put" THEN "ka" ELSE None]
    BY <1>19, ZenonT(60) DEF KeepalivePut, KeepaliveDone
  <2>4. QED
    BY <2>1, <2>2, <2>3
<1>20. ASSUME NEW i \in Incarnations, NEW p \in Pools, KeepalivePutError(i, p)
      PROVE  TypeOK'
  BY <1>20, ZenonT(60) DEF KeepalivePutError, KeepaliveDone
<1>21. ASSUME ViewerJoins
      PROVE  TypeOK'
  BY <1>21 DEF ViewerJoins
<1>22. CASE UNCHANGED vars
  BY <1>22 DEF vars
<1>23. QED
  BY <1>1, <1>2, <1>3, <1>4, <1>5, <1>6, <1>7, <1>8, <1>9, <1>10, <1>11, <1>12,
      <1>13, <1>14, <1>15, <1>16, <1>17, <1>18, <1>19, <1>20, <1>21, <1>22
  DEF Next, Forward, Progress, Keepalive

\* Each step keeps the cache in line with the connection.
LEMMA StepCacheInv == IInv /\ TypeOK' /\ [Next]_vars => CacheInv'
<1> SUFFICES ASSUME IInv, TypeOK', [Next]_vars PROVE CacheInv'
  OBVIOUS
<1> USE ForwarderAssumption DEF IInv, CacheInv, TypeOK, FwdPCs, Fwd, Ka, Empty
<1>1. ASSUME NEW i \in Incarnations, Start(i)
      PROVE  CacheInv'
  BY <1>1 DEF Start
<1>2. ASSUME NEW i \in Incarnations, Abort(i)
      PROVE  CacheInv'
  BY <1>2 DEF Abort, Live
<1>3. ASSUME NEW i \in Incarnations, Connect(i)
      PROVE  CacheInv'
  BY <1>3 DEF Connect, Goto
<1>4. ASSUME NEW i \in Incarnations, NEW p \in Pools, ReadPoolData(i, p)
      PROVE  CacheInv'
  BY <1>4 DEF ReadPoolData
<1>5. ASSUME NEW i \in Incarnations, NEW p \in Pools, ReadCommit(i, p)
      PROVE  CacheInv'
  BY <1>5 DEF ReadCommit
<1>6. ASSUME NEW i \in Incarnations, ReadOther(i)
      PROVE  CacheInv'
  BY <1>6 DEF ReadOther
<1>7. ASSUME NEW i \in Incarnations, Disconnect(i)
      PROVE  CacheInv'
  BY <1>7 DEF Disconnect
<1>8. ASSUME NEW i \in Incarnations, Declare(i)
      PROVE  CacheInv'
  BY <1>8 DEF Declare, Goto
<1>9. ASSUME NEW i \in Incarnations, DeclareError(i)
      PROVE  CacheInv'
  BY <1>9 DEF DeclareError, Goto
<1>10. ASSUME NEW i \in Incarnations, Store(i)
      PROVE  CacheInv'
  BY <1>10 DEF Store, Goto
<1>11. ASSUME NEW i \in Incarnations, Refresh(i)
      PROVE  CacheInv'
  BY <1>11 DEF Refresh, Goto, Put
<1>12. ASSUME NEW i \in Incarnations, PublishData(i)
      PROVE  CacheInv'
  BY <1>12 DEF PublishData, Put
<1>13. ASSUME NEW i \in Incarnations, PublishOther(i)
      PROVE  CacheInv'
  BY <1>13 DEF PublishOther
<1>14. ASSUME NEW i \in Incarnations, PutError(i)
      PROVE  CacheInv'
  BY <1>14 DEF PutError
<1>15. ASSUME NEW i \in Incarnations, Clear(i)
      PROVE  CacheInv'
  BY <1>15 DEF Clear, Goto
<1>16. ASSUME NEW i \in Incarnations, Backoff(i)
      PROVE  CacheInv'
  BY <1>16 DEF Backoff, Goto
<1>17. ASSUME NEW i \in Incarnations, KeepaliveDeclare(i)
      PROVE  CacheInv'
  BY <1>17 DEF KeepaliveDeclare
<1>18. ASSUME NEW i \in Incarnations, KeepaliveTick(i)
      PROVE  CacheInv'
  BY <1>18 DEF KeepaliveTick, Cached
<1>19. ASSUME NEW i \in Incarnations, NEW p \in Pools, KeepalivePut(i, p)
      PROVE  CacheInv'
  BY <1>19 DEF KeepalivePut, KeepaliveDone, Put
<1>20. ASSUME NEW i \in Incarnations, NEW p \in Pools, KeepalivePutError(i, p)
      PROVE  CacheInv'
  BY <1>20 DEF KeepalivePutError, KeepaliveDone
<1>21. ASSUME ViewerJoins
      PROVE  CacheInv'
  BY <1>21 DEF ViewerJoins
<1>22. CASE UNCHANGED vars
  BY <1>22 DEF vars
<1>23. QED
  BY <1>1, <1>2, <1>3, <1>4, <1>5, <1>6, <1>7, <1>8, <1>9, <1>10, <1>11, <1>12,
      <1>13, <1>14, <1>15, <1>16, <1>17, <1>18, <1>19, <1>20, <1>21, <1>22
  DEF Next, Forward, Progress, Keepalive

\* Nobody takes a frame away from the keepalive while it puts: the forwarder
\* waits for the mutex before it stores or clears.
LEMMA StepTickInv == IInv /\ TypeOK' /\ [Next]_vars => TickInv'
<1> SUFFICES ASSUME IInv, TypeOK', [Next]_vars PROVE TickInv'
  OBVIOUS
<1> USE ForwarderAssumption DEF IInv, TickInv, TypeOK, FwdPCs, Fwd, Ka, Empty
<1>1. ASSUME NEW i \in Incarnations, Start(i)
      PROVE  TickInv'
  BY <1>1 DEF Start
<1>2. ASSUME NEW i \in Incarnations, Abort(i)
      PROVE  TickInv'
  BY <1>2 DEF Abort, Live
<1>3. ASSUME NEW i \in Incarnations, Connect(i)
      PROVE  TickInv'
  BY <1>3 DEF Connect, Goto
<1>4. ASSUME NEW i \in Incarnations, NEW p \in Pools, ReadPoolData(i, p)
      PROVE  TickInv'
  BY <1>4 DEF ReadPoolData
<1>5. ASSUME NEW i \in Incarnations, NEW p \in Pools, ReadCommit(i, p)
      PROVE  TickInv'
  BY <1>5 DEF ReadCommit
<1>6. ASSUME NEW i \in Incarnations, ReadOther(i)
      PROVE  TickInv'
  BY <1>6 DEF ReadOther
<1>7. ASSUME NEW i \in Incarnations, Disconnect(i)
      PROVE  TickInv'
  BY <1>7 DEF Disconnect
<1>8. ASSUME NEW i \in Incarnations, Declare(i)
      PROVE  TickInv'
  BY <1>8 DEF Declare, Goto
<1>9. ASSUME NEW i \in Incarnations, DeclareError(i)
      PROVE  TickInv'
  BY <1>9 DEF DeclareError, Goto
<1>10. ASSUME NEW i \in Incarnations, Store(i)
      PROVE  TickInv'
  BY <1>10 DEF Store, Goto
<1>11. ASSUME NEW i \in Incarnations, Refresh(i)
      PROVE  TickInv'
  BY <1>11 DEF Refresh, Goto, Put
<1>12. ASSUME NEW i \in Incarnations, PublishData(i)
      PROVE  TickInv'
  BY <1>12 DEF PublishData, Put
<1>13. ASSUME NEW i \in Incarnations, PublishOther(i)
      PROVE  TickInv'
  BY <1>13 DEF PublishOther
<1>14. ASSUME NEW i \in Incarnations, PutError(i)
      PROVE  TickInv'
  BY <1>14 DEF PutError
<1>15. ASSUME NEW i \in Incarnations, Clear(i)
      PROVE  TickInv'
  BY <1>15 DEF Clear, Goto
<1>16. ASSUME NEW i \in Incarnations, Backoff(i)
      PROVE  TickInv'
  BY <1>16 DEF Backoff, Goto
<1>17. ASSUME NEW i \in Incarnations, KeepaliveDeclare(i)
      PROVE  TickInv'
  BY <1>17 DEF KeepaliveDeclare
<1>18. ASSUME NEW i \in Incarnations, KeepaliveTick(i)
      PROVE  TickInv'
  BY <1>18 DEF KeepaliveTick, Cached
<1>19. ASSUME NEW i \in Incarnations, NEW p \in Pools, KeepalivePut(i, p)
      PROVE  TickInv'
  BY <1>19 DEF KeepalivePut, KeepaliveDone, Put
<1>20. ASSUME NEW i \in Incarnations, NEW p \in Pools, KeepalivePutError(i, p)
      PROVE  TickInv'
  BY <1>20 DEF KeepalivePutError, KeepaliveDone
<1>21. ASSUME ViewerJoins
      PROVE  TickInv'
  BY <1>21 DEF ViewerJoins
<1>22. CASE UNCHANGED vars
  BY <1>22 DEF vars
<1>23. QED
  BY <1>1, <1>2, <1>3, <1>4, <1>5, <1>6, <1>7, <1>8, <1>9, <1>10, <1>11, <1>12,
      <1>13, <1>14, <1>15, <1>16, <1>17, <1>18, <1>19, <1>20, <1>21, <1>22
  DEF Next, Forward, Progress, Keepalive

LEMMA Invariance == Spec => []IInv
<1>1. IInv /\ [Next]_vars => IInv'
  BY StepTypeOK, StepCacheInv, StepTickInv DEF IInv
<1>2. QED
  BY InitIInv, <1>1, PTL DEF Spec

\* Type correctness; the keepalive holds the mutex exactly while it puts.
THEOREM TypeCorrect == Spec => []TypeOK
<1>1. IInv => TypeOK
  BY DEF IInv
<1>2. QED
  BY Invariance, <1>1, PTL

\* Between two packets, over reconnects and in every incarnation, the cache
\* that late viewers are served from is what the connection has put.
THEOREM CacheFollowsConnection == Spec => []CacheCurrent
<1>1. IInv => CacheCurrent
  BY DEF IInv, CacheInv, CacheCurrent
<1>2. QED
  BY Invariance, <1>1, PTL

-----------------------------------------------------------------------------
(* Viewers never fall back. *)

\* A task of incarnation i is alive and may still put something.
Talking(i) == Live(i) \/ ka[i].pc \in {"declare", "sleep", "put"}

\* At most one incarnation talks: what would hold if stop_stream aborted the
\* keepalive with the forwarder, and does hold for a single start.
OneTalker == \A i, j \in Incarnations : Talking(i) /\ Talking(j) => i = j

\* Nobody has a frame that was not sent.
Sent ==
    /\ \A p \in Pools : shown[p] # None => shown[p] <= sent
    /\ \A i \in Incarnations, p \in Pools :
          /\ cache[i][p] # None => cache[i][p] <= sent
          /\ local[i][p] # None => local[i][p] <= sent
    /\ \A i \in Incarnations : fwd[i].pc = "caching" => fwd[i].frame = sent

\* What a talking incarnation may put is not older than what viewers have.
Newest ==
    \A i \in Incarnations : Talking(i) => \A p \in Pools :
        /\ cache[i][p] # None => ~Older(cache[i][p], shown[p])
        /\ fwd[i].pc \in Connected /\ local[i][p] # None => ~Older(local[i][p], shown[p])

NInv == Sent /\ Newest

LEMMA InitNInv == Init => NInv
  BY ForwarderAssumption DEF Init, NInv, Sent, Newest, Talking, Live, Empty, Fwd, Ka

LEMMA StepNInv ==
    IInv /\ IInv' /\ OneTalker /\ OneTalker' /\ NInv /\ [Next]_vars => NInv'
<1> SUFFICES ASSUME IInv, IInv', OneTalker, OneTalker', NInv, [Next]_vars PROVE NInv'
  OBVIOUS
<1> USE ForwarderAssumption
    DEF IInv, TypeOK, CacheInv, TickInv, OneTalker, NInv, Sent, Newest, Talking, Live,
        Connected, Older, Fwd, Ka, Empty
<1>1. ASSUME NEW i \in Incarnations, Start(i)
      PROVE  NInv'
  BY <1>1 DEF Start
<1>2. ASSUME NEW i \in Incarnations, Abort(i)
      PROVE  NInv'
  BY <1>2 DEF Abort, Live
<1>3. ASSUME NEW i \in Incarnations, Connect(i)
      PROVE  NInv'
  BY <1>3 DEF Connect, Goto
<1>4. ASSUME NEW i \in Incarnations, NEW p \in Pools, ReadPoolData(i, p)
      PROVE  NInv'
  BY <1>4 DEF ReadPoolData
<1>5. ASSUME NEW i \in Incarnations, NEW p \in Pools, ReadCommit(i, p)
      PROVE  NInv'
  BY <1>5 DEF ReadCommit
<1>6. ASSUME NEW i \in Incarnations, ReadOther(i)
      PROVE  NInv'
  BY <1>6 DEF ReadOther
<1>7. ASSUME NEW i \in Incarnations, Disconnect(i)
      PROVE  NInv'
  BY <1>7 DEF Disconnect
<1>8. ASSUME NEW i \in Incarnations, Declare(i)
      PROVE  NInv'
  BY <1>8 DEF Declare, Goto
<1>9. ASSUME NEW i \in Incarnations, DeclareError(i)
      PROVE  NInv'
  BY <1>9 DEF DeclareError, Goto
<1>10. ASSUME NEW i \in Incarnations, Store(i)
      PROVE  NInv'
  BY <1>10 DEF Store, Goto
<1>11. ASSUME NEW i \in Incarnations, Refresh(i)
      PROVE  NInv'
  BY <1>11 DEF Refresh, Goto, Put
<1>12. ASSUME NEW i \in Incarnations, PublishData(i)
      PROVE  NInv'
  BY <1>12 DEF PublishData, Put
<1>13. ASSUME NEW i \in Incarnations, PublishOther(i)
      PROVE  NInv'
  BY <1>13 DEF PublishOther
<1>14. ASSUME NEW i \in Incarnations, PutError(i)
      PROVE  NInv'
  BY <1>14 DEF PutError
<1>15. ASSUME NEW i \in Incarnations, Clear(i)
      PROVE  NInv'
  BY <1>15 DEF Clear, Goto
<1>16. ASSUME NEW i \in Incarnations, Backoff(i)
      PROVE  NInv'
  BY <1>16 DEF Backoff, Goto
<1>17. ASSUME NEW i \in Incarnations, KeepaliveDeclare(i)
      PROVE  NInv'
  BY <1>17 DEF KeepaliveDeclare
<1>18. ASSUME NEW i \in Incarnations, KeepaliveTick(i)
      PROVE  NInv'
  BY <1>18 DEF KeepaliveTick, Cached
<1>19. ASSUME NEW i \in Incarnations, NEW p \in Pools, KeepalivePut(i, p)
      PROVE  NInv'
  BY <1>19 DEF KeepalivePut, KeepaliveDone, Put
<1>20. ASSUME NEW i \in Incarnations, NEW p \in Pools, KeepalivePutError(i, p)
      PROVE  NInv'
  BY <1>20 DEF KeepalivePutError, KeepaliveDone
<1>21. ASSUME ViewerJoins
      PROVE  NInv'
  BY <1>21 DEF ViewerJoins
<1>22. CASE UNCHANGED vars
  BY <1>22 DEF vars
<1>23. QED
  BY <1>1, <1>2, <1>3, <1>4, <1>5, <1>6, <1>7, <1>8, <1>9, <1>10, <1>11, <1>12,
      <1>13, <1>14, <1>15, <1>16, <1>17, <1>18, <1>19, <1>20, <1>21, <1>22
  DEF Next, Forward, Progress, Keepalive

LEMMA StepAdvances ==
    IInv /\ NInv /\ [Next]_vars => \A p \in Pools : ~Older(shown'[p], shown[p])
<1> SUFFICES ASSUME IInv, NInv, [Next]_vars
             PROVE  \A p \in Pools : ~Older(shown'[p], shown[p])
  OBVIOUS
<1> USE ForwarderAssumption
    DEF IInv, TypeOK, CacheInv, TickInv, NInv, Newest, Talking, Live, Connected
<1>1. ASSUME NEW i \in Incarnations, Refresh(i)
      PROVE  \A p \in Pools : ~Older(shown'[p], shown[p])
  BY <1>1 DEF Refresh, Put, Older
<1>2. ASSUME NEW i \in Incarnations, PublishData(i)
      PROVE  \A p \in Pools : ~Older(shown'[p], shown[p])
  BY <1>2 DEF PublishData, Put, Older
<1>3. ASSUME NEW i \in Incarnations, NEW q \in Pools, KeepalivePut(i, q)
      PROVE  \A p \in Pools : ~Older(shown'[p], shown[p])
  BY <1>3 DEF KeepalivePut, Put, Older
<1>4. CASE UNCHANGED shown
  BY <1>4 DEF Older
<1>5. QED
  BY <1>1, <1>2, <1>3, <1>4
  DEF Next, vars, Start, Abort, Connect, Forward, Progress, Keepalive, ReadPoolData,
      ReadCommit, ReadOther, Disconnect, Declare, DeclareError, Store, PublishOther,
      PutError, Clear, Backoff, KeepaliveDeclare, KeepaliveTick, KeepalivePutError,
      ViewerJoins

\* Neither the keepalive, racing the forwarder or a reconnect, nor the refresh
\* before a commit puts a frame older than one already put, as long as the
\* tasks of at most one start are alive; fw_restart.cfg shows what happens else.
THEOREM NoFallback == Spec /\ []OneTalker => FramesAdvance
<1>1. Spec /\ []OneTalker => []NInv
  BY Invariance, InitNInv, StepNInv, PTL DEF Spec
<1>2. IInv /\ NInv /\ [Next]_vars => [\A p \in Pools : ~Older(shown'[p], shown[p])]_vars
  BY StepAdvances
<1>3. QED
  BY <1>1, <1>2, Invariance, PTL DEF Spec, FramesAdvance

\* In particular for a stream that is started once.
COROLLARY NoFallbackOnce ==
    ASSUME \A i, j \in Incarnations : i = j
    PROVE  Spec => FramesAdvance
<1>1. OneTalker
  BY DEF OneTalker
<1>2. []OneTalker
  BY <1>1, PTL
<1>3. QED
  BY NoFallback, <1>2
=============================================================================
