-------------------------- MODULE StreamForwarder --------------------------
(***************************************************************************)
(* The frame path of one stream (bsdos-core/src/wayland_forwarder.rs): the *)
(* forwarder task reads length-prefixed packets from the tunnel's socket   *)
(* and publishes them on the stream's Zenoh topic; a keepalive task that   *)
(* it spawns republishes the cached POOL_DATA for viewers that join late.  *)
(*                                                                         *)
(* An incarnation is one forwarder with its keepalive and its cache.       *)
(* stop_stream aborts the forwarder task at an await; the keepalive's      *)
(* handle was dropped when it was spawned, so nothing aborts that.         *)
(* start_stream of the same app_id begins the next incarnation.            *)
(*                                                                         *)
(* Frames of a pool are numbered in the order in which the tunnels send    *)
(* them.  What viewers have of a pool is the last POOL_DATA published.     *)
(* Lengths and payloads are abstracted to what the code tells apart.       *)
(***************************************************************************)
EXTENDS Naturals, FiniteSets

CONSTANTS
    Incarnations,   \* 1..n: starts of the stream
    Pools,          \* shm pool ids
    None,
    MaxFrames       \* bound on POOL_DATA packets

ASSUME ForwarderAssumption ==
    /\ Incarnations \subseteq Nat
    /\ None \notin Pools
    /\ None \notin Nat \cup {"ka"}
    /\ MaxFrames \in Nat

VARIABLES
    fwd,        \* fwd[i]: the forwarder task
    ka,         \* ka[i]: the keepalive task
    lock,       \* lock[i]: who holds the mutex of the shared cache
    cache,      \* cache[i]: shared_cache, pool -> last frame
    local,      \* local[i]: pool_cache of the connection
    sent,       \* frames sent by tunnels so far
    shown,      \* shown[p]: what viewers have of pool p
    waiting     \* pools a viewer that joined late has nothing of

vars == <<fwd, ka, lock, cache, local, sent, shown, waiting>>

-----------------------------------------------------------------------------
Empty == [p \in Pools |-> None]

FwdPCs == {"unborn", "declare", "connect", "read", "caching", "refresh", "publish",
           "clear", "backoff", "gone"}

\* pkt: the packet in hand, a frame of a pool, a commit on a pool (frame
\* None), or anything else (pool None).
Fwd(pc, pool, frame) == [pc |-> pc, pool |-> pool, frame |-> frame]

\* todo: pools of the cache still to be put in this tick.
Ka(pc, todo) == [pc |-> pc, todo |-> todo]

Live(i) == fwd[i].pc \notin {"unborn", "gone"}

Init ==
    /\ fwd = [i \in Incarnations |-> Fwd("unborn", None, None)]
    /\ ka = [i \in Incarnations |-> Ka("unborn", {})]
    /\ lock = [i \in Incarnations |-> None]
    /\ cache = [i \in Incarnations |-> Empty]
    /\ local = [i \in Incarnations |-> Empty]
    /\ sent = 0
    /\ shown = Empty
    /\ waiting = {}

Put(p, f) ==
    /\ shown' = [shown EXCEPT ![p] = f]
    /\ waiting' = waiting \ {p}

Goto(i, pc) == fwd' = [fwd EXCEPT ![i] = Fwd(pc, @.pool, @.frame)]

-----------------------------------------------------------------------------
(* start_stream and stop_stream, one incarnation after the other. *)

Start(i) ==
    /\ fwd[i].pc = "unborn"
    /\ \A j \in Incarnations : j < i => fwd[j].pc = "gone"
    /\ fwd' = [fwd EXCEPT ![i] = Fwd("declare", None, None)]
    /\ UNCHANGED <<ka, lock, cache, local, sent, shown, waiting>>

\* JoinHandle::abort drops the future at an await; the forwarder holds its
\* guard of the cache over none.
Abort(i) ==
    /\ Live(i)
    /\ fwd' = [fwd EXCEPT ![i] = Fwd("gone", None, None)]
    /\ UNCHANGED <<ka, lock, cache, local, sent, shown, waiting>>

-----------------------------------------------------------------------------
(* The forwarder of incarnation i. *)

\* The publisher is declared and the keepalive spawned.
Declare(i) ==
    /\ fwd[i].pc = "declare"
    /\ Goto(i, "connect")
    /\ ka' = [ka EXCEPT ![i] = Ka("declare", {})]
    /\ UNCHANGED <<lock, cache, local, sent, shown, waiting>>

\* "publisher error": the task returns.
DeclareError(i) ==
    /\ fwd[i].pc = "declare"
    /\ Goto(i, "gone")
    /\ UNCHANGED <<ka, lock, cache, local, sent, shown, waiting>>

Connect(i) ==
    /\ fwd[i].pc = "connect"
    /\ local' = [local EXCEPT ![i] = Empty]
    /\ Goto(i, "read")
    /\ UNCHANGED <<ka, lock, cache, sent, shown, waiting>>

\* A POOL_DATA packet: pool_cache first, then wait for the shared cache.
ReadPoolData(i, p) ==
    /\ fwd[i].pc = "read"
    /\ sent < MaxFrames
    /\ sent' = sent + 1
    /\ local' = [local EXCEPT ![i][p] = sent + 1]
    /\ fwd' = [fwd EXCEPT ![i] = Fwd("caching", p, sent + 1)]
    /\ UNCHANGED <<ka, lock, cache, shown, waiting>>

\* A SURFACE_COMMIT: when the pool is cached and was last put 3 s ago or
\* more, the cached data is put before the commit.
ReadCommit(i, p) ==
    /\ fwd[i].pc = "read"
    /\ fwd' \in {[fwd EXCEPT ![i] = Fwd(pc, p, None)] :
                    pc \in {"publish"} \cup IF local[i][p] # None THEN {"refresh"} ELSE {}}
    /\ UNCHANGED <<ka, lock, cache, local, sent, shown, waiting>>

\* Any other packet is passed on.
ReadOther(i) ==
    /\ fwd[i].pc = "read"
    /\ fwd' = [fwd EXCEPT ![i] = Fwd("publish", None, None)]
    /\ UNCHANGED <<ka, lock, cache, local, sent, shown, waiting>>

\* Read error, 10 s of silence, a length of zero or above the limit, or a
\* connection that ends within a payload.
Disconnect(i) ==
    /\ fwd[i].pc = "read"
    /\ fwd' = [fwd EXCEPT ![i] = Fwd("clear", None, None)]
    /\ UNCHANGED <<ka, lock, cache, local, sent, shown, waiting>>

StoreLater(i) ==      \* slip: the shared cache is left to a later packet
    /\ fwd[i].pc = "caching"
    /\ lock[i] = None
    /\ Goto(i, "publish")
    /\ UNCHANGED <<ka, lock, cache, local, sent, shown, waiting>>

Store(i) ==
    /\ fwd[i].pc = "caching"
    /\ lock[i] = None
    /\ cache' = [cache EXCEPT ![i][fwd[i].pool] = fwd[i].frame]
    /\ Goto(i, "publish")
    /\ UNCHANGED <<ka, lock, local, sent, shown, waiting>>

Refresh(i) ==
    /\ fwd[i].pc = "refresh"
    /\ Put(fwd[i].pool, local[i][fwd[i].pool])
    /\ Goto(i, "publish")
    /\ UNCHANGED <<ka, lock, cache, local, sent>>

PublishData(i) ==
    /\ fwd[i].pc = "publish" /\ fwd[i].frame # None
    /\ Put(fwd[i].pool, fwd[i].frame)
    /\ fwd' = [fwd EXCEPT ![i] = Fwd("read", None, None)]
    /\ UNCHANGED <<ka, lock, cache, local, sent>>

PublishOther(i) ==
    /\ fwd[i].pc = "publish" /\ fwd[i].frame = None
    /\ fwd' = [fwd EXCEPT ![i] = Fwd("read", None, None)]
    /\ UNCHANGED <<ka, lock, cache, local, sent, shown, waiting>>

\* A put that fails is logged; the packet is lost.
PutError(i) ==
    /\ fwd[i].pc \in {"refresh", "publish"}
    /\ fwd' = [fwd EXCEPT ![i] = IF @.pc = "refresh" THEN Fwd("publish", @.pool, None)
                                 ELSE Fwd("read", None, None)]
    /\ UNCHANGED <<ka, lock, cache, local, sent, shown, waiting>>

Clear(i) ==
    /\ fwd[i].pc = "clear"
    /\ lock[i] = None
    /\ cache' = [cache EXCEPT ![i] = Empty]
    /\ Goto(i, "backoff")
    /\ UNCHANGED <<ka, lock, local, sent, shown, waiting>>

Backoff(i) ==
    /\ fwd[i].pc = "backoff"
    /\ Goto(i, "connect")
    /\ UNCHANGED <<ka, lock, cache, local, sent, shown, waiting>>

-----------------------------------------------------------------------------
(* The keepalive of incarnation i. *)

Cached(i) == {p \in Pools : cache[i][p] # None}

KeepaliveDeclare(i) ==
    /\ ka[i].pc = "declare"
    /\ ka' \in {[ka EXCEPT ![i] = Ka(pc, {})] : pc \in {"sleep", "gone"}}
    /\ UNCHANGED <<fwd, lock, cache, local, sent, shown, waiting>>

KeepaliveUnlocked(i) ==      \* slip: the mutex is dropped before the puts
    /\ ka[i].pc = "sleep"
    /\ lock[i] = None
    /\ Cached(i) # {}
    /\ ka' = [ka EXCEPT ![i] = Ka("put", Cached(i))]
    /\ UNCHANGED <<fwd, lock, cache, local, sent, shown, waiting>>

\* The mutex is held from here over all the puts of the tick.
KeepaliveTick(i) ==
    /\ ka[i].pc = "sleep"
    /\ lock[i] = None
    /\ lock' = [lock EXCEPT ![i] = IF Cached(i) = {} THEN None ELSE "ka"]
    /\ ka' = [ka EXCEPT ![i] = IF Cached(i) = {} THEN @ ELSE Ka("put", Cached(i))]
    /\ UNCHANGED <<fwd, cache, local, sent, shown, waiting>>

\* The put of one pool is done, well or with an error that is logged.
KeepaliveDone(i, p) ==
    /\ ka' = [ka EXCEPT ![i] = IF @.todo = {p} THEN Ka("sleep", {})
                               ELSE Ka("put", @.todo \ {p})]
    /\ lock' = [lock EXCEPT ![i] = IF ka[i].todo = {p} THEN None ELSE @]

KeepalivePut(i, p) ==
    /\ ka[i].pc = "put" /\ p \in ka[i].todo
    /\ Put(p, cache[i][p])
    /\ KeepaliveDone(i, p)
    /\ UNCHANGED <<fwd, cache, local, sent>>

KeepaliveGivesUp(i, p) ==      \* slip: the task returns on a put error
    /\ ka[i].pc = "put" /\ p \in ka[i].todo
    /\ ka' = [ka EXCEPT ![i] = Ka("gone", {})]
    /\ lock' = [lock EXCEPT ![i] = None]
    /\ UNCHANGED <<fwd, cache, local, sent, shown, waiting>>

KeepalivePutError(i, p) ==
    /\ ka[i].pc = "put" /\ p \in ka[i].todo
    /\ KeepaliveDone(i, p)
    /\ UNCHANGED <<fwd, cache, local, sent, shown, waiting>>

-----------------------------------------------------------------------------
\* A viewer subscribes to the topic and has nothing yet.
ViewerJoins ==
    /\ waiting' = Pools
    /\ UNCHANGED <<fwd, ka, lock, cache, local, sent, shown>>

Forward(i) ==
    \/ \E p \in Pools : ReadPoolData(i, p) \/ ReadCommit(i, p)
    \/ ReadOther(i) \/ Disconnect(i)

Progress(i) ==
    \/ Declare(i) \/ DeclareError(i) \/ Store(i) \/ Refresh(i) \/ PublishData(i) \/ PublishOther(i)
    \/ PutError(i) \/ Clear(i) \/ Backoff(i)

Keepalive(i) ==
    \/ KeepaliveDeclare(i) \/ KeepaliveTick(i)
    \/ \E p \in Pools : KeepalivePut(i, p) \/ KeepalivePutError(i, p)

Next ==
    \/ \E i \in Incarnations :
          Start(i) \/ Abort(i) \/ Connect(i) \/ Forward(i) \/ Progress(i) \/ Keepalive(i)
    \/ ViewerJoins

Spec == Init /\ [][Next]_vars

\* The runtime polls both tasks; a put tried again and again succeeds at last.
\* Nothing is assumed of the tunnel: no fairness for Connect or the reads.
Fairness ==
    \A i \in Incarnations :
        /\ WF_vars(Progress(i))
        /\ WF_vars(Keepalive(i))
        /\ \A p \in Pools : SF_vars(KeepalivePut(i, p))

FairSpec == Spec /\ Fairness

-----------------------------------------------------------------------------
(* Properties. *)

\* Every variable has its type, and the keepalive holds the mutex of its
\* cache exactly while it puts.
TypeOK ==
    /\ fwd \in [Incarnations -> [pc : FwdPCs, pool : Pools \cup {None},
                                 frame : Nat \cup {None}]]
    /\ ka \in [Incarnations -> [pc : {"unborn", "declare", "sleep", "put", "gone"}, todo : SUBSET Pools]]
    /\ cache \in [Incarnations -> [Pools -> Nat \cup {None}]]
    /\ local \in [Incarnations -> [Pools -> Nat \cup {None}]]
    /\ sent \in Nat
    /\ shown \in [Pools -> Nat \cup {None}]
    /\ waiting \subseteq Pools
    /\ lock = [i \in Incarnations |-> IF ka[i].pc = "put" THEN "ka" ELSE None]

\* A frame is older than another, nothing being oldest.
Older(f, g) == f # g /\ (f = None \/ (g # None /\ f < g))

\* "stale data isn't republished": viewers never fall back.  Neither the
\* keepalive, racing the forwarder or a reconnect, nor the refresh before a
\* commit puts a frame of a pool older than one already put.
FramesAdvance == [][\A p \in Pools : ~Older(shown'[p], shown[p])]_vars

\* What the forwarder has put on this connection is what the keepalive would
\* put: viewers that join late see the same frame as the others.
CacheCurrent ==
    \A i \in Incarnations, p \in Pools :
        fwd[i].pc = "read" => cache[i][p] = local[i][p]

\* A viewer that joins late gets the frame that is cached, without a new one
\* from the application, unless the connection ends first or the keepalive
\* got no publisher.
LateJoinerServed ==
    \A i \in Incarnations, p \in Pools :
        (p \in waiting /\ cache[i][p] # None /\ ka[i].pc \in {"sleep", "put"}) ~>
            (p \notin waiting \/ cache[i][p] = None)
=============================================================================
