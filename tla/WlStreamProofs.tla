--------------------------- MODULE WlStreamProofs ---------------------------
(***************************************************************************)
(* Theorems about WlStream, for every number of surfaces and pools, every  *)
(* buffer size, damage rectangle and coding, and any bound:                *)
(*                                                                         *)
(*   ParsedWhole     what parse_events returns is whole events in their    *)
(*                   order, wherever the payload was cut;                  *)
(*   DamageInside    the damage reported for a frame is inside it;         *)
(*   FramesFaithful  a frame made from its own pool data is the drawing;   *)
(*   DisplayIsCurrent  redrawing only the merged damage shows the frame.   *)
(*                                                                         *)
(* The first three follow from FrameInv, which speaks of one payload and   *)
(* one frame at a time.  The last one needs DisplayInv: every commit of a  *)
(* surface still under way is joined to the one before it, the first to    *)
(* what the frame shows and the last to what the application has drawn,    *)
(* and what the viewer does not show yet lies inside the damage it holds.  *)
(*                                                                         *)
(* The sums and the scan of parse_events are recursive functions.  What    *)
(* they compute is proved with LeastNat, an induction over sets of         *)
(* numbers, which needs no operator as a parameter.                        *)
(***************************************************************************)
EXTENDS WlStream, WellFoundedInduction, TLAPS

-----------------------------------------------------------------------------
(* Damage rectangles. *)

Inside(r, w, h) == ~is_zero(r) /\ r.x + r.w <= w /\ r.y + r.h <= h

\* clamp_damage returns at most one rectangle.  It is not empty, lies inside the
\* buffer and covers exactly what the damage covers of it (everything, if the
\* damage is zero); there is none only if the damage covers nothing of it.
LEMMA ClampDamage ==
    ASSUME NEW d \in Rects, NEW w \in 1..U16Max, NEW h \in 1..U16Max
    PROVE  /\ \A r \in clamp_damage(d, w, h) :
                 /\ clamp_damage(d, w, h) = {r} /\ r \in Rects /\ Inside(r, w, h)
                 /\ \A q \in Grid(w, h) : Covers(r, q) <=> is_zero(d) \/ Covers(d, q)
           /\ clamp_damage(d, w, h) = {} =>
                 ~is_zero(d) /\ \A q \in Grid(w, h) : ~Covers(d, q)
<1> U16Max \in Nat
  BY WlStreamAssumption
<1> DEFINE x == Least(d.x, w)
<1> DEFINE y == Least(d.y, h)
<1> DEFINE x2 == Least(saturating_add(d.x, d.w), w)
<1> DEFINE y2 == Least(saturating_add(d.y, d.h), h)
<1> DEFINE c == Rect(x, y, saturating_sub(x2, x), saturating_sub(y2, y))
<1>1. d.x \in U16 /\ d.y \in U16 /\ d.w \in U16 /\ d.h \in U16
  BY DEF Rects
<1>2. CASE is_zero(d)
  <2> DEFINE r == Rect(0, 0, w, h)
  <2>1. clamp_damage(d, w, h) = {r}
    BY <1>2 DEF clamp_damage
  <2>2. r \in Rects /\ Inside(r, w, h)
    BY DEF Rect, Rects, U16, Inside, is_zero
  <2>3. \A q \in Grid(w, h) : Covers(r, q)
    BY DEF Rect, Covers, Grid
  <2>4. QED
    BY <1>2, <2>1, <2>2, <2>3
<1>3. CASE ~is_zero(d)
  <2>1. clamp_damage(d, w, h) = {r \in {c} : ~is_zero(r)}
    BY <1>3 DEF clamp_damage
  <2>2. /\ x \in 0..w /\ y \in 0..h /\ x2 \in 0..w /\ y2 \in 0..h
        /\ x <= x2 /\ y <= y2
    BY <1>1 DEF Least, saturating_add, U16
  <2>3. c.x = x /\ c.y = y /\ c.w = x2 - x /\ c.h = y2 - y /\ c \in Rects
    BY <2>2 DEF Rect, Rects, U16, saturating_sub, Most
  <2>4. ~is_zero(c) => Inside(c, w, h)
    BY <2>2, <2>3 DEF Inside
  <2>5. ASSUME NEW q \in Grid(w, h) PROVE Covers(c, q) <=> Covers(d, q)
    <3>1. q[1] \in 0..(w - 1) /\ q[2] \in 0..(h - 1)
      BY DEF Grid
    <3>2. (x <= q[1] /\ q[1] < x2) <=> (d.x <= q[1] /\ q[1] < d.x + d.w)
      BY <1>1, <3>1 DEF Least, saturating_add, U16
    <3>3. (y <= q[2] /\ q[2] < y2) <=> (d.y <= q[2] /\ q[2] < d.y + d.h)
      BY <1>1, <3>1 DEF Least, saturating_add, U16
    <3>4. QED
      BY <2>2, <2>3, <3>1, <3>2, <3>3 DEF Covers
  <2>6. is_zero(c) => \A q \in Grid(w, h) : ~Covers(c, q)
    BY <2>2, <2>3 DEF is_zero, Covers, Grid
  <2> HIDE DEF c
  <2>7. QED
    BY <1>3, <2>1, <2>3, <2>4, <2>5, <2>6
<1>4. QED
  BY <1>2, <1>3

\* merge_damage covers, of any buffer, at least what both rectangles cover, and
\* stays inside a buffer both lie inside.
LEMMA MergeDamage ==
    ASSUME NEW d \in Rects, NEW e \in Rects
    PROVE  /\ merge_damage(d, e) \in Rects
           /\ \A w, h \in 0..U16Max : \A q \in Grid(w, h) :
                 Covers(d, q) \/ Covers(e, q) => Covers(merge_damage(d, e), q)
           /\ \A w, h \in 0..U16Max :
                 Inside(d, w, h) /\ Inside(e, w, h) => Inside(merge_damage(d, e), w, h)
<1> U16Max \in Nat
  BY WlStreamAssumption
<1> DEFINE m == merge_damage(d, e)
<1>1. /\ d.x \in U16 /\ d.y \in U16 /\ d.w \in U16 /\ d.h \in U16
      /\ e.x \in U16 /\ e.y \in U16 /\ e.w \in U16 /\ e.h \in U16
  BY DEF Rects
<1>2. CASE is_zero(d)
  BY <1>1, <1>2 DEF merge_damage, is_zero, Covers, Grid, Inside, U16
<1>3. CASE ~is_zero(d) /\ is_zero(e)
  BY <1>1, <1>3 DEF merge_damage, is_zero, Covers, Grid, Inside, U16
<1>4. CASE ~is_zero(d) /\ ~is_zero(e)
  <2> DEFINE x1 == Least(d.x, e.x)
  <2> DEFINE y1 == Least(d.y, e.y)
  <2> DEFINE x2 == Most(saturating_add(d.x, d.w), saturating_add(e.x, e.w))
  <2> DEFINE y2 == Most(saturating_add(d.y, d.h), saturating_add(e.y, e.h))
  <2>1. m = Rect(x1, y1, saturating_sub(x2, x1), saturating_sub(y2, y1))
    BY <1>4 DEF merge_damage
  <2>2. x1 \in U16 /\ y1 \in U16 /\ x2 \in U16 /\ y2 \in U16 /\ x1 <= x2 /\ y1 <= y2
    BY <1>1 DEF Least, Most, saturating_add, U16
  <2>3. m.x = x1 /\ m.y = y1 /\ m.w = x2 - x1 /\ m.h = y2 - y1 /\ m \in Rects
    BY <2>1, <2>2 DEF Rect, Rects, U16, saturating_sub, Most
  <2>4. ASSUME NEW w \in 0..U16Max, NEW h \in 0..U16Max, NEW q \in Grid(w, h),
               Covers(d, q) \/ Covers(e, q)
        PROVE  Covers(m, q)
    <3>1. q[1] \in 0..(w - 1) /\ q[2] \in 0..(h - 1)
      BY DEF Grid
    <3>2. x1 <= q[1] /\ q[1] < x2
      BY <1>1, <2>4, <3>1 DEF Least, Most, saturating_add, U16, Covers
    <3>3. y1 <= q[2] /\ q[2] < y2
      BY <1>1, <2>4, <3>1 DEF Least, Most, saturating_add, U16, Covers
    <3>4. QED
      BY <2>2, <2>3, <3>1, <3>2, <3>3 DEF Covers, U16
  <2>5. ASSUME NEW w \in 0..U16Max, NEW h \in 0..U16Max, Inside(d, w, h), Inside(e, w, h)
        PROVE  Inside(m, w, h)
    <3>1. x2 <= w /\ y2 <= h /\ x1 < x2 /\ y1 < y2
      BY <1>1, <1>4, <2>5 DEF Least, Most, saturating_add, U16, Inside, is_zero
    <3>2. QED
      BY <2>2, <2>3, <3>1 DEF Inside, is_zero, U16
  <2>6. QED
    BY <2>3, <2>4, <2>5
<1>5. QED
  BY <1>2, <1>3, <1>4

-----------------------------------------------------------------------------
(* Induction over natural numbers, as a fact about sets. *)

LEMMA LeastNat ==
    ASSUME NEW T \in SUBSET Nat, T # {}
    PROVE  \E x \in T : \A y \in T : x <= y
<1>1. PICK x \in T : \A y \in T : ~(<<y, x>> \in OpToRel(<, Nat))
  BY WFMin, NatLessThanWellFounded
<1>2. ASSUME NEW y \in T PROVE ~(y < x)
  BY <1>1, Zenon DEF OpToRel
<1>3. QED
  BY <1>2

LEMMA Induction ==
    ASSUME NEW S, 0 \in S, \A n \in Nat : n \in S => n + 1 \in S
    PROVE  Nat \subseteq S
<1> DEFINE T == Nat \ S
<1>1. SUFFICES ASSUME T # {} PROVE FALSE
  OBVIOUS
<1>2. PICK x \in T : \A y \in T : x <= y
  BY <1>1, LeastNat
<1>3. x - 1 \in Nat /\ x - 1 \notin T
  BY <1>2
<1>4. QED
  BY <1>3

-----------------------------------------------------------------------------
(* The sizes of events and payloads. *)

\* b[i] is the size of the first i events, for i up to n.
Adds(b, evs, n) == b = [i \in 0..n |-> IF i = 0 THEN 0 ELSE b[i - 1] + Size(evs[i])]

LEMMA AddsExists == ASSUME NEW evs PROVE \A n \in Nat : \E b : Adds(b, evs, n)
<1> DEFINE S == {n \in Nat : \E b : Adds(b, evs, n)}
<1>1. 0 \in S
  <2>1. Adds([i \in 0..0 |-> 0], evs, 0)
    BY DEF Adds
  <2>2. QED
    BY <2>1
<1>2. ASSUME NEW n \in Nat, n \in S PROVE n + 1 \in S
  <2>1. PICK b : Adds(b, evs, n)
    BY <1>2
  <2> DEFINE c == [i \in 0..(n + 1) |-> IF i = n + 1 THEN b[n] + Size(evs[n + 1]) ELSE b[i]]
  <2>2. Adds(c, evs, n + 1)
    <3>1. ASSUME NEW i \in 0..(n + 1)
          PROVE  c[i] = IF i = 0 THEN 0 ELSE c[i - 1] + Size(evs[i])
      BY <2>1 DEF Adds
    <3>2. QED
      BY <3>1 DEF Adds
  <2>3. QED
    BY <2>2
<1> HIDE DEF S
<1>3. Nat \subseteq S
  BY <1>1, <1>2, Induction
<1>4. QED
  BY <1>3 DEF S

LEMMA AddsUnique ==
    ASSUME NEW evs, NEW n \in Nat, NEW m \in Nat, n <= m, NEW b, NEW c,
           Adds(b, evs, n), Adds(c, evs, m)
    PROVE  \A i \in 0..n : b[i] = c[i]
<1> DEFINE S == {i \in Nat : i <= n => b[i] = c[i]}
<1>1. 0 \in S
  BY DEF Adds
<1>2. ASSUME NEW i \in Nat, i \in S PROVE i + 1 \in S
  BY <1>2 DEF Adds
<1> HIDE DEF S
<1>3. Nat \subseteq S
  BY <1>1, <1>2, Induction
<1>4. QED
  BY <1>3 DEF S

LEMMA BytesIs ==
    ASSUME NEW evs, NEW n \in Nat, NEW b, Adds(b, evs, n)
    PROVE  Bytes(evs, n) = b[n]
<1> DEFINE c == CHOOSE f : Adds(f, evs, n)
<1>1. Adds(c, evs, n)
  OBVIOUS
<1>2. Bytes(evs, n) = c[n]
  BY DEF Bytes, Adds
<1> HIDE DEF c
<1>3. QED
  BY <1>1, <1>2, AddsUnique

\* The size of the first n + 1 events is that of the first n and one more.
LEMMA BytesStep ==
    ASSUME NEW evs
    PROVE  /\ Bytes(evs, 0) = 0
           /\ \A n \in Nat : Bytes(evs, n + 1) = Bytes(evs, n) + Size(evs[n + 1])
<1>1. ASSUME NEW n \in Nat, NEW b, Adds(b, evs, n) PROVE b[0] = 0
  BY <1>1 DEF Adds
<1>2. Bytes(evs, 0) = 0
  BY <1>1, AddsExists, BytesIs
<1>3. ASSUME NEW n \in Nat PROVE Bytes(evs, n + 1) = Bytes(evs, n) + Size(evs[n + 1])
  <2>1. PICK b : Adds(b, evs, n + 1)
    BY AddsExists
  <2>2. PICK c : Adds(c, evs, n)
    BY AddsExists
  <2>3. c[n] = b[n]
    BY <2>1, <2>2, AddsUnique
  <2>4. b[n + 1] = b[n] + Size(evs[n + 1])
    BY <2>1 DEF Adds
  <2>5. QED
    BY <2>1, <2>2, <2>3, <2>4, BytesIs
<1>4. QED
  BY <1>2, <1>3

-----------------------------------------------------------------------------
(* Events: what the Encoder can have encoded. *)

Pictures ==
    UNION {{Picture(dim[1], dim[2], pix) : pix \in [Grid(dim[1], dim[2]) -> Colours]} : dim \in Dims}

Codings == Sound \cup Faulty

Others == {surface_create(s) : s \in Surfaces} \cup {surface_destroy(s) : s \in Surfaces}
              \cup {cursor_move, session_reset}
PoolEvents == {pool_data(PoolOf[s], cv, coding) : s \in Surfaces, cv \in Pictures, coding \in Codings}
Commits == {surface_commit(s, cv, d) : s \in Surfaces, cv \in Pictures,
                                      d \in Damages \cup {ZeroRect}}
Events == Others \cup PoolEvents \cup Commits

LEMMA PictureType ==
    ASSUME NEW cv \in Pictures
    PROVE  /\ cv.w \in 1..U16Max /\ cv.h \in 1..U16Max /\ <<cv.w, cv.h>> \in Dims
           /\ cv.pix \in [Grid(cv.w, cv.h) -> Colours]
           /\ cv = Picture(cv.w, cv.h, cv.pix)
           /\ cv # NoPicture
<1>0. PICK dim \in Dims : cv \in {Picture(dim[1], dim[2], pix) : pix \in [Grid(dim[1], dim[2]) -> Colours]}
  BY DEF Pictures
<1>1. PICK pix \in [Grid(dim[1], dim[2]) -> Colours] : cv = Picture(dim[1], dim[2], pix)
  BY <1>0
<1>2. dim[1] \in 1..U16Max /\ dim[2] \in 1..U16Max /\ dim = <<dim[1], dim[2]>>
  BY WlStreamAssumption
<1>3. cv.w = dim[1] /\ cv.h = dim[2] /\ cv.pix = pix
  BY <1>1 DEF Picture
<1>4. NoPicture.w = 0
  BY DEF NoPicture, Picture
<1>5. QED
  BY <1>1, <1>2, <1>3, <1>4, WlStreamAssumption

LEMMA BufferType ==
    ASSUME NEW cv \in Pictures
    PROVE  /\ Offset + Stride(cv.w) * cv.h \in Nat \ {0}
           /\ Len(Buffer(cv)) = Offset + Stride(cv.w) * cv.h
           /\ DOMAIN Buffer(cv) = 1..(Offset + Stride(cv.w) * cv.h)
<1>0. cv.w \in 1..U16Max /\ cv.h \in 1..U16Max
  BY PictureType
<1>1. cv.w \in Nat /\ cv.h \in Nat
  BY <1>0, WlStreamAssumption
<1>2. Stride(cv.w) * cv.h \in Nat
  <2>1. \A a, b \in Nat : a * b \in Nat
    OBVIOUS
  <2>2. Stride(cv.w) \in Nat
    BY <1>1 DEF Stride
  <2>3. QED
    BY <1>1, <2>1, <2>2
<1>3. Offset + Stride(cv.w) * cv.h \in Nat \ {0}
  BY <1>2 DEF Offset
<1> DEFINE N == Offset + Stride(cv.w) * cv.h
<1>4. DOMAIN Buffer(cv) = 1..N
  BY DEF Buffer
<1> HIDE DEF N
<1>5. N \in Nat \ {0}
  BY <1>3 DEF N
<1>6. Len(Buffer(cv)) = N
  BY <1>4, <1>5
<1>7. QED
  BY <1>3, <1>4, <1>6 DEF N

LEMMA CommitType ==
    ASSUME NEW e \in Commits
    PROVE  /\ e.type = "commit" /\ e.damage \in Rects
           /\ e.surface \in Surfaces /\ e.pool = PoolOf[e.surface] /\ e.offset = Offset
           /\ e.of \in Pictures /\ e.w = e.of.w /\ e.h = e.of.h /\ e.stride = Stride(e.w)
           /\ e.format = FormatOf[e.surface] /\ Size(e) = 33
<1>1. PICK s \in Surfaces, cv \in Pictures, d \in Damages \cup {ZeroRect} : e = surface_commit(s, cv, d)
  BY DEF Commits
<1>2. d \in Rects
  BY WlStreamAssumption DEF Rects, U16, ZeroRect, Rect
<1>3. QED
  BY <1>1, <1>2 DEF surface_commit, Size

LEMMA PoolType ==
    ASSUME NEW e \in PoolEvents
    PROVE  /\ e.type = "pool" /\ e.coding \in Codings /\ e.of \in Pictures
           /\ e.pool \in Pools /\ e.data = Buffer(e.of) /\ e.raw_len = Len(e.data)
           /\ e.raw_len \in Nat \ {0}
           /\ Size(e) \in Nat \ {0}
<1>1. PICK s \in Surfaces, cv \in Pictures, coding \in Codings : e = pool_data(PoolOf[s], cv, coding)
  BY DEF PoolEvents
<1>2. PoolOf[s] \in Pools
  BY WlStreamAssumption
<1>3. /\ e.type = "pool" /\ e.coding \in Codings /\ e.of \in Pictures
      /\ e.pool \in Pools /\ e.data = Buffer(e.of) /\ e.raw_len = Len(e.data)
  BY <1>1, <1>2 DEF pool_data
<1>4. e.raw_len \in Nat \ {0}
  BY <1>3, BufferType
<1>5. lz4_len(e.coding, e.raw_len) \in Nat
  BY <1>4 DEF lz4_len
<1>6. Size(e) = 25 + lz4_len(e.coding, e.raw_len)
  BY <1>3 DEF Size
<1>7. QED
  BY <1>3, <1>4, <1>5, <1>6

LEMMA OtherType ==
    ASSUME NEW e \in Others
    PROVE  /\ e.type \in {"create", "destroy", "cursor", "reset"}
           /\ e.type \in {"create", "destroy"} => e.surface \in Surfaces
           /\ Size(e) \in Nat \ {0}
  BY DEF Others, surface_create, surface_destroy, cursor_move, session_reset, Size

LEMMA SizePositive == \A e \in Events : Size(e) \in Nat \ {0}
  BY CommitType, PoolType, OtherType DEF Events

\* The kind of an event is told by its type.
LEMMA KindOf ==
    ASSUME NEW e \in Events
    PROVE  /\ e.type = "commit" => e \in Commits
           /\ e.type = "pool" => e \in PoolEvents
           /\ e.type \notin {"commit", "pool"} => e \in Others
  BY CommitType, PoolType, OtherType DEF Events

-----------------------------------------------------------------------------
(* parse_events. *)

\* What the Encoder finishes and the transport may have cut.
Payload(p) ==
    /\ p \in [evs : Seq(Events), total : Nat, len : Nat]
    /\ p.total = Bytes(p.evs, Len(p.evs))

LEMMA BytesGrow ==
    ASSUME NEW evs \in Seq(Events)
    PROVE  \A m \in 0..Len(evs) : /\ Bytes(evs, m) \in Nat
                                  /\ \A n \in 0..Len(evs) : n < m => Bytes(evs, n) < Bytes(evs, m)
<1> DEFINE Grows(m) == \A n \in 0..m : Bytes(evs, n) \in Nat /\ (n < m => Bytes(evs, n) < Bytes(evs, m))
<1> DEFINE S == {m \in Nat : m <= Len(evs) => Grows(m)}
<1>1. 0 \in S
  BY BytesStep
<1>2. ASSUME NEW m \in Nat, m \in S PROVE m + 1 \in S
  <2> SUFFICES ASSUME m + 1 <= Len(evs), NEW n \in 0..(m + 1)
               PROVE  Bytes(evs, n) \in Nat /\ (n < m + 1 => Bytes(evs, n) < Bytes(evs, m + 1))
    OBVIOUS
  <2>1. Grows(m)
    BY <1>2
  <2>2. Size(evs[m + 1]) \in Nat \ {0}
    BY SizePositive
  <2>3. Bytes(evs, m + 1) = Bytes(evs, m) + Size(evs[m + 1])
    BY BytesStep
  <2>4. Bytes(evs, m) \in Nat
    BY <2>1
  <2>5. CASE n <= m
    <3>1. n \in 0..m /\ (n < m \/ n = m)
      BY <2>5
    <3>2. Bytes(evs, n) \in Nat /\ Bytes(evs, n) <= Bytes(evs, m)
      BY <2>1, <2>4, <3>1
    <3>3. QED
      BY <2>2, <2>3, <2>4, <3>2
  <2>6. CASE n = m + 1
    BY <2>2, <2>3, <2>4, <2>6
  <2>7. QED
    BY <2>5, <2>6
<1>3. Nat \subseteq S
  <2> HIDE DEF S
  <2>1. QED
    BY <1>1, <1>2, Induction
<1>4. \A m \in 0..Len(evs) : Grows(m)
  BY <1>3
<1>5. QED
  BY <1>4

\* The scan of the first n events.
End(p) == Least(4 + p.total, p.len)
ScanStart == [pos |-> 4, ok |-> 0, err |-> FALSE]
ScanStep(p, s, e) ==
    IF s.err \/ s.pos >= End(p) THEN s
    ELSE IF Known(e) /\ Size(e) <= End(p) - s.pos
    THEN [pos |-> s.pos + Size(e), ok |-> s.ok + 1, err |-> FALSE]
    ELSE [s EXCEPT !.err = TRUE]
IsScan(f, p, n) ==
    f = [i \in 0..n |-> IF i = 0 THEN ScanStart ELSE ScanStep(p, f[i - 1], p.evs[i])]

LEMMA ScanExists == ASSUME NEW p PROVE \A n \in Nat : \E f : IsScan(f, p, n)
<1> DEFINE S == {n \in Nat : \E f : IsScan(f, p, n)}
<1>1. 0 \in S
  <2>1. IsScan([i \in 0..0 |-> ScanStart], p, 0)
    BY DEF IsScan
  <2>2. QED
    BY <2>1
<1>2. ASSUME NEW n \in Nat, n \in S PROVE n + 1 \in S
  <2>1. PICK f : IsScan(f, p, n)
    BY <1>2
  <2> DEFINE g == [i \in 0..(n + 1) |-> IF i = n + 1 THEN ScanStep(p, f[n], p.evs[n + 1]) ELSE f[i]]
  <2>2. IsScan(g, p, n + 1)
    <3>1. ASSUME NEW i \in 0..(n + 1)
          PROVE  g[i] = IF i = 0 THEN ScanStart ELSE ScanStep(p, g[i - 1], p.evs[i])
      BY <2>1 DEF IsScan
    <3>2. QED
      BY <3>1 DEF IsScan
  <2>3. QED
    BY <2>2
<1> HIDE DEF S
<1>3. Nat \subseteq S
  BY <1>1, <1>2, Induction
<1>4. QED
  BY <1>3 DEF S

\* What the scan knows after i events: the ones it has taken are known and fit,
\* and it has stopped early only at the end or at one that is unknown or does not.
Scanned(p, s, i) ==
    /\ s \in [pos : Nat, ok : 0..i, err : BOOLEAN]
    /\ s.pos = 4 + Bytes(p.evs, s.ok) /\ s.pos <= End(p)
    /\ \A j \in 1..s.ok : Known(p.evs[j])
    /\ s.err => /\ s.ok < i /\ s.pos < End(p)
                /\ ~(Known(p.evs[s.ok + 1]) /\ Size(p.evs[s.ok + 1]) <= End(p) - s.pos)
    /\ ~s.err /\ s.pos < End(p) => s.ok = i

LEMMA ScanInvariant ==
    ASSUME NEW p, Payload(p), p.len >= 4, NEW f, IsScan(f, p, Len(p.evs))
    PROVE  Scanned(p, f[Len(p.evs)], Len(p.evs))
<1> DEFINE N == Len(p.evs)
<1> DEFINE S == {i \in Nat : i <= N => Scanned(p, f[i], i)}
<1>0. /\ N \in Nat /\ p.evs \in Seq(Events) /\ End(p) \in Nat /\ End(p) >= 4
      /\ p.total \in Nat
  <2>1. N \in Nat /\ p.evs \in Seq(Events)
    BY DEF Payload
  <2>2. p.total \in Nat
    BY <2>1, BytesGrow DEF Payload
  <2>3. QED
    BY <2>1, <2>2 DEF End, Least, Payload
<1>1. 0 \in S
  <2>1. f[0] = ScanStart
    BY <1>0 DEF IsScan
  <2>2. Scanned(p, ScanStart, 0)
    BY <1>0, BytesStep DEF Scanned, ScanStart
  <2>3. QED
    BY <2>1, <2>2
<1>2. ASSUME NEW i \in Nat, i \in S PROVE i + 1 \in S
  <2> SUFFICES ASSUME i + 1 <= N PROVE Scanned(p, f[i + 1], i + 1)
    OBVIOUS
  <2> DEFINE s == f[i]
  <2> DEFINE e == p.evs[i + 1]
  <2>1. Scanned(p, s, i)
    BY <1>0, <1>2
  <2>2. f[i + 1] = ScanStep(p, s, e)
    <3>1. i + 1 \in 0..N /\ i + 1 # 0 /\ (i + 1) - 1 = i
      BY <1>0
    <3>2. \A k \in 0..N : f[k] = IF k = 0 THEN ScanStart ELSE ScanStep(p, f[k - 1], p.evs[k])
      BY DEF IsScan
    <3>3. QED
      BY <3>1, <3>2
  <2>3. Size(e) \in Nat \ {0}
    BY <1>0, SizePositive
  <2> HIDE DEF s
  <2>4. CASE s.err \/ s.pos >= End(p)
    <3>1. f[i + 1] = s
      BY <2>2, <2>4 DEF ScanStep
    <3>2. Scanned(p, s, i + 1)
      BY <1>0, <2>1, <2>4 DEF Scanned
    <3>3. QED
      BY <3>1, <3>2
  <2>5. CASE ~(s.err \/ s.pos >= End(p)) /\ Known(e) /\ Size(e) <= End(p) - s.pos
    <3>1. f[i + 1] = [pos |-> s.pos + Size(e), ok |-> s.ok + 1, err |-> FALSE]
      BY <2>2, <2>5 DEF ScanStep
    <3>2. s.ok = i /\ s.pos \in Nat /\ s.pos = 4 + Bytes(p.evs, i) /\ \A j \in 1..i : Known(p.evs[j])
      BY <1>0, <2>1, <2>5 DEF Scanned
    <3>3. Bytes(p.evs, i + 1) = Bytes(p.evs, i) + Size(e) /\ Bytes(p.evs, i) \in Nat
      <4>1. i \in 0..N
        BY <1>0
      <4>2. Bytes(p.evs, i) \in Nat
        BY <1>0, <4>1, BytesGrow
      <4>3. QED
        BY <4>2, BytesStep
    <3>4. \A j \in 1..(i + 1) : Known(p.evs[j])
      BY <2>5, <3>2
    <3>5. QED
      BY <1>0, <2>3, <2>5, <3>1, <3>2, <3>3, <3>4, SMTT(30) DEF Scanned
  <2>6. CASE ~(s.err \/ s.pos >= End(p)) /\ ~(Known(e) /\ Size(e) <= End(p) - s.pos)
    <3>1. f[i + 1] = [s EXCEPT !.err = TRUE]
      BY <2>2, <2>6 DEF ScanStep
    <3>2. s.ok = i /\ s \in [pos : Nat, ok : 0..i, err : BOOLEAN]
      BY <1>0, <2>1, <2>6 DEF Scanned
    <3>3. f[i + 1].pos = s.pos /\ f[i + 1].ok = i /\ f[i + 1].err = TRUE
      BY <3>1, <3>2
    <3>4. f[i + 1] \in [pos : Nat, ok : 0..(i + 1), err : BOOLEAN]
      <4>1. s \in [pos : Nat, ok : 0..(i + 1), err : BOOLEAN]
        BY <3>2
      <4>2. QED
        BY <3>1, <4>1
    <3>5. QED
      BY <1>0, <2>1, <2>6, <3>2, <3>3, <3>4 DEF Scanned
  <2>7. QED
    BY <2>4, <2>5, <2>6
<1>3. Nat \subseteq S
  <2> HIDE DEF S
  <2>1. QED
    BY <1>1, <1>2, Induction
<1>4. QED
  BY <1>0, <1>3

\* ok and err are the longest run of whole, known events and whether bytes are
\* left behind it.
Fit(p) == {n \in 0..Len(p.evs) : /\ 4 + Bytes(p.evs, n) <= Most(End(p), 4)
                                 /\ \A i \in 1..n : Known(p.evs[i])}
Longest(p) == CHOOSE n \in Fit(p) : \A m \in Fit(p) : m <= n
Exact(p, ok, err) ==
    /\ ok = SubSeq(p.evs, 1, Longest(p))
    /\ err <=> 4 + Bytes(p.evs, Longest(p)) < End(p)

LEMMA LongestIs ==
    ASSUME NEW p, Payload(p), NEW k \in Fit(p), \A m \in Fit(p) : m <= k
    PROVE  Longest(p) = k
<1>0. Len(p.evs) \in Nat
  BY DEF Payload
<1>1. Longest(p) \in Fit(p) /\ \A m \in Fit(p) : m <= Longest(p)
  BY DEF Longest
<1>2. k \in Nat /\ Longest(p) \in Nat
  BY <1>0, <1>1 DEF Fit
<1>3. QED
  BY <1>1, <1>2

\* parse_events gives the longest run of whole, known events, and an Err
\* exactly if bytes remain, for every payload and wherever it was cut.
LEMMA ParsesExactly ==
    ASSUME NEW p, Payload(p)
    PROVE  /\ Exact(p, parse_events(p).ok, parse_events(p).err)
           /\ Longest(p) \in Fit(p) /\ \A m \in Fit(p) : m <= Longest(p)
           /\ parse_events(p).ok \in Seq(Events)
           /\ Len(parse_events(p).ok) <= Len(p.evs)
           /\ \A i \in 1..Len(parse_events(p).ok) : parse_events(p).ok[i] = p.evs[i]
           /\ parse_events(p).err \in BOOLEAN
<1> DEFINE N == Len(p.evs)
<1>0. N \in Nat /\ p.evs \in Seq(Events) /\ p.total = Bytes(p.evs, N) /\ p.len \in Nat
  BY DEF Payload
<1>1. \A m \in 0..N : Bytes(p.evs, m) \in Nat
  BY <1>0, BytesGrow
<1>2. End(p) \in Nat /\ End(p) <= p.len /\ End(p) <= 4 + Bytes(p.evs, N)
  <2>1. Bytes(p.evs, N) \in Nat
    BY <1>0, <1>1
  <2>2. QED
    BY <1>0, <2>1 DEF End, Least
<1>3. ASSUME NEW k \in 0..N
      PROVE  /\ SubSeq(p.evs, 1, k) \in Seq(Events) /\ Len(SubSeq(p.evs, 1, k)) = k
             /\ \A i \in 1..k : SubSeq(p.evs, 1, k)[i] = p.evs[i]
  BY <1>0
<1>4. CASE p.len < 4
  <2>1. parse_events(p) = [ok |-> <<>>, err |-> FALSE]
    BY <1>4 DEF parse_events
  <2>2. 0 \in Fit(p)
    <3>1. Bytes(p.evs, 0) = 0
      BY BytesStep, Zenon
    <3>2. 4 + Bytes(p.evs, 0) <= Most(End(p), 4)
      <4> HIDE DEF End
      <4>1. QED
        BY <1>2, <3>1, SMTT(30) DEF Most
    <3>3. 0 \in 0..N /\ \A i \in 1..0 : Known(p.evs[i])
      BY <1>0
    <3>4. QED
      BY <3>2, <3>3 DEF Fit
  <2>3. ASSUME NEW m \in Fit(p) PROVE m <= 0
    <3>1. m \in 0..N /\ 4 + Bytes(p.evs, m) <= 4
      BY <1>2, <1>4, <1>0, <2>3 DEF Fit, Most
    <3>2. m > 0 => Bytes(p.evs, 0) < Bytes(p.evs, m)
      BY <1>0, <3>1, BytesGrow
    <3>3. QED
      BY <1>1, <3>1, <3>2, BytesStep, SMTT(30)
  <2>4. Longest(p) = 0
    BY <2>2, <2>3, LongestIs
  <2>5. SubSeq(p.evs, 1, 0) = <<>>
    BY <1>0
  <2>6. QED
    <3>1. Exact(p, parse_events(p).ok, parse_events(p).err)
      BY <1>0, <1>2, <1>4, <2>1, <2>4, <2>5, BytesStep, SMTT(30) DEF Exact
    <3>2. Longest(p) \in Fit(p) /\ \A m \in Fit(p) : m <= Longest(p)
      BY <2>2, <2>3, <2>4
    <3>3. parse_events(p).ok = <<>> /\ parse_events(p).err = FALSE
      BY <2>1
    <3>4. <<>> \in Seq(Events) /\ Len(<<>>) = 0
      OBVIOUS
    <3>5. parse_events(p).ok \in Seq(Events) /\ Len(parse_events(p).ok) = 0
      BY <3>3, <3>4
    <3>6. /\ Len(parse_events(p).ok) <= Len(p.evs)
          /\ \A i \in 1..Len(parse_events(p).ok) : parse_events(p).ok[i] = p.evs[i]
      BY <1>0, <3>5
    <3>7. parse_events(p).err \in BOOLEAN
      BY <3>3
    <3>8. QED
      BY <3>1, <3>2, <3>5, <3>6, <3>7, Zenon
<1>5. CASE p.len >= 4
  <2> DEFINE f == CHOOSE g : IsScan(g, p, N)
  <2> DEFINE s == f[N]
  <2>1. IsScan(f, p, N)
    BY <1>0, ScanExists
  <2>2. parse_events(p) = [ok |-> SubSeq(p.evs, 1, s.ok), err |-> s.err]
    <3>1. ~(p.len < 4)
      BY <1>0, <1>5
    <3>2. QED
      BY <3>1 DEF parse_events, IsScan, ScanStart, ScanStep, End
  <2> HIDE DEF f
  <2>3. Scanned(p, s, N)
    BY <1>5, <2>1, ScanInvariant
  <2> HIDE DEF s
  <2>4. s.ok \in 0..N /\ s.err \in BOOLEAN
    BY <2>3 DEF Scanned
  <2>5. s.ok \in Fit(p)
    BY <1>1, <1>2, <2>3, <2>4 DEF Scanned, Fit, Most
  <2>6. ASSUME NEW m \in Fit(p) PROVE m <= s.ok
    <3> SUFFICES ASSUME m > s.ok PROVE FALSE
      BY <1>0, <2>4 DEF Fit
    <3>1. m \in 0..N /\ 4 + Bytes(p.evs, m) <= Most(End(p), 4) /\ \A i \in 1..m : Known(p.evs[i])
      BY DEF Fit
    <3>2. s.ok + 1 \in 1..N /\ s.ok + 1 \in 1..m /\ Known(p.evs[s.ok + 1])
      BY <1>0, <2>4, <3>1
    <3>3. Bytes(p.evs, s.ok + 1) = Bytes(p.evs, s.ok) + Size(p.evs[s.ok + 1])
      <4>1. s.ok \in Nat
        BY <1>0, <2>4
      <4>2. QED
        BY <4>1, BytesStep
    <3>4. Bytes(p.evs, s.ok + 1) <= Bytes(p.evs, m)
      <4>1. CASE s.ok + 1 = m
        BY <1>1, <3>1, <4>1
      <4>2. CASE s.ok + 1 < m
        <5>1. Bytes(p.evs, s.ok + 1) < Bytes(p.evs, m)
          BY <1>0, <3>1, <3>2, <4>2, BytesGrow
        <5>2. QED
          BY <1>1, <3>1, <3>2, <5>1
      <4>3. QED
        BY <2>4, <3>1, <4>1, <4>2
    <3>5. Size(p.evs[s.ok + 1]) \in Nat \ {0}
      BY <1>0, <3>2, SizePositive
    <3>6. /\ Bytes(p.evs, s.ok) \in Nat /\ Bytes(p.evs, s.ok + 1) \in Nat
          /\ Bytes(p.evs, m) \in Nat
      BY <1>1, <2>4, <3>1, <3>2
    <3>7. s.pos = 4 + Bytes(p.evs, s.ok) /\ s.pos <= End(p)
      BY <2>3 DEF Scanned
    <3>8. End(p) >= 4 /\ Most(End(p), 4) = End(p)
      BY <1>2, <3>6, <3>7 DEF Most
    <3>9. s.err => FALSE
      BY <1>2, <2>3, <3>1, <3>2, <3>3, <3>4, <3>5, <3>6, <3>7, <3>8, SMTT(30) DEF Scanned
    <3>10. ~s.err => s.ok = N \/ s.pos >= End(p)
      BY <1>2, <2>3, <3>6, <3>7 DEF Scanned
    <3>11. QED
      BY <1>2, <2>4, <3>1, <3>2, <3>3, <3>4, <3>5, <3>6, <3>7, <3>8, <3>9, <3>10, SMTT(30)
  <2>7. Longest(p) = s.ok
    BY <2>5, <2>6, LongestIs
  <2>8. s.err <=> 4 + Bytes(p.evs, s.ok) < End(p)
    <3>1. Bytes(p.evs, s.ok) \in Nat
      BY <1>1, <2>4
    <3>2. CASE s.err
      BY <2>3, <3>2 DEF Scanned
    <3>3. CASE ~s.err
      <4>1. CASE s.pos < End(p)
        <5>1. s.ok = N /\ s.pos = 4 + Bytes(p.evs, s.ok)
          BY <2>3, <3>3, <4>1 DEF Scanned
        <5>2. QED
          BY <1>2, <3>1, <3>3, <4>1, <5>1
      <4>2. CASE ~(s.pos < End(p))
        BY <2>3, <3>3, <4>2 DEF Scanned
      <4>3. QED
        BY <4>1, <4>2
    <3>4. QED
      BY <2>4, <3>2, <3>3
  <2>9. QED
    <3>1. Exact(p, parse_events(p).ok, parse_events(p).err)
      BY <1>3, <2>2, <2>4, <2>7, <2>8 DEF Exact
    <3>2. Longest(p) \in Fit(p) /\ \A m \in Fit(p) : m <= Longest(p)
      BY <2>5, <2>6, <2>7
    <3>3. QED
      BY <1>3, <2>2, <2>4, <3>1, <3>2
<1>6. QED
  BY <1>0, <1>4, <1>5

-----------------------------------------------------------------------------
(* The inductive invariant. *)

Drawn ==
    /\ canvas \in [Surfaces -> Pictures]
    /\ used \in [draws : 0..MaxDraws, extras : Nat]

Queued == enc \in Seq(Events) /\ (wire = <<>> \/ \E p : Payload(p) /\ wire = <<p>>)

Received ==
    /\ rx \in [p : [evs : Seq(Events), total : Nat, len : Nat], ok : Seq(Events),
               err : BOOLEAN, next : Nat \ {0}]
    /\ Payload(rx.p) /\ Exact(rx.p, rx.ok, rx.err)

\* A pool either holds the whole buffer of a picture or is known not to.
Pooled ==
    \A p \in DOMAIN pools : \/ pools[p].of = NoPicture
                            \/ /\ pools[p].of \in Pictures
                               /\ pools[p].data = Buffer(pools[p].of)

\* Picture cv of surface s as a frame.
Shown(s, cv) ==
    Picture(cv.w, cv.h, [q \in Grid(cv.w, cv.h) |->
                            [c |-> cv.pix[q], a |-> FormatOf[s] = 1]])

Framed ==
    frame.by # {} =>
        /\ \E s \in Surfaces :
              frame.by = {s} /\ (frame.got = frame.want => frame.pic = Shown(s, frame.want))
        /\ frame.want \in Pictures
        /\ frame.pic.w = frame.want.w /\ frame.pic.h = frame.want.h
        /\ Inside(last_damage, frame.pic.w, frame.pic.h)

\* What the properties of single frames rest on.
FrameInv == Drawn /\ Queued /\ Received /\ Pooled /\ Framed

-----------------------------------------------------------------------------
(* The part of it that follows the damage from drawing to display. *)

\* Events are encoded, in transit or being handled: one of the three.
Alternate ==
    /\ wire # <<>> => enc = <<>> /\ ~Busy
    /\ Busy => wire = <<>> /\ enc = <<>>
Stream == IF Busy THEN rx.ok ELSE IF wire # <<>> THEN wire[1].evs ELSE enc
First == IF Busy THEN rx.next ELSE 1
Torn == Busy /\ rx.ok # rx.p.evs

\* cv comes from pic by drawing inside d.
Follows(pic, cv, d) ==
    /\ cv.w = pic.w /\ cv.h = pic.h
    /\ \A q \in Grid(cv.w, cv.h) : ~Covers(d, q) => cv.pix[q] = pic.pix[q]

CommitAt(evs, s, i) ==
    i \in 1..Len(evs) /\ evs[i].type = "commit" /\ evs[i].surface = s

\* The next commit of s at or after n tells what changed since pic; if there is
\* none, pic is what s shows now.
Joined(evs, n, s, pic, cv) ==
    /\ \A j \in Nat :
          /\ j >= n /\ CommitAt(evs, s, j)
          /\ \A k \in Nat : n <= k /\ k < j => ~CommitAt(evs, s, k)
          /\ ~is_zero(evs[j].damage)
          => Follows(pic, evs[j].of, evs[j].damage)
    /\ (\A j \in Nat : j >= n => ~CommitAt(evs, s, j)) => pic = cv

\* Every commit in evs is joined to the next one.
Chained(evs, cvs) ==
    \A s \in Surfaces : \A i \in Nat :
        CommitAt(evs, s, i) => Joined(evs, i + 1, s, evs[i].of, cvs[s])

Linked ==
    /\ Torn => viewer.gap
    /\ ~Torn => Chained(Stream, canvas)
    /\ \A s \in Surfaces : frame.by = {s} /\ ~viewer.gap =>
                              Joined(Stream, First, s, frame.want, canvas[s])

\* What is not shown yet is inside the damage the viewer remembers.
Tracked ==
    /\ viewer \in [pic : {viewer.pic}, pending : Rects, gap : BOOLEAN]
    /\ dirty \in BOOLEAN
    /\ frame.by # {} /\ ~viewer.gap =>
          /\ frame.got = frame.want
          /\ ~dirty => viewer.pic = frame.pic
          /\ <<viewer.pic.w, viewer.pic.h>> = <<frame.pic.w, frame.pic.h>> =>
                \A q \in Grid(frame.pic.w, frame.pic.h) :
                    ~Covers(viewer.pending, q) => viewer.pic.pix[q] = frame.pic.pix[q]

DisplayInv == FrameInv /\ Alternate /\ Linked /\ Tracked

-----------------------------------------------------------------------------
(* From pool data to a frame. *)

LEMMA DivMod ==
    ASSUME NEW n \in Nat \ {0}, NEW r \in 0..(n - 1), NEW k \in Nat
    PROVE  (k * n + r) % n = r /\ (k * n + r) \div n = k
<1>1. (k * n + r) % n = r
  BY SMTT(30)
<1>2. (k * n + r) \div n = k
  BY SMTT(30)
<1>3. QED
  BY <1>1, <1>2

\* The place of pixel q in a buffer of size w x h, and back.
LEMMA RowMajor ==
    ASSUME NEW w \in Nat \ {0}, NEW h \in Nat \ {0}, NEW q \in Grid(w, h)
    PROVE  LET k == q[2] * Stride(w) + q[1]
           IN  /\ k \in Nat /\ 1 + Offset + k \in 1..(Offset + Stride(w) * h)
               /\ k % Stride(w) = q[1] /\ k \div Stride(w) = q[2]
<1>1. q[1] \in 0..(w - 1) /\ q[2] \in 0..(h - 1) /\ q = <<q[1], q[2]>>
  BY DEF Grid
<1> DEFINE n == w + 1
<1>2. n \in Nat \ {0} /\ q[1] \in 0..(n - 1) /\ q[1] < n - 1 /\ q[2] \in Nat /\ q[2] < h
  BY <1>1
<1> HIDE DEF n
<1>3. q[2] * n \in Nat /\ h * n \in Nat /\ q[2] * n + n <= h * n /\ n * h = h * n
  BY <1>2
<1>4. (q[2] * n + q[1]) % n = q[1] /\ (q[2] * n + q[1]) \div n = q[2]
  BY <1>2, DivMod
<1>5. q[2] * n + q[1] \in Nat /\ 1 + 1 + (q[2] * n + q[1]) \in 1..(1 + n * h)
  BY <1>2, <1>3
<1>6. QED
  BY <1>4, <1>5 DEF n, Stride, Offset

\* Composing a commit from the buffer of its own picture shows that picture.
LEMMA CompositeIs ==
    ASSUME NEW e \in Commits
    PROVE  Picture(e.w, e.h, Composite(e, Buffer(e.of))) = Shown(e.surface, e.of)
<1> DEFINE cv == e.of
<1>1. /\ cv \in Pictures /\ e.w = cv.w /\ e.h = cv.h /\ e.stride = Stride(cv.w)
      /\ e.offset = Offset /\ e.format = FormatOf[e.surface]
  BY CommitType
<1>2. cv.w \in Nat \ {0} /\ cv.h \in Nat \ {0} /\ cv.pix \in [Grid(cv.w, cv.h) -> Colours]
  <2>1. U16Max \in Nat
    BY WlStreamAssumption
  <2>2. cv.w \in 1..U16Max /\ cv.h \in 1..U16Max /\ cv.pix \in [Grid(cv.w, cv.h) -> Colours]
    BY <1>1, PictureType
  <2>3. QED
    BY <2>1, <2>2
<1>3. ASSUME NEW q \in Grid(cv.w, cv.h)
      PROVE  Opaque(IF q[1] < e.stride
                    THEN Buffer(cv)[1 + e.offset + q[2] * e.stride + q[1]]
                    ELSE Zero, e.format)
             = [c |-> cv.pix[q], a |-> FormatOf[e.surface] = 1]
  <2> DEFINE k == q[2] * Stride(cv.w) + q[1]
  <2> DEFINE i == 1 + Offset + k
  <2>1. q = <<q[1], q[2]>> /\ q[1] \in 0..(cv.w - 1) /\ q[2] \in Nat
    BY <1>2 DEF Grid
  <2>2. q[1] < e.stride /\ q[1] # cv.w
    BY <1>1, <1>2, <2>1 DEF Stride
  <2>3. k \in Nat /\ i \in 1..(Offset + Stride(cv.w) * cv.h)
        /\ k % Stride(cv.w) = q[1] /\ k \div Stride(cv.w) = q[2]
    BY <1>2, RowMajor
  <2>4. 1 + e.offset + q[2] * e.stride + q[1] = i
    <3>1. q[2] * Stride(cv.w) \in Int
      BY <1>2, <2>1 DEF Stride
    <3>2. QED
      BY <1>1, <2>1, <3>1 DEF Offset
  <2> HIDE DEF k
  <2>5. i - 1 - Offset = k
    BY <2>3 DEF Offset
  <2>6. Buffer(cv)[i] = IF i - 1 - Offset < 0 \/ (i - 1 - Offset) % Stride(cv.w) = cv.w THEN Zero
            ELSE [c |-> cv.pix[<<(i - 1 - Offset) % Stride(cv.w), (i - 1 - Offset) \div Stride(cv.w)>>], a |-> FALSE]
    <3> HIDE DEF i
    <3>1. QED
      BY <2>3 DEF Buffer
  <2> HIDE DEF i
  <2>7. Buffer(cv)[i] = [c |-> cv.pix[q], a |-> FALSE]
    <3>1. ~(k < 0) /\ k % Stride(cv.w) # cv.w
      BY <2>2, <2>3
    <3>2. Buffer(cv)[i] = [c |-> cv.pix[<<k % Stride(cv.w), k \div Stride(cv.w)>>], a |-> FALSE]
      BY <2>5, <2>6, <3>1
    <3>3. QED
      BY <2>1, <2>3, <3>2
  <2>8. e.format \in {0, 1}
    BY <1>1, CommitType, WlStreamAssumption
  <2> DEFINE px == [c |-> cv.pix[q], a |-> FALSE]
  <2>9. Opaque(px, e.format) = [c |-> cv.pix[q], a |-> e.format = 1]
    <3>1. CASE e.format = 1
      BY <3>1 DEF Opaque
    <3>2. CASE e.format = 0
      BY <3>2 DEF Opaque
    <3>3. QED
      BY <2>8, <3>1, <3>2
  <2> HIDE DEF px
  <2>10. Buffer(cv)[1 + e.offset + q[2] * e.stride + q[1]] = px
    BY <2>4, <2>7 DEF px
  <2>11. QED
    BY <1>1, <2>2, <2>9, <2>10
<1>4. Composite(e, Buffer(cv)) = [q \in Grid(cv.w, cv.h) |-> [c |-> cv.pix[q], a |-> FormatOf[e.surface] = 1]]
  BY <1>1, <1>3 DEF Composite
<1>5. QED
  BY <1>1, <1>4 DEF Shown

\* Pool data that is packed soundly is decoded to the buffer it was made from.
LEMMA DecodedIs ==
    ASSUME NEW e \in PoolEvents, e.coding \in Sound
    PROVE  Decoded(e) = {Buffer(e.of)}
<1>1. e.of \in Pictures /\ e.data = Buffer(e.of) /\ e.raw_len = Len(e.data) /\ e.raw_len \in Nat \ {0}
  BY PoolType
<1> DEFINE N == e.raw_len
<1>2. N \in Nat /\ Len(e.data) = N /\ e.data = [i \in 1..N |-> e.data[i]]
  <2>1. DOMAIN e.data = 1..N
    BY <1>1, BufferType
  <2>2. e.data = [i \in DOMAIN e.data |-> e.data[i]]
    BY <1>1 DEF Buffer
  <2>3. QED
    BY <1>1, <2>1, <2>2
<1>3. CASE e.coding = "raw"
  BY <1>1, <1>2, <1>3 DEF Decoded, lz4_len
<1>4. CASE e.coding = "lz4"
  <2>1. lz4_len(e.coding, Len(e.data)) # 4 * e.raw_len
    BY <1>2, <1>4 DEF lz4_len
  <2>2. decompress(e) = {e.data}
    BY <1>4 DEF decompress
  <2>3. Padded(e.data, N) = e.data
    <3>1. Most(N, Len(e.data)) = N
      BY <1>2 DEF Most
    <3>2. Padded(e.data, N) = [i \in 1..N |-> IF i <= Len(e.data) THEN e.data[i] ELSE Zero]
      BY <3>1 DEF Padded
    <3>3. \A i \in 1..N : i <= Len(e.data)
      BY <1>2
    <3>4. QED
      BY <1>2, <3>2, <3>3
  <2>4. QED
    BY <1>1, <2>1, <2>2, <2>3 DEF Decoded
<1>5. QED
  BY <1>3, <1>4 DEF Sound

\* The damage of a commit lies inside its frame and covers what the commit
\* names; all of it, if that is nothing.
LEMMA CommitDamageIs ==
    ASSUME NEW e \in Commits
    PROVE  /\ CommitDamage(e) \in Rects /\ Inside(CommitDamage(e), e.w, e.h)
           /\ \A q \in Grid(e.w, e.h) :
                 is_zero(e.damage) \/ Covers(e.damage, q) => Covers(CommitDamage(e), q)
<1>1. e.damage \in Rects /\ e.w \in 1..U16Max /\ e.h \in 1..U16Max
  BY CommitType, PictureType
<1> DEFINE c == clamp_damage(e.damage, e.w, e.h)
<1>2. CASE c = {}
  <2> DEFINE r == Rect(0, 0, e.w, e.h)
  <2>1. CommitDamage(e) = r
    BY <1>2 DEF CommitDamage
  <2>2. U16Max \in Nat
    BY WlStreamAssumption
  <2>3. r \in Rects /\ Inside(r, e.w, e.h)
    BY <1>1, <2>2 DEF Rect, Rects, U16, Inside, is_zero
  <2>4. \A q \in Grid(e.w, e.h) : Covers(r, q)
    BY <1>1, <2>2 DEF Rect, Covers, Grid
  <2>5. QED
    BY <2>1, <2>3, <2>4
<1>3. CASE c # {}
  <2> DEFINE r == CHOOSE t \in c : TRUE
  <2>1. CommitDamage(e) = r /\ r \in c
    BY <1>3 DEF CommitDamage
  <2> HIDE DEF r
  <2>2. QED
    BY <1>1, <2>1, ClampDamage
<1>4. QED
  BY <1>2, <1>3

-----------------------------------------------------------------------------
(* Payloads. *)

LEMMA FinishIs ==
    ASSUME NEW evs \in Seq(Events) PROVE Payload(finish(evs)) /\ finish(evs).evs = evs
<1>1. Len(evs) \in Nat /\ Bytes(evs, Len(evs)) \in Nat
  BY BytesGrow
<1>2. QED
  BY <1>1 DEF finish, Payload

\* What was received is a beginning of what was sent, all of it or less.
LEMMA ReceivedIs ==
    ASSUME NEW p, Payload(p), NEW ok, NEW err, Exact(p, ok, err)
    PROVE  /\ ok \in Seq(Events) /\ Len(ok) <= Len(p.evs)
           /\ Len(ok) < Len(p.evs) <=> ok # p.evs
<1> DEFINE r == parse_events(p)
<1>1. /\ ok = r.ok /\ r.ok \in Seq(Events) /\ Len(r.ok) <= Len(p.evs)
      /\ \A i \in 1..Len(r.ok) : r.ok[i] = p.evs[i]
  BY ParsesExactly DEF Exact
<1> HIDE DEF r
<1>2. p.evs \in Seq(Events)
  BY DEF Payload
<1>3. ASSUME Len(ok) = Len(p.evs) PROVE ok = p.evs
  BY <1>1, <1>2, <1>3
<1>4. Len(ok) \in Nat /\ Len(p.evs) \in Nat
  BY <1>1, <1>2
<1>5. QED
  BY <1>1, <1>3, <1>4

LEMMA IdleIs ==
    /\ Idle \in [p : [evs : Seq(Events), total : Nat, len : Nat], ok : Seq(Events),
                 err : BOOLEAN, next : Nat \ {0}]
    /\ Payload(Idle.p) /\ Exact(Idle.p, Idle.ok, Idle.err)
<1> DEFINE p == finish(<<>>)
<1>1. <<>> \in Seq(Events) /\ Len(<<>>) = 0
  OBVIOUS
<1>2. Payload(p) /\ p = [evs |-> <<>>, total |-> 0, len |-> 4]
  <2>1. Bytes(<<>>, 0) = 0
    BY BytesStep
  <2>2. Bytes(<<>>, Len(<<>>)) = 0
    BY <1>1, <2>1
  <2>3. p = [evs |-> <<>>, total |-> 0, len |-> 4]
    BY <2>2 DEF finish
  <2>4. Payload(p)
    BY <1>1, FinishIs
  <2>5. QED
    BY <2>3, <2>4
<1> HIDE DEF p
<1>3. p.evs = <<>> /\ End(p) = 4 /\ Len(p.evs) = 0
  BY <1>2 DEF End, Least
<1>4. 0 \in Fit(p) /\ \A m \in Fit(p) : m <= 0
  BY <1>3, BytesStep DEF Fit, Most
<1>5. Longest(p) = 0
  BY <1>2, <1>4, LongestIs
<1>6. SubSeq(p.evs, 1, Longest(p)) = <<>>
  BY <1>3, <1>5
<1>7. Exact(p, <<>>, FALSE)
  BY <1>3, <1>5, <1>6, BytesStep DEF Exact
<1>8. Idle = [p |-> p, ok |-> <<>>, err |-> FALSE, next |-> 1]
  BY DEF Idle, p
<1>9. p \in [evs : Seq(Events), total : Nat, len : Nat]
  BY <1>2 DEF Payload
<1>10. Idle.p = p /\ Idle.ok = <<>> /\ Idle.err = FALSE
  BY <1>8
<1>11. Idle \in [p : [evs : Seq(Events), total : Nat, len : Nat], ok : Seq(Events),
                 err : BOOLEAN, next : Nat \ {0}]
  BY <1>1, <1>8, <1>9
<1>12. QED
  BY <1>2, <1>7, <1>10, <1>11

\* A handler takes the next event, and what is left is as it was received.
LEMMA HandlingStep ==
    ASSUME FrameInv, NEW type, Handling(type)
    PROVE  /\ rx.next \in 1..Len(rx.ok) /\ rx.ok[rx.next] \in Events
           /\ rx.ok[rx.next].type = type
           /\ Drawn' /\ Queued' /\ Received'
<1>1. /\ rx.ok \in Seq(Events) /\ rx.next \in Nat \ {0}
      /\ rx.ok[rx.next].type = type /\ rx.next <= Len(rx.ok)
  BY DEF FrameInv, Received, Handling, Busy
<1>2. Drawn' /\ Queued'
  BY DEF FrameInv, Drawn, Queued, Handling
<1>3. Received'
  <2>1. CASE rx' = Idle
    BY <2>1, IdleIs DEF Received
  <2>2. CASE rx' = [rx EXCEPT !.next = @ + 1]
    <3>1. /\ rx' \in [p : [evs : Seq(Events), total : Nat, len : Nat], ok : Seq(Events),
                 err : BOOLEAN, next : Nat \ {0}]
          /\ rx'.p = rx.p /\ rx'.ok = rx.ok /\ rx'.err = rx.err
      BY <2>2 DEF FrameInv, Received
    <3>2. QED
      BY <3>1 DEF FrameInv, Received
  <2>3. QED
    BY <2>1, <2>2 DEF Handling
<1>4. QED
  BY <1>1, <1>2, <1>3

-----------------------------------------------------------------------------
(* Drawing. *)

\* Paint changes the picture inside the damage only.
LEMMA PaintIs ==
    ASSUME Drawn, used.draws < MaxDraws, NEW s \in Surfaces, NEW d \in Rects
    PROVE  /\ Paint(s, d) \in Pictures
           /\ ~is_zero(d) => Follows(canvas[s], Paint(s, d), d)
<1> DEFINE n == used.draws + 1
<1> DEFINE cv == canvas[s]
<1> DEFINE pix == [q \in Grid(cv.w, cv.h) |-> IF is_zero(d) \/ Covers(d, q) THEN n ELSE cv.pix[q]]
<1>1. cv \in Pictures /\ n \in Colours
  BY WlStreamAssumption DEF Drawn, Colours
<1>2. <<cv.w, cv.h>> \in Dims /\ cv.pix \in [Grid(cv.w, cv.h) -> Colours]
  BY <1>1, PictureType
<1>3. Paint(s, d) = Picture(cv.w, cv.h, pix)
  BY DEF Paint
<1> HIDE DEF n, cv
<1>4. pix \in [Grid(cv.w, cv.h) -> Colours]
  BY <1>1, <1>2
<1>5. \A q \in Grid(cv.w, cv.h) : ~is_zero(d) /\ ~Covers(d, q) => pix[q] = cv.pix[q]
  OBVIOUS
<1> HIDE DEF pix
<1>6. Picture(cv.w, cv.h, pix) \in Pictures
  <2> DEFINE dim == <<cv.w, cv.h>>
  <2>1. Picture(dim[1], dim[2], pix) \in {Picture(dim[1], dim[2], x) : x \in [Grid(dim[1], dim[2]) -> Colours]}
    BY <1>4
  <2> HIDE DEF dim
  <2>2. dim \in Dims
    BY <1>2 DEF dim
  <2>3. Picture(dim[1], dim[2], pix) \in Pictures
    BY <2>1, <2>2 DEF Pictures
  <2>4. QED
    BY <2>3 DEF dim
<1>7. ~is_zero(d) => Follows(cv, Picture(cv.w, cv.h, pix), d)
  BY <1>5 DEF Follows, Picture
<1>8. QED
  BY <1>3, <1>6, <1>7 DEF cv

LEMMA PlainIs ==
    ASSUME NEW dim \in Dims, NEW n \in Colours
    PROVE  Picture(dim[1], dim[2], [q \in Grid(dim[1], dim[2]) |-> n]) \in Pictures
<1> DEFINE pix == [q \in Grid(dim[1], dim[2]) |-> n]
<1>1. pix \in [Grid(dim[1], dim[2]) -> Colours]
  OBVIOUS
<1> HIDE DEF pix
<1>2. Picture(dim[1], dim[2], pix) \in {Picture(dim[1], dim[2], x) : x \in [Grid(dim[1], dim[2]) -> Colours]}
  BY <1>1
<1>3. Picture(dim[1], dim[2], pix) \in Pictures
  BY <1>2 DEF Pictures
<1>4. QED
  BY <1>3 DEF pix

\* What a drawing step does: Draw and Resize commit a picture.
Drawing(s, cv, d, coding) ==
    /\ Commit(s, cv, d, coding)
    /\ cv \in Pictures /\ d \in Damages \cup {ZeroRect} /\ coding \in Codings
    /\ ~is_zero(d) => Follows(canvas[s], cv, d)

LEMMA DrawIs ==
    ASSUME FrameInv, NEW s \in Surfaces, NEW coding \in {CodingOf[s]} \cup Faulty
    PROVE  /\ \A d \in Damages : Draw(s, d, coding) => Drawing(s, Paint(s, d), d, coding)
           /\ \A dim \in Dims : Resize(s, dim, coding) =>
                 \E cv : Drawing(s, cv, ZeroRect, coding)
<1>1. coding \in Codings
  BY WlStreamAssumption DEF Codings, Sound
<1>2. ASSUME NEW d \in Damages, Draw(s, d, coding) PROVE Drawing(s, Paint(s, d), d, coding)
  <2>1. used.draws < MaxDraws /\ Commit(s, Paint(s, d), d, coding)
    BY <1>2 DEF Draw, Commit, Spend
  <2>2. d \in Rects
    BY WlStreamAssumption DEF Rects, U16
  <2>3. QED
    BY <1>1, <2>1, <2>2, PaintIs DEF Drawing, FrameInv
<1>3. ASSUME NEW dim \in Dims, Resize(s, dim, coding)
      PROVE  \E cv : Drawing(s, cv, ZeroRect, coding)
  <2> DEFINE cv == Picture(dim[1], dim[2], [q \in Grid(dim[1], dim[2]) |-> used.draws + 1])
  <2>1. Commit(s, cv, ZeroRect, coding)
    BY <1>3 DEF Resize
  <2>2. used.draws < MaxDraws
    BY <2>1 DEF Commit, Spend
  <2>3. used.draws + 1 \in Colours
    BY <2>2, WlStreamAssumption DEF FrameInv, Drawn, Colours
  <2>4. cv \in Pictures
    BY <2>3, PlainIs
  <2> HIDE DEF cv
  <2>5. is_zero(ZeroRect)
    BY DEF is_zero, ZeroRect, Rect
  <2>6. QED
    BY <1>1, <2>1, <2>4, <2>5 DEF Drawing
<1>4. QED
  BY <1>2, <1>3

\* The two events a drawing encodes.
LEMMA DrawnEvents ==
    ASSUME NEW s \in Surfaces, NEW cv \in Pictures, NEW d \in Damages \cup {ZeroRect},
           NEW coding \in Codings
    PROVE  /\ pool_data(PoolOf[s], cv, coding) \in PoolEvents
           /\ surface_commit(s, cv, d) \in Commits
           /\ <<pool_data(PoolOf[s], cv, coding), surface_commit(s, cv, d)>> \in Seq(Events)
<1>1. pool_data(PoolOf[s], cv, coding) \in PoolEvents
  BY DEF PoolEvents
<1>2. surface_commit(s, cv, d) \in Commits
  BY DEF Commits
<1> DEFINE a == pool_data(PoolOf[s], cv, coding)
<1> DEFINE b == surface_commit(s, cv, d)
<1> HIDE DEF a, b
<1>3. a \in Events /\ b \in Events
  BY <1>1, <1>2 DEF Events, a, b
<1>4. <<a, b>> \in Seq(Events)
  BY <1>3
<1>5. QED
  BY <1>1, <1>2, <1>4 DEF a, b

LEMMA EncodeStep ==
    ASSUME FrameInv, NEW evs \in Seq(Events), Encode(evs)
    PROVE  /\ Queued' /\ Received' /\ Pooled' /\ Framed'
<1>1. enc' = enc \o evs /\ wire' = wire /\ rx' = rx /\ pools' = pools /\ frame' = frame
      /\ last_damage' = last_damage
  BY DEF Encode, comp
<1>2. enc' \in Seq(Events)
  BY <1>1 DEF FrameInv, Queued
<1>3. QED
  BY <1>1, <1>2 DEF FrameInv, Queued, Received, Pooled, Framed

-----------------------------------------------------------------------------
(* Single frames: FrameInv is inductive. *)

LEMMA FrameInit == Init => FrameInv
<1> SUFFICES ASSUME Init PROVE FrameInv
  OBVIOUS
<1>1. PICK dim \in Dims : canvas = [s \in Surfaces |-> Blank(dim)]
  BY DEF Init
<1>2. 0 \in Colours
  BY WlStreamAssumption DEF Colours
<1>3. Blank(dim) \in Pictures
  BY <1>2, PlainIs DEF Blank
<1>4. Drawn
  BY <1>1, <1>3, WlStreamAssumption DEF Init, Drawn
<1>5. Queued
  BY DEF Init, Queued
<1>6. Received
  BY IdleIs DEF Init, Received
<1>7. Pooled /\ Framed
  BY DEF Init, Pooled, Framed
<1>8. QED
  BY <1>4, <1>5, <1>6, <1>7 DEF FrameInv

LEMMA OtherStep ==
    ASSUME FrameInv, NEW e \in Others, EncodeOther(e) PROVE FrameInv'
<1>1. <<e>> \in Seq(Events)
  BY DEF Events
<1>2. Drawn'
  BY DEF EncodeOther, Extra, FrameInv, Drawn
<1>3. QED
  BY <1>1, <1>2, EncodeStep DEF EncodeOther, FrameInv

LEMMA DrawingStep ==
    ASSUME FrameInv, NEW s \in Surfaces, NEW cv, NEW d, NEW coding, Drawing(s, cv, d, coding)
    PROVE  FrameInv'
<1>1. cv \in Pictures /\ d \in Damages \cup {ZeroRect} /\ coding \in Codings
  BY DEF Drawing
<1>2. /\ Spend(coding) /\ canvas' = [canvas EXCEPT ![s] = cv]
      /\ Encode(<<pool_data(PoolOf[s], cv, coding), surface_commit(s, cv, d)>>)
  BY DEF Drawing, Commit
<1>3. canvas' \in [Surfaces -> Pictures]
  BY <1>1, <1>2 DEF FrameInv, Drawn
<1>4. used' \in [draws : 0..MaxDraws, extras : Nat]
  <2> DEFINE n == IF coding \in Faulty THEN 1 ELSE 0
  <2>1. /\ used \in [draws : 0..MaxDraws, extras : Nat] /\ used.draws < MaxDraws
        /\ used' = [used EXCEPT !.draws = @ + 1, !.extras = @ + n]
    BY <1>2 DEF FrameInv, Drawn, Spend
  <2>2. n \in Nat /\ MaxDraws \in Nat
    BY WlStreamAssumption
  <2> HIDE DEF n
  <2>3. used' = [draws |-> used.draws + 1, extras |-> used.extras + n]
    BY <2>1
  <2>4. used.draws + 1 \in 0..MaxDraws /\ used.extras + n \in Nat
    BY <2>1, <2>2
  <2>5. QED
    BY <2>3, <2>4
<1>5. QED
  BY <1>1, <1>2, <1>3, <1>4, DrawnEvents, EncodeStep DEF FrameInv, Drawn

LEMMA SendStep == ASSUME FrameInv, Send PROVE FrameInv'
<1>1. Payload(finish(enc)) /\ wire' = <<finish(enc)>> /\ enc' = <<>>
  BY FinishIs DEF FrameInv, Queued, Send
<1>2. Queued'
  BY <1>1 DEF Queued
<1>3. QED
  BY <1>2 DEF FrameInv, Send, Drawn, Received, Pooled, Framed, comp

LEMMA LoseStep == ASSUME FrameInv, Lose PROVE FrameInv'
<1>1. Drawn'
  BY DEF FrameInv, Drawn, Lose, Extra
<1>2. PICK p : Payload(p) /\ wire = <<p>>
  BY DEF FrameInv, Queued, Lose
<1>3. wire' = <<>> /\ enc' = enc
  BY <1>2 DEF Lose
<1>4. Queued'
  BY <1>3 DEF FrameInv, Queued
<1>5. QED
  BY <1>1, <1>4 DEF FrameInv, Lose, Received, Pooled, Framed, comp

LEMMA CutStep ==
    ASSUME FrameInv, NEW n \in 0..MaxEvents, NEW d \in {0, 1}, Cut(n, d)
    PROVE  FrameInv' /\ \E p, q : wire = <<p>> /\ wire' = <<q>> /\ q.evs = p.evs
<1>1. Drawn'
  BY DEF FrameInv, Drawn, Cut, Extra
<1>2. PICK p : Payload(p) /\ wire = <<p>>
  BY DEF FrameInv, Queued, Cut
<1> DEFINE len == 3 + Bytes(p.evs, n) + d
<1>3. wire' = <<[p EXCEPT !.len = len]>> /\ n <= Len(p.evs) /\ enc' = enc
  BY <1>2 DEF Cut
<1>4. Bytes(p.evs, n) \in Nat
  BY <1>2, <1>3, BytesGrow, WlStreamAssumption DEF Payload
<1>5. len \in Nat
  BY <1>4
<1> HIDE DEF len
<1>6. Payload([p EXCEPT !.len = len]) /\ [p EXCEPT !.len = len].evs = p.evs
  BY <1>2, <1>5 DEF Payload
<1>7. Queued'
  BY <1>3, <1>6 DEF FrameInv, Queued
<1>8. QED
  BY <1>1, <1>2, <1>3, <1>6, <1>7 DEF FrameInv, Cut, Received, Pooled, Framed, comp

LEMMA ReceiveStep == ASSUME FrameInv, Receive PROVE FrameInv'
<1>1. PICK p : Payload(p) /\ wire = <<p>>
  BY DEF FrameInv, Queued, Receive
<1> DEFINE r == parse_events(p)
<1>2. /\ wire' = <<>> /\ enc' = enc
      /\ rx' = [p |-> p, ok |-> r.ok, err |-> r.err, next |-> 1]
  BY <1>1 DEF Receive
<1>3. Exact(p, r.ok, r.err) /\ r.ok \in Seq(Events) /\ r.err \in BOOLEAN
  BY <1>1, ParsesExactly
<1> HIDE DEF r
<1>4. p \in [evs : Seq(Events), total : Nat, len : Nat]
  BY <1>1 DEF Payload
<1>5. Received'
  <2>1. rx'.p = p /\ rx'.ok = r.ok /\ rx'.err = r.err
    BY <1>2
  <2>2. rx' \in [p : [evs : Seq(Events), total : Nat, len : Nat], ok : Seq(Events),
                err : BOOLEAN, next : Nat \ {0}]
    BY <1>2, <1>3, <1>4
  <2>3. QED
    BY <1>1, <1>3, <2>1, <2>2 DEF Received
<1>6. Queued'
  BY <1>2 DEF FrameInv, Queued
<1>7. QED
  BY <1>5, <1>6 DEF FrameInv, Receive, Drawn, Pooled, Framed, comp

LEMMA PoolStep == ASSUME FrameInv, handle_pool_data PROVE FrameInv'
<1> DEFINE e == rx.ok[rx.next]
<1>1. Handling("pool")
  BY DEF handle_pool_data
<1>2. e \in PoolEvents
  BY <1>1, HandlingStep, KindOf
<1>3. e.of \in Pictures /\ e.coding \in Codings
  BY <1>2, PoolType
<1>4. Pooled'
  <2>1. CASE pools' = pools
    BY <2>1 DEF FrameInv, Pooled
  <2>2. CASE pools' # pools
    <3> DEFINE data == CHOOSE d \in Decoded(e) : TRUE
    <3> DEFINE of == IF e.coding \in Sound THEN e.of ELSE NoPicture
    <3>1. pools' = [p \in DOMAIN pools \cup {e.pool} |->
                       IF p # e.pool THEN pools[p] ELSE [data |-> data, of |-> of]]
      BY <2>2 DEF handle_pool_data
    <3>2. of # NoPicture => of \in Pictures /\ data = Buffer(of)
      BY <1>2, <1>3, DecodedIs
    <3> HIDE DEF data, of, e
    <3>3. ASSUME NEW p \in DOMAIN pools'
          PROVE  \/ pools'[p].of = NoPicture
                 \/ pools'[p].of \in Pictures /\ pools'[p].data = Buffer(pools'[p].of)
      <4>1. CASE p = e.pool
        <5>1. pools'[p].data = data /\ pools'[p].of = of
          BY <3>1, <4>1
        <5>2. QED
          BY <3>2, <5>1
      <4>2. CASE p # e.pool
        <5>1. p \in DOMAIN pools /\ pools'[p] = pools[p]
          BY <3>1, <4>2
        <5>2. QED
          BY <5>1 DEF FrameInv, Pooled
      <4>3. QED
        BY <4>1, <4>2
    <3>4. QED
      BY <3>3 DEF Pooled
  <2>3. QED
    BY <2>1, <2>2
<1>5. Framed'
  BY DEF handle_pool_data, FrameInv, Framed
<1>6. QED
  BY <1>1, <1>4, <1>5, HandlingStep DEF FrameInv

\* The frame of a commit, and what FrameInv says of it.
LEMMA CommitStep ==
    ASSUME FrameInv, handle_surface_commit
    PROVE  LET e == rx.ok[rx.next]
           IN  /\ FrameInv' /\ e \in Commits
               /\ frame'.by = {e.surface} /\ frame'.want = e.of
               /\ frame'.got = pools[e.pool].of
               /\ frame'.pic.w = e.w /\ frame'.pic.h = e.h
               /\ frame'.got = frame'.want => frame'.pic = Shown(e.surface, e.of)
<1> DEFINE e == rx.ok[rx.next]
<1>1. Handling("commit")
  BY DEF handle_surface_commit
<1>2. e \in Commits
  BY <1>1, HandlingStep, KindOf
<1>3. /\ e.surface \in Surfaces /\ e.of \in Pictures /\ e.w = e.of.w /\ e.h = e.of.h
  BY <1>2, CommitType
<1>4. /\ Composable(e) /\ last_damage' = CommitDamage(e) /\ pools' = pools
      /\ frame' = [pic |-> Picture(e.w, e.h, Composite(e, pools[e.pool].data)),
                   want |-> e.of, got |-> pools[e.pool].of, by |-> {e.surface}]
  BY DEF handle_surface_commit
<1>5. Inside(last_damage', e.w, e.h)
  BY <1>2, <1>4, CommitDamageIs
<1> HIDE DEF e
<1>6. /\ frame'.by = {e.surface} /\ frame'.want = e.of /\ frame'.got = pools[e.pool].of
      /\ frame'.pic = Picture(e.w, e.h, Composite(e, pools[e.pool].data))
  BY <1>4
<1>7. frame'.pic.w = e.w /\ frame'.pic.h = e.h
  BY <1>6 DEF Picture
<1>8. ASSUME frame'.got = frame'.want PROVE frame'.pic = Shown(e.surface, e.of)
  <2>1. pools[e.pool].of = e.of /\ e.of # NoPicture /\ e.pool \in DOMAIN pools
    BY <1>3, <1>4, <1>6, <1>8, PictureType DEF Composable
  <2>2. pools[e.pool].data = Buffer(e.of)
    BY <2>1 DEF FrameInv, Pooled
  <2>3. QED
    BY <1>2, <1>6, <2>2, CompositeIs
<1>9. Framed'
  <2>1. \E s \in Surfaces :
            frame'.by = {s} /\ (frame'.got = frame'.want => frame'.pic = Shown(s, frame'.want))
    BY <1>3, <1>6, <1>8
  <2>2. QED
    BY <1>3, <1>5, <1>6, <1>7, <2>1 DEF Framed
<1>10. Pooled'
  BY <1>4 DEF FrameInv, Pooled
<1>11. FrameInv'
  BY <1>1, <1>9, <1>10, HandlingStep DEF FrameInv
<1>12. QED
  BY <1>2, <1>6, <1>7, <1>8, <1>11 DEF e

LEMMA FrameStep == FrameInv /\ [Next]_vars => FrameInv'
<1> SUFFICES ASSUME FrameInv, [Next]_vars PROVE FrameInv'
  OBVIOUS
<1>1. ASSUME NEW s \in Surfaces, CreateSurface(s) \/ DestroySurface(s) PROVE FrameInv'
  BY <1>1, OtherStep DEF CreateSurface, DestroySurface, Others
<1>2. ASSUME MoveCursor \/ ResetSession PROVE FrameInv'
  BY <1>2, OtherStep DEF MoveCursor, ResetSession, Others
<1>3. ASSUME NEW s \in Surfaces, NEW coding \in {CodingOf[s]} \cup Faulty,
             \/ \E d \in Damages : Draw(s, d, coding)
             \/ \E dim \in Dims : Resize(s, dim, coding)
      PROVE  FrameInv'
  BY <1>3, DrawIs, DrawingStep
<1>4. CASE Send
  BY <1>4, SendStep
<1>5. CASE Lose
  BY <1>5, LoseStep
<1>6. ASSUME NEW n \in 0..MaxEvents, NEW d \in {0, 1}, Cut(n, d) PROVE FrameInv'
  BY <1>6, CutStep
<1>7. CASE Receive
  BY <1>7, ReceiveStep
<1>8. ASSUME NEW type, Handling(type), UNCHANGED <<pools, frame, last_damage>> PROVE FrameInv'
  BY <1>8, HandlingStep DEF FrameInv, Pooled, Framed
<1>9. CASE handle_surface_create \/ handle_surface_destroy \/ DropCommit \/ handle_cursor_move
  BY <1>8, <1>9 DEF handle_surface_create, handle_surface_destroy, DropCommit,
                    handle_cursor_move, comp
<1>10. CASE handle_pool_data
  BY <1>10, PoolStep
<1>11. CASE handle_surface_commit
  BY <1>11, CommitStep
<1>12. CASE Redraw
  BY <1>12 DEF Redraw, FrameInv, Drawn, Queued, Received, Pooled, Framed
<1>13. CASE UNCHANGED vars
  BY <1>13 DEF vars, FrameInv, Drawn, Queued, Received, Pooled, Framed
<1>14. QED
  BY <1>1, <1>2, <1>3, <1>4, <1>5, <1>6, <1>7, <1>9, <1>10, <1>11, <1>12, <1>13
     DEF Next, Sender, Transport, Viewer

LEMMA FrameInvariant == Spec => []FrameInv
  BY FrameInit, FrameStep, PTL DEF Spec

Whole(p) == {i \in DOMAIN p.evs : 4 + Bytes(p.evs, i) <= End(p)}
Begun(p) == {i \in DOMAIN p.evs : 4 + Bytes(p.evs, i - 1) < End(p)}
Readable(p) == {i \in Whole(p) : \A j \in 1..i : Known(p.evs[j])}
Sent(p, ok, err) ==
    \E at \in [DOMAIN ok -> Whole(p)] :
       /\ \A i, j \in DOMAIN ok : i < j => at[i] < at[j]
       /\ \A i \in DOMAIN ok : ok[i] = p.evs[at[i]]
       /\ Readable(p) \subseteq {at[i] : i \in DOMAIN ok}
       /\ err <=> \E i \in Begun(p) : \A j \in DOMAIN ok : at[j] # i

\* The longest run is such a choice of events: the first ones.
LEMMA ExactIsSent ==
    ASSUME NEW p, Payload(p), NEW ok, NEW err, Exact(p, ok, err)
    PROVE  Sent(p, ok, err)
<1> DEFINE N == Len(p.evs)
<1> DEFINE k == Longest(p)
<1> DEFINE at == [i \in 1..k |-> i]
<1>0. N \in Nat /\ p.evs \in Seq(Events) /\ p.total = Bytes(p.evs, N) /\ p.len \in Nat
      /\ DOMAIN p.evs = 1..N
  BY DEF Payload
<1>1. \A m \in 0..N : /\ Bytes(p.evs, m) \in Nat
                      /\ \A n \in 0..N : n < m => Bytes(p.evs, n) < Bytes(p.evs, m)
  BY <1>0, BytesGrow
<1>2. End(p) \in Nat /\ End(p) <= 4 + Bytes(p.evs, N)
  <2>1. Bytes(p.evs, N) \in Nat
    BY <1>0, <1>1
  <2>2. QED
    BY <1>0, <2>1 DEF End, Least
<1>3. k \in Fit(p) /\ \A m \in Fit(p) : m <= k
  BY ParsesExactly
<1>4. /\ k \in 0..N /\ 4 + Bytes(p.evs, k) <= Most(End(p), 4)
      /\ \A i \in 1..k : Known(p.evs[i])
  BY <1>3 DEF Fit
<1>5. ok = SubSeq(p.evs, 1, k) /\ (err <=> 4 + Bytes(p.evs, k) < End(p))
  BY DEF Exact
<1> HIDE DEF k
<1>6. DOMAIN ok = 1..k /\ \A i \in 1..k : ok[i] = p.evs[i]
  BY <1>0, <1>4, <1>5
<1>7. ASSUME NEW i \in 1..k PROVE i \in Whole(p)
  <2>1. i \in 1..N /\ i \in 0..N /\ 0 \in 0..N /\ k \in 0..N /\ (i = k \/ i < k)
    BY <1>4, <1>7
  <2>2. Bytes(p.evs, i) <= Bytes(p.evs, k) /\ Bytes(p.evs, 0) < Bytes(p.evs, i)
    BY <1>1, <2>1
  <2>3. 4 + Bytes(p.evs, i) <= End(p)
    <3>1. Bytes(p.evs, i) \in Nat /\ Bytes(p.evs, k) \in Nat /\ Bytes(p.evs, 0) \in Nat
      BY <1>1, <2>1
    <3>2. 4 + Bytes(p.evs, k) > 4
      BY <2>2, <3>1
    <3>3. QED
      BY <1>2, <1>4, <2>2, <3>1, <3>2 DEF Most
  <2>4. QED
    BY <1>0, <2>1, <2>3 DEF Whole
<1>8. ASSUME NEW i \in Readable(p) PROVE i \in 1..k
  <2>1. i \in 1..N /\ 4 + Bytes(p.evs, i) <= End(p) /\ \A j \in 1..i : Known(p.evs[j])
    BY <1>0 DEF Readable, Whole
  <2>2. i \in 0..N /\ Bytes(p.evs, i) \in Nat
    BY <1>1, <2>1
  <2>3. 4 + Bytes(p.evs, i) <= Most(End(p), 4)
    BY <1>2, <2>1, <2>2 DEF Most
  <2>4. i \in Fit(p)
    BY <2>1, <2>2, <2>3 DEF Fit
  <2>5. QED
    BY <1>3, <1>4, <2>1, <2>4
<1>9. err <=> \E i \in Begun(p) : i \notin 1..k
  <2>1. ASSUME 4 + Bytes(p.evs, k) < End(p) PROVE \E i \in Begun(p) : i \notin 1..k
    <3>1. k # N
      BY <1>1, <1>2, <1>4, <2>1
    <3>2. k + 1 \in 1..N /\ (k + 1) - 1 = k
      BY <1>0, <1>4, <3>1
    <3>3. k + 1 \in Begun(p)
      BY <1>0, <2>1, <3>2 DEF Begun
    <3>4. QED
      BY <1>4, <3>3
  <2>2. ASSUME NEW i \in Begun(p), i \notin 1..k PROVE 4 + Bytes(p.evs, k) < End(p)
    <3>1. i \in 1..N /\ 4 + Bytes(p.evs, i - 1) < End(p)
      BY <1>0 DEF Begun
    <3>2. i - 1 \in 0..N /\ (k = i - 1 \/ k < i - 1)
      BY <1>0, <1>4, <2>2, <3>1
    <3>3. Bytes(p.evs, k) <= Bytes(p.evs, i - 1) /\ Bytes(p.evs, k) \in Nat /\ Bytes(p.evs, i - 1) \in Nat
      BY <1>1, <1>4, <3>2
    <3>4. QED
      BY <1>2, <3>1, <3>3
  <2>3. QED
    BY <1>5, <2>1, <2>2
<1>10. at \in [DOMAIN ok -> Whole(p)]
  BY <1>6, <1>7
<1>11. \A i, j \in DOMAIN ok : i < j => at[i] < at[j]
  BY <1>6
<1>12. \A i \in DOMAIN ok : ok[i] = p.evs[at[i]]
  BY <1>6
<1>13. Readable(p) \subseteq {at[i] : i \in DOMAIN ok}
  BY <1>6, <1>8
<1>14. err <=> \E i \in Begun(p) : \A j \in DOMAIN ok : at[j] # i
  BY <1>6, <1>9
<1>15. QED
  BY <1>10, <1>11, <1>12, <1>13, <1>14 DEF Sent

\* For every payload, any cut and any mix of events: what the compositor is
\* given is whole events in their order, every one that comes before the first
\* unknown or torn event among them, and an Err exactly if bytes of another one
\* arrived (parse_events).
THEOREM ParsedWhole == Spec => []NoTornEvent
<1>1. FrameInv => Sent(rx.p, rx.ok, rx.err)
  BY ExactIsSent DEF FrameInv, Received
<1>2. Sent(rx.p, rx.ok, rx.err) => NoTornEvent
  BY DEF Sent, Readable, Whole, Begun, End, NoTornEvent
<1>3. QED
  BY <1>1, <1>2, FrameInvariant, PTL

\* For every buffer size and every damage rectangle of 16-bit coordinates: the
\* damage reported for a frame is not empty and lies inside it
\* (handle_surface_commit, clamp_damage).
THEOREM DamageInside == Spec => []DamageWithin
<1>1. FrameInv => DamageWithin
  BY DEF FrameInv, Framed, DamageWithin, Inside
<1>2. QED
  BY <1>1, FrameInvariant, PTL

\* For every size, format and sound coding: a frame composed from the pool data
\* of its own drawing is that drawing, row for row (handle_pool_data,
\* handle_surface_commit).
THEOREM FramesFaithful == Spec => []FrameFaithful
<1>1. FrameInv => FrameFaithful
  BY DEF FrameInv, Framed, FrameFaithful, Shown
<1>2. QED
  BY <1>1, FrameInvariant, PTL

-----------------------------------------------------------------------------
(* Display: DisplayInv is inductive. *)

\* More events, no commit of s among them.
LEMMA JoinMore ==
    ASSUME NEW evs \in Seq(Events), NEW more \in Seq(Events), NEW s, NEW n \in Nat,
           NEW pic, NEW cv,
           Joined(evs, n, s, pic, cv), \A i \in Nat : ~CommitAt(more, s, i)
    PROVE  Joined(evs \o more, n, s, pic, cv)
<1> DEFINE q == evs \o more
<1>1. \A i \in 1..Len(evs) : q[i] = evs[i]
  OBVIOUS
<1>2. ASSUME NEW i \in Nat PROVE CommitAt(q, s, i) <=> CommitAt(evs, s, i)
  <2>1. CASE i \in 1..Len(evs)
    BY <1>1, <2>1 DEF CommitAt
  <2>2. CASE i \in (Len(evs) + 1)..Len(q)
    <3> DEFINE k == i - Len(evs)
    <3>1. k \in 1..Len(more) /\ q[i] = more[k]
      BY <2>2
    <3>2. ~CommitAt(more, s, k)
      BY <3>1
    <3>3. QED
      BY <2>2, <3>1, <3>2 DEF CommitAt
  <2>3. CASE i \notin 1..Len(q)
    BY <2>3 DEF CommitAt
  <2>4. QED
    BY <2>1, <2>2, <2>3
<1>3. ASSUME NEW i \in Nat, CommitAt(evs, s, i) PROVE q[i] = evs[i]
  BY <1>1, <1>3 DEF CommitAt
<1> HIDE DEF q
<1>4. Joined(q, n, s, pic, cv)
  BY <1>2, <1>3 DEF Joined
<1>5. QED
  BY <1>4 DEF q

\* More events, of which the last and no other is a commit of s, drawn on cv.
LEMMA JoinCommit ==
    ASSUME NEW evs \in Seq(Events), NEW more \in Seq(Events), NEW s, NEW n \in Nat,
           n <= Len(evs) + 1, NEW pic, NEW cv, NEW cv2,
           Joined(evs, n, s, pic, cv), more # <<>>,
           \A i \in Nat : CommitAt(more, s, i) <=> i = Len(more),
           ~is_zero(more[Len(more)].damage) =>
               Follows(cv, more[Len(more)].of, more[Len(more)].damage)
    PROVE  Joined(evs \o more, n, s, pic, cv2)
<1> DEFINE q == evs \o more
<1> DEFINE l == Len(evs) + Len(more)
<1>0. Len(evs) \in Nat /\ Len(more) \in Nat \ {0} /\ Len(q) = l
  OBVIOUS
<1>1. (\A i \in 1..Len(evs) : q[i] = evs[i]) /\ q[l] = more[Len(more)]
  BY <1>0
<1>2. ASSUME NEW i \in Nat PROVE CommitAt(q, s, i) <=> CommitAt(evs, s, i) \/ i = l
  <2>1. CASE i \in 1..Len(evs)
    BY <1>0, <1>1, <2>1 DEF CommitAt
  <2>2. CASE i \in (Len(evs) + 1)..Len(q)
    <3> DEFINE k == i - Len(evs)
    <3>1. k \in 1..Len(more) /\ q[i] = more[k]
      BY <2>2
    <3>2. CommitAt(more, s, k) <=> k = Len(more)
      BY <3>1
    <3>3. CommitAt(q, s, i) <=> CommitAt(more, s, k)
      BY <1>0, <2>2, <3>1 DEF CommitAt
    <3>4. QED
      BY <1>0, <2>2, <3>1, <3>2, <3>3 DEF CommitAt
  <2>3. CASE i \notin 1..Len(q)
    BY <1>0, <2>3 DEF CommitAt
  <2>4. QED
    BY <2>1, <2>2, <2>3
<1>3. ASSUME NEW i \in Nat, CommitAt(evs, s, i) PROVE q[i] = evs[i] /\ i < l
  BY <1>0, <1>1, <1>3 DEF CommitAt
<1> DEFINE e == more[Len(more)]
<1>4. q[l] = e /\ (~is_zero(e.damage) => Follows(cv, e.of, e.damage))
  BY <1>1
<1>5. l \in Nat /\ l >= n
  BY <1>0
<1> HIDE DEF q, l, e
<1>6. ~(\A j \in Nat : j >= n => ~CommitAt(q, s, j))
  BY <1>2, <1>5
<1>7. ASSUME NEW j \in Nat, j >= n, CommitAt(q, s, j),
             \A k \in Nat : n <= k /\ k < j => ~CommitAt(q, s, k),
             ~is_zero(q[j].damage)
      PROVE  Follows(pic, q[j].of, q[j].damage)
  <2>1. CASE CommitAt(evs, s, j)
    <3>1. \A k \in Nat : n <= k /\ k < j => ~CommitAt(evs, s, k)
      BY <1>2, <1>7
    <3>2. q[j] = evs[j]
      BY <1>3, <2>1
    <3>3. QED
      BY <1>7, <2>1, <3>1, <3>2 DEF Joined
  <2>2. CASE j = l
    <3>1. \A k \in Nat : k >= n => ~CommitAt(evs, s, k)
      BY <1>2, <1>3, <1>7, <2>2
    <3>2. pic = cv
      BY <3>1 DEF Joined
    <3>3. QED
      BY <1>4, <1>7, <2>2, <3>2
  <2>3. QED
    BY <1>2, <1>7, <2>1, <2>2
<1>8. Joined(q, n, s, pic, cv2)
  BY <1>6, <1>7 DEF Joined
<1>9. QED
  BY <1>8 DEF q

\* An event that is not a commit of s.
LEMMA JoinSkip ==
    ASSUME NEW evs, NEW n \in Nat, NEW s, NEW pic, NEW cv,
           Joined(evs, n, s, pic, cv), ~CommitAt(evs, s, n)
    PROVE  Joined(evs, n + 1, s, pic, cv)
<1>1. \A k \in Nat : k >= n <=> k = n \/ k >= n + 1
  OBVIOUS
<1>2. ASSUME NEW j \in Nat, j >= n + 1, CommitAt(evs, s, j),
             \A k \in Nat : n + 1 <= k /\ k < j => ~CommitAt(evs, s, k),
             ~is_zero(evs[j].damage)
      PROVE  Follows(pic, evs[j].of, evs[j].damage)
  <2>1. \A k \in Nat : n <= k /\ k < j => ~CommitAt(evs, s, k)
    BY <1>1, <1>2
  <2>2. QED
    BY <1>2, <2>1 DEF Joined
<1>3. ASSUME \A j \in Nat : j >= n + 1 => ~CommitAt(evs, s, j) PROVE pic = cv
  BY <1>1, <1>3 DEF Joined
<1>4. QED
  BY <1>2, <1>3 DEF Joined

\* The end of a payload.
LEMMA JoinEnd ==
    ASSUME NEW evs \in Seq(Events), NEW s, NEW pic, NEW cv,
           Joined(evs, Len(evs) + 1, s, pic, cv)
    PROVE  Joined(<<>>, 1, s, pic, cv)
<1>1. \A j \in Nat : j >= Len(evs) + 1 => ~CommitAt(evs, s, j)
  BY DEF CommitAt
<1>2. pic = cv
  BY <1>1 DEF Joined
<1>3. \A j \in Nat : ~CommitAt(<<>>, s, j)
  BY DEF CommitAt
<1>4. QED
  BY <1>2, <1>3 DEF Joined

LEMMA NothingChained == \A cvs : Chained(<<>>, cvs)
  BY DEF Chained, CommitAt

\* A commit names the first link of the chain.
LEMMA JoinedAt ==
    ASSUME NEW evs, NEW n \in Nat, NEW s, NEW pic, NEW cv, Joined(evs, n, s, pic, cv),
           CommitAt(evs, s, n), ~is_zero(evs[n].damage)
    PROVE  Follows(pic, evs[n].of, evs[n].damage)
  BY DEF Joined

-----------------------------------------------------------------------------
(* Display, step by step. *)

LEMMA ChainMore ==
    ASSUME NEW evs \in Seq(Events), NEW more \in Seq(Events), NEW cvs, Chained(evs, cvs),
           \A s \in Surfaces, i \in Nat : ~CommitAt(more, s, i)
    PROVE  Chained(evs \o more, cvs)
<1> SUFFICES ASSUME NEW s \in Surfaces, NEW i \in Nat, CommitAt(evs \o more, s, i)
             PROVE  Joined(evs \o more, i + 1, s, (evs \o more)[i].of, cvs[s])
  BY DEF Chained
<1>1. i \in 1..Len(evs)
  <2>1. i \in 1..(Len(evs) + Len(more))
    BY DEF CommitAt
  <2>2. SUFFICES ASSUME i > Len(evs) PROVE FALSE
    BY <2>1
  <2> DEFINE k == i - Len(evs)
  <2>3. k \in Nat /\ k \in 1..Len(more) /\ (evs \o more)[i] = more[k]
    BY <2>1, <2>2
  <2>4. CommitAt(more, s, k)
    BY <2>3 DEF CommitAt
  <2>5. QED
    BY <2>3, <2>4
<1>2. (evs \o more)[i] = evs[i]
  BY <1>1
<1>3. Joined(evs, i + 1, s, evs[i].of, cvs[s])
  BY <1>1, <1>2 DEF Chained, CommitAt
<1>4. QED
  BY <1>2, <1>3, JoinMore

LEMMA ConcatIs ==
    ASSUME NEW evs \in Seq(Events), NEW more \in Seq(Events)
    PROVE  /\ Len(evs) \in Nat /\ Len(evs \o more) = Len(evs) + Len(more)
           /\ \A i \in 1..Len(evs) : (evs \o more)[i] = evs[i]
           /\ \A i \in 1..Len(more) : (evs \o more)[Len(evs) + i] = more[i]
  OBVIOUS

\* A drawing: the picture it commits becomes the end of the chain.
LEMMA ChainCommit ==
    ASSUME NEW evs \in Seq(Events), NEW a \in Events, NEW b \in Commits, NEW cvs,
           cvs \in [Surfaces -> Pictures],
           a.type # "commit", Chained(evs, cvs),
           ~is_zero(b.damage) => Follows(cvs[b.surface], b.of, b.damage)
    PROVE  LET q == evs \o <<a, b>>
               cvs2 == [cvs EXCEPT ![b.surface] = b.of]
           IN  /\ Chained(q, cvs2)
               /\ \A s \in Surfaces : \A pic : Joined(evs, 1, s, pic, cvs[s]) =>
                                              Joined(q, 1, s, pic, cvs2[s])
<1> DEFINE more == <<a, b>>
<1> DEFINE q == evs \o more
<1> DEFINE cvs2 == [cvs EXCEPT ![b.surface] = b.of]
<1> DEFINE t == b.surface
<1>1. b.type = "commit" /\ t \in Surfaces /\ b \in Events
  BY CommitType DEF Events
<1>2. more \in Seq(Events) /\ Len(more) = 2 /\ more[1] = a /\ more[2] = b /\ more # <<>>
  BY <1>1
<1> HIDE DEF more
<1>3. \A i \in Nat : CommitAt(more, t, i) <=> i = Len(more)
  BY <1>1, <1>2 DEF CommitAt
<1>4. \A s \in Surfaces, i \in Nat : s # t => ~CommitAt(more, s, i)
  BY <1>1, <1>2 DEF CommitAt
<1>5. /\ cvs2[t] = b.of
      /\ \A s \in Surfaces : s # t => cvs2[s] = cvs[s]
  BY <1>1
<1> HIDE DEF cvs2
<1>6. ASSUME NEW s \in Surfaces, NEW pic, NEW n \in Nat, n <= Len(evs) + 1,
             Joined(evs, n, s, pic, cvs[s])
      PROVE  Joined(q, n, s, pic, cvs2[s])
  <2>1. CASE s = t
    <3>1. ~is_zero(more[Len(more)].damage) =>
               Follows(cvs[s], more[Len(more)].of, more[Len(more)].damage)
      BY <1>2, <2>1
    <3>2. \A i \in Nat : CommitAt(more, s, i) <=> i = Len(more)
      BY <1>3, <2>1
    <3>3. QED
      BY <1>2, <1>6, <3>1, <3>2, JoinCommit
  <2>2. CASE s # t
    BY <1>2, <1>4, <1>5, <1>6, <2>2, JoinMore
  <2>3. QED
    BY <2>1, <2>2
<1>7. ASSUME NEW s \in Surfaces, NEW i \in Nat, CommitAt(q, s, i)
      PROVE  Joined(q, i + 1, s, q[i].of, cvs2[s])
  <2>0. Len(q) = Len(evs) + 2 /\ i \in 1..Len(q) /\ Len(evs) \in Nat
    <3>1. i \in 1..Len(q)
      BY <1>7 DEF CommitAt
    <3>2. Len(q) = Len(evs) + Len(more) /\ Len(evs) \in Nat
      BY <1>2, ConcatIs
    <3>3. QED
      BY <1>2, <3>1, <3>2
  <2>1. CASE i \in 1..Len(evs)
    <3>1. q[i] = evs[i]
      BY <1>2, <2>1
    <3>2. CommitAt(evs, s, i)
      BY <1>7, <2>1, <3>1 DEF CommitAt
    <3>3. Joined(evs, i + 1, s, evs[i].of, cvs[s]) /\ i + 1 \in Nat /\ i + 1 <= Len(evs) + 1
      BY <2>1, <3>2 DEF Chained
    <3>4. QED
      BY <1>6, <3>1, <3>3
  <2>2. CASE i = Len(evs) + 1
    <3>1. q[i] = a
      BY <1>2, <2>2
    <3>2. QED
      BY <1>7, <3>1 DEF CommitAt
  <2>3. CASE i = Len(evs) + 2
    <3>1. q[i] = b
      <4>1. 2 \in 1..Len(more)
        BY <1>2
      <4>2. q[Len(evs) + 2] = more[2]
        BY <1>2, <4>1, ConcatIs
      <4>3. QED
        BY <1>2, <2>3, <4>2
    <3>2. s = t /\ cvs2[s] = q[i].of
      BY <1>5, <1>7, <3>1 DEF CommitAt
    <3>3. \A j \in Nat : j >= i + 1 => ~CommitAt(q, s, j)
      BY <2>0, <2>3 DEF CommitAt
    <3> HIDE DEF q
    <3>4. QED
      BY <3>2, <3>3 DEF Joined
  <2>4. QED
    BY <2>0, <2>1, <2>2, <2>3
<1> HIDE DEF q
<1>8. Chained(q, cvs2)
  BY <1>7 DEF Chained
<1>9. \A s \in Surfaces : \A pic : Joined(evs, 1, s, pic, cvs[s]) => Joined(q, 1, s, pic, cvs2[s])
  BY <1>6
<1>10. QED
  BY <1>8, <1>9 DEF q, cvs2, more

\* Encoding: the stream is what is being encoded.
LEMMA EncodingIs ==
    ASSUME DisplayInv, NEW evs, Encode(evs)
    PROVE  /\ ~Busy /\ Stream = enc /\ First = 1 /\ ~Torn /\ ~Busy' /\ Stream' = enc \o evs
           /\ First' = 1 /\ ~Torn' /\ Alternate'
           /\ UNCHANGED <<frame, viewer, dirty>> /\ Tracked'
<1>1. wire = <<>> /\ ~Busy /\ enc' = enc \o evs /\ UNCHANGED <<wire, rx, comp, viewer>>
  BY DEF Encode
<1>2. ~Busy' /\ wire' = <<>> /\ UNCHANGED <<frame, viewer, dirty>>
  BY <1>1 DEF Busy, comp
<1>3. Tracked'
  BY <1>2 DEF DisplayInv, Tracked
<1>4. QED
  BY <1>1, <1>2, <1>3 DEF Stream, First, Torn, Alternate

LEMMA OtherDisplay ==
    ASSUME DisplayInv, NEW e \in Others, EncodeOther(e) PROVE Alternate' /\ Linked' /\ Tracked'
<1>1. Encode(<<e>>) /\ canvas' = canvas
  BY DEF EncodeOther
<1>2. <<e>> \in Seq(Events) /\ enc \in Seq(Events)
  BY DEF Events, DisplayInv, FrameInv, Queued
<1>3. \A s \in Surfaces, i \in Nat : ~CommitAt(<<e>>, s, i)
  <2>1. e.type # "commit"
    BY OtherType
  <2>2. QED
    BY <2>1 DEF CommitAt
<1>4. /\ Stream = enc /\ First = 1 /\ ~Torn /\ Stream' = enc \o <<e>>
      /\ First' = 1 /\ ~Torn' /\ Alternate' /\ Tracked' /\ UNCHANGED <<frame, viewer>>
  BY <1>1, EncodingIs
<1>5. Chained(enc, canvas)
  BY <1>4 DEF DisplayInv, Linked
<1>6. Chained(Stream', canvas')
  BY <1>1, <1>2, <1>3, <1>4, <1>5, ChainMore
<1>7. ASSUME NEW s \in Surfaces, frame.by = {s}, ~viewer.gap
      PROVE  Joined(Stream', First', s, frame.want, canvas'[s])
  <2>1. Joined(enc, 1, s, frame.want, canvas[s])
    BY <1>4, <1>7 DEF DisplayInv, Linked
  <2>2. Joined(enc \o <<e>>, 1, s, frame.want, canvas[s])
    BY <1>2, <1>3, <2>1, JoinMore
  <2>3. QED
    BY <1>1, <1>4, <2>2
<1>8. Linked'
  BY <1>4, <1>6, <1>7 DEF Linked
<1>9. QED
  BY <1>4, <1>8

LEMMA DrawingDisplay ==
    ASSUME DisplayInv, NEW s \in Surfaces, NEW cv, NEW d, NEW coding, Drawing(s, cv, d, coding)
    PROVE  Alternate' /\ Linked' /\ Tracked'
<1> DEFINE a == pool_data(PoolOf[s], cv, coding)
<1> DEFINE b == surface_commit(s, cv, d)
<1>1. a \in PoolEvents /\ b \in Commits
  BY DrawnEvents DEF Drawing
<1>2. a \in Events /\ a.type # "commit"
  BY <1>1, PoolType DEF Events
<1>3. b.surface = s /\ b.of = cv /\ b.damage = d
  BY DEF surface_commit
<1>4. Encode(<<a, b>>) /\ canvas' = [canvas EXCEPT ![s] = cv]
  BY DEF Drawing, Commit
<1>5. ~is_zero(d) => Follows(canvas[s], cv, d)
  BY DEF Drawing
<1> HIDE DEF a, b
<1>6. /\ Stream = enc /\ First = 1 /\ ~Torn /\ Stream' = enc \o <<a, b>>
      /\ First' = 1 /\ ~Torn' /\ Alternate' /\ Tracked' /\ UNCHANGED <<frame, viewer>>
  BY <1>4, EncodingIs
<1>7. Chained(enc, canvas) /\ enc \in Seq(Events) /\ canvas \in [Surfaces -> Pictures]
  BY <1>6 DEF DisplayInv, Linked, FrameInv, Queued, Drawn
<1>8. /\ Chained(enc \o <<a, b>>, [canvas EXCEPT ![b.surface] = b.of])
      /\ \A t \in Surfaces : \A pic : Joined(enc, 1, t, pic, canvas[t]) =>
             Joined(enc \o <<a, b>>, 1, t, pic, [canvas EXCEPT ![b.surface] = b.of][t])
  BY <1>1, <1>2, <1>3, <1>5, <1>7, ChainCommit
<1>9. [canvas EXCEPT ![b.surface] = b.of] = canvas'
  BY <1>3, <1>4
<1>10. Chained(Stream', canvas')
  BY <1>6, <1>8, <1>9
<1>11. ASSUME NEW t \in Surfaces, frame.by = {t}, ~viewer.gap
       PROVE  Joined(Stream', First', t, frame.want, canvas'[t])
  <2>1. Joined(enc, 1, t, frame.want, canvas[t])
    BY <1>6, <1>11 DEF DisplayInv, Linked
  <2>2. QED
    BY <1>6, <1>8, <1>9, <2>1
<1>12. Linked'
  BY <1>6, <1>10, <1>11 DEF Linked
<1>13. QED
  BY <1>6, <1>12

-----------------------------------------------------------------------------
(* Display: transport and handlers. *)

LEMMA SendDisplay == ASSUME DisplayInv, Send PROVE Alternate' /\ Linked' /\ Tracked'
<1>1. /\ wire = <<>> /\ ~Busy /\ wire' = <<finish(enc)>> /\ enc' = <<>> /\ rx' = rx
      /\ UNCHANGED <<canvas, frame, viewer, dirty>>
  BY DEF Send, comp
<1>2. finish(enc).evs = enc
  BY DEF finish
<1>3. ~Busy' /\ Alternate'
  BY <1>1 DEF Alternate, Busy
<1>4. wire'[1].evs = enc /\ wire' # <<>>
  BY <1>1, <1>2
<1>5. Stream' = Stream /\ First' = First /\ ~Torn /\ ~Torn'
  BY <1>1, <1>3, <1>4 DEF Stream, First, Torn
<1>6. Linked'
  BY <1>1, <1>5 DEF DisplayInv, Linked
<1>7. Tracked'
  BY <1>1 DEF DisplayInv, Tracked
<1>8. QED
  BY <1>3, <1>6, <1>7

\* Once something is lost nothing is claimed before the next whole commit.
LEMMA LoseDisplay == ASSUME DisplayInv, Lose PROVE Alternate' /\ Linked' /\ Tracked'
<1>1. PICK p : wire = <<p>>
  BY DEF DisplayInv, FrameInv, Queued, Lose
<1>2. wire' = <<>> /\ enc' = enc /\ rx' = rx /\ enc = <<>> /\ ~Busy
  BY <1>1 DEF Lose, DisplayInv, Alternate
<1>3. ~Busy' /\ Alternate' /\ ~Torn'
  BY <1>2 DEF Alternate, Busy, Torn
<1>4. Stream' = <<>>
  BY <1>2, <1>3 DEF Stream
<1>5. viewer' = [viewer EXCEPT !.gap = TRUE] /\ UNCHANGED <<frame, dirty>>
  BY DEF Lose, comp
<1>6. viewer'.gap /\ viewer' \in [pic : {viewer'.pic}, pending : Rects, gap : BOOLEAN]
  BY <1>5 DEF DisplayInv, Tracked
<1>7. Linked'
  BY <1>3, <1>4, <1>6, NothingChained DEF Linked
<1>8. Tracked'
  BY <1>5, <1>6 DEF DisplayInv, Tracked
<1>9. QED
  BY <1>3, <1>7, <1>8

LEMMA CutDisplay ==
    ASSUME DisplayInv, NEW n \in 0..MaxEvents, NEW d \in {0, 1}, Cut(n, d)
    PROVE  Alternate' /\ Linked' /\ Tracked'
<1>1. PICK p, q : wire = <<p>> /\ wire' = <<q>> /\ q.evs = p.evs
  BY CutStep DEF DisplayInv
<1>2. UNCHANGED <<canvas, enc, rx, frame, viewer, dirty>>
  BY DEF Cut, comp
<1>3. enc = <<>> /\ ~Busy
  BY <1>1 DEF DisplayInv, Alternate
<1>4. ~Busy' /\ Alternate' /\ ~Torn /\ ~Torn'
  BY <1>2, <1>3 DEF Alternate, Busy, Torn
<1>5. Stream' = Stream /\ First' = First
  BY <1>1, <1>3, <1>4 DEF Stream, First
<1>6. Linked'
  BY <1>2, <1>4, <1>5 DEF DisplayInv, Linked
<1>7. Tracked'
  BY <1>2 DEF DisplayInv, Tracked
<1>8. QED
  BY <1>4, <1>6, <1>7

LEMMA ReceiveDisplay == ASSUME DisplayInv, Receive PROVE Alternate' /\ Linked' /\ Tracked'
<1>1. PICK p : Payload(p) /\ wire = <<p>>
  BY DEF DisplayInv, FrameInv, Queued, Receive
<1> DEFINE r == parse_events(p)
<1>2. /\ wire' = <<>> /\ UNCHANGED <<canvas, enc, frame, dirty>> /\ ~Busy
      /\ rx' = [p |-> p, ok |-> r.ok, err |-> r.err, next |-> 1]
      /\ viewer' = [viewer EXCEPT !.gap = @ \/ Len(r.ok) < Len(p.evs)]
  BY <1>1 DEF Receive, comp
<1>3. Exact(p, r.ok, r.err)
  BY <1>1, ParsesExactly
<1> HIDE DEF r
<1>4. /\ r.ok \in Seq(Events) /\ Len(r.ok) <= Len(p.evs)
      /\ Len(r.ok) < Len(p.evs) <=> r.ok # p.evs
  BY <1>1, <1>3, ReceivedIs
<1>5. enc' = <<>> /\ Stream = p.evs /\ First = 1 /\ ~Torn
  BY <1>1, <1>2 DEF DisplayInv, Alternate, Stream, First, Torn
<1>6. Alternate'
  BY <1>2, <1>5 DEF Alternate
<1>7. rx'.p = p /\ rx'.ok = r.ok /\ rx'.next = 1
  BY <1>2
<1>8. First' = 1 /\ Stream' = r.ok
  <2>1. CASE Busy'
    BY <1>7, <2>1 DEF First, Stream
  <2>2. CASE ~Busy'
    <3>1. r.ok = <<>>
      BY <1>4, <1>7, <2>2 DEF Busy
    <3>2. QED
      BY <1>2, <1>5, <2>2, <3>1 DEF First, Stream
  <2>3. QED
    BY <2>1, <2>2
<1>9. Torn' <=> r.ok # p.evs /\ Busy'
  BY <1>7 DEF Torn
<1>10. ~viewer'.gap => ~viewer.gap /\ r.ok = p.evs
  BY <1>2, <1>4 DEF DisplayInv, Tracked
<1>11. Chained(p.evs, canvas)
  BY <1>5 DEF DisplayInv, Linked
<1>12. ~Torn' => Chained(Stream', canvas')
  <2>1. CASE Busy'
    BY <1>2, <1>8, <1>9, <1>11, <2>1
  <2>2. CASE ~Busy'
    <3>1. r.ok = <<>>
      BY <1>4, <1>7, <2>2 DEF Busy
    <3>2. QED
      BY <1>8, <3>1, NothingChained
  <2>3. QED
    BY <2>1, <2>2
<1>13. ASSUME NEW s \in Surfaces, frame'.by = {s}, ~viewer'.gap
       PROVE  Joined(Stream', First', s, frame'.want, canvas'[s])
  BY <1>2, <1>5, <1>8, <1>10, <1>13 DEF DisplayInv, Linked
<1>14. Linked'
  BY <1>9, <1>10, <1>12, <1>13 DEF Linked
<1>15. Tracked'
  <2>1. /\ viewer' \in [pic : {viewer'.pic}, pending : Rects, gap : BOOLEAN]
        /\ viewer'.pic = viewer.pic /\ viewer'.pending = viewer.pending
    BY <1>2 DEF DisplayInv, Tracked
  <2>2. QED
    BY <1>2, <1>10, <2>1 DEF DisplayInv, Tracked
<1>16. QED
  BY <1>6, <1>14, <1>15

\* A handler takes one event off the stream.
LEMMA HandlingDisplay ==
    ASSUME DisplayInv, NEW type, Handling(type)
    PROVE  /\ Stream = rx.ok /\ First = rx.next /\ canvas' = canvas
           /\ Alternate' /\ (Torn' => Torn)
           /\ ~Torn' => Chained(Stream', canvas')
           /\ \A s, pic : Joined(rx.ok, rx.next + 1, s, pic, canvas[s]) =>
                              Joined(Stream', First', s, pic, canvas'[s])
<1>1. /\ Busy /\ UNCHANGED <<canvas, enc, wire>> /\ enc = <<>> /\ wire = <<>>
      /\ rx' = IF rx.next = Len(rx.ok) THEN Idle ELSE [rx EXCEPT !.next = @ + 1]
  BY DEF Handling, DisplayInv, Alternate
<1>2. rx.ok \in Seq(Events) /\ rx.next \in 1..Len(rx.ok) /\ Len(rx.ok) \in Nat
  BY HandlingStep DEF DisplayInv, FrameInv, Received
<1>3. Alternate'
  BY <1>1 DEF Alternate
<1>4. CASE rx.next = Len(rx.ok)
  <2>1. rx' = Idle /\ Idle.next = 1 /\ Idle.ok = <<>>
    BY <1>1, <1>4 DEF Idle
  <2>2. ~Busy'
    BY <2>1 DEF Busy
  <2>3. Stream' = <<>> /\ First' = 1 /\ ~Torn'
    BY <1>1, <2>2 DEF Stream, First, Torn
  <2>4. \A s, pic : Joined(rx.ok, rx.next + 1, s, pic, canvas[s]) =>
                        Joined(Stream', First', s, pic, canvas'[s])
    BY <1>1, <1>2, <1>4, <2>3, JoinEnd
  <2>5. QED
    BY <1>1, <1>3, <2>3, <2>4, NothingChained DEF Stream, First
<1>5. CASE rx.next # Len(rx.ok)
  <2>1. rx' = [rx EXCEPT !.next = @ + 1]
    BY <1>1, <1>5
  <2>2. rx'.p = rx.p /\ rx'.ok = rx.ok /\ rx'.next = rx.next + 1
    BY <2>1 DEF DisplayInv, FrameInv, Received
  <2>3. Busy'
    BY <1>2, <1>5, <2>2 DEF Busy
  <2>4. Stream' = rx.ok /\ First' = rx.next + 1 /\ (Torn' <=> Torn)
    BY <1>1, <2>2, <2>3 DEF Stream, First, Torn
  <2>5. ~Torn => Chained(rx.ok, canvas)
    BY <1>1 DEF DisplayInv, Linked, Stream
  <2>6. QED
    BY <1>1, <1>3, <2>4, <2>5 DEF Stream, First
<1>6. QED
  BY <1>4, <1>5

\* The handlers of everything that is not a commit.
LEMMA PlainDisplay ==
    ASSUME DisplayInv, NEW type, type # "commit", Handling(type),
           UNCHANGED <<frame, viewer, dirty>>
    PROVE  Alternate' /\ Linked' /\ Tracked'
<1>1. /\ Stream = rx.ok /\ First = rx.next /\ canvas' = canvas
      /\ Alternate' /\ (Torn' => Torn)
      /\ ~Torn' => Chained(Stream', canvas')
      /\ \A s, pic : Joined(rx.ok, rx.next + 1, s, pic, canvas[s]) =>
                         Joined(Stream', First', s, pic, canvas'[s])
  BY HandlingDisplay
<1>2. rx.next \in Nat /\ rx.ok[rx.next].type = type
  BY HandlingStep DEF DisplayInv, FrameInv, Received
<1>3. ASSUME NEW s \in Surfaces, frame'.by = {s}, ~viewer'.gap
      PROVE  Joined(Stream', First', s, frame'.want, canvas'[s])
  <2>1. Joined(rx.ok, rx.next, s, frame.want, canvas[s])
    BY <1>1, <1>3 DEF DisplayInv, Linked
  <2>2. ~CommitAt(rx.ok, s, rx.next)
    BY <1>2 DEF CommitAt
  <2>3. Joined(rx.ok, rx.next + 1, s, frame.want, canvas[s])
    BY <1>2, <2>1, <2>2, JoinSkip
  <2>4. QED
    BY <1>1, <2>3
<1>4. Linked'
  BY <1>1, <1>3 DEF DisplayInv, Linked
<1>5. Tracked'
  BY DEF DisplayInv, Tracked
<1>6. QED
  BY <1>1, <1>4, <1>5

LEMMA DropDisplay == ASSUME DisplayInv, DropCommit PROVE Alternate' /\ Linked' /\ Tracked'
<1>1. /\ Handling("commit") /\ viewer' = [viewer EXCEPT !.gap = TRUE]
      /\ UNCHANGED <<frame, dirty>>
  BY DEF DropCommit, comp
<1>2. viewer'.gap /\ viewer' \in [pic : {viewer'.pic}, pending : Rects, gap : BOOLEAN]
  BY <1>1 DEF DisplayInv, Tracked
<1>3. Alternate' /\ (~Torn' => Chained(Stream', canvas'))
  BY <1>1, HandlingDisplay
<1>4. Linked'
  BY <1>2, <1>3 DEF Linked
<1>5. Tracked'
  BY <1>1, <1>2 DEF DisplayInv, Tracked
<1>6. QED
  BY <1>3, <1>4, <1>5

-----------------------------------------------------------------------------
(* Display: commits and redraws. *)

LEMMA CommitDisplay ==
    ASSUME DisplayInv, handle_surface_commit PROVE Alternate' /\ Linked' /\ Tracked'
<1> DEFINE e == rx.ok[rx.next]
<1> DEFINE d == CommitDamage(e)
<1> DEFINE s == e.surface
<1> DEFINE n == rx.next
<1>1. Handling("commit") /\ dirty' = TRUE
      /\ viewer' = [viewer EXCEPT !.pending = merge_damage(@, d), !.gap = GapAfter(e)]
  BY DEF handle_surface_commit
<1>2. /\ FrameInv' /\ e \in Commits /\ frame'.by = {s} /\ frame'.want = e.of
      /\ frame'.got = pools[e.pool].of /\ frame'.pic.w = e.w /\ frame'.pic.h = e.h
      /\ frame'.got = frame'.want => frame'.pic = Shown(s, e.of)
  BY CommitStep DEF DisplayInv
<1>3. /\ s \in Surfaces /\ e.of \in Pictures /\ e.w = e.of.w /\ e.h = e.of.h
      /\ e.type = "commit" /\ e.damage \in Rects
  BY <1>2, CommitType
<1>4. /\ Stream = rx.ok /\ First = n /\ canvas' = canvas
      /\ Alternate' /\ (Torn' => Torn)
      /\ ~Torn' => Chained(Stream', canvas')
      /\ \A t, pic : Joined(rx.ok, n + 1, t, pic, canvas[t]) =>
                         Joined(Stream', First', t, pic, canvas'[t])
  BY <1>1, HandlingDisplay
<1>5. n \in 1..Len(rx.ok) /\ n \in Nat /\ CommitAt(rx.ok, s, n) /\ Busy
  BY <1>1, <1>3, HandlingStep DEF DisplayInv, FrameInv, Received, CommitAt, Handling
<1>6. /\ viewer \in [pic : {viewer.pic}, pending : Rects, gap : BOOLEAN]
      /\ viewer.pending \in Rects
  BY DEF DisplayInv, Tracked
<1>7. /\ viewer'.gap = GapAfter(e) /\ viewer'.pic = viewer.pic
      /\ viewer'.pending = merge_damage(viewer.pending, d)
      /\ viewer' \in [pic : {viewer'.pic}, pending : Rects, gap : BOOLEAN]
  <2>1. d \in Rects
    BY <1>2, CommitDamageIs
  <2>2. merge_damage(viewer.pending, d) \in Rects
    BY <1>6, <2>1, MergeDamage
  <2>3. GapAfter(e) \in BOOLEAN
    BY DEF GapAfter
  <2>4. viewer' = [pic |-> viewer.pic, pending |-> merge_damage(viewer.pending, d), gap |-> GapAfter(e)]
    BY <1>1, <1>6
  <2>5. QED
    BY <2>2, <2>3, <2>4
<1> HIDE DEF d
\* What the absence of a gap says.
<1>8. Torn <=> rx.ok # rx.p.evs
  BY <1>5 DEF Torn
<1>9. Len(rx.ok) < Len(rx.p.evs) <=> rx.ok # rx.p.evs
  <2>1. Payload(rx.p) /\ Exact(rx.p, rx.ok, rx.err)
    BY DEF DisplayInv, FrameInv, Received
  <2>2. QED
    BY <2>1, ReceivedIs
<1>10. ~viewer'.gap => /\ ~Torn /\ pools[e.pool].of = e.of
                       /\ is_zero(e.damage) \/ (~viewer.gap /\ frame.by = {s})
  BY <1>7, <1>8, <1>9 DEF GapAfter
<1> HIDE DEF e
<1>11. ASSUME NEW t \in Surfaces, frame'.by = {t}, ~viewer'.gap
       PROVE  Joined(Stream', First', t, frame'.want, canvas'[t])
  <2>1. t = s
    BY <1>2, <1>11
  <2>2. Chained(rx.ok, canvas)
    BY <1>4, <1>10, <1>11 DEF DisplayInv, Linked
  <2>3. Joined(rx.ok, n + 1, s, rx.ok[n].of, canvas[s])
    BY <1>3, <1>5, <2>2 DEF Chained
  <2>4. frame'.want = rx.ok[n].of
    BY <1>2 DEF e
  <2>5. QED
    BY <1>4, <2>1, <2>3, <2>4
<1>12. Torn' => viewer'.gap
  BY <1>4, <1>10
<1>13. Linked'
  BY <1>4, <1>11, <1>12 DEF Linked
<1>14. ASSUME ~viewer'.gap,
              <<viewer'.pic.w, viewer'.pic.h>> = <<frame'.pic.w, frame'.pic.h>>,
              NEW q \in Grid(frame'.pic.w, frame'.pic.h), ~Covers(viewer'.pending, q)
       PROVE  viewer'.pic.pix[q] = frame'.pic.pix[q]
  <2>1. q \in Grid(e.w, e.h) /\ e.w \in 0..U16Max /\ e.h \in 0..U16Max
    <3>1. e.w \in 1..U16Max /\ e.h \in 1..U16Max
      BY <1>3, PictureType
    <3>2. QED
      BY <1>2, <1>14, <3>1
  <2>2. d \in Rects /\ (is_zero(e.damage) \/ Covers(e.damage, q) => Covers(d, q))
    BY <1>2, <2>1, CommitDamageIs DEF d
  <2>3. ~Covers(viewer.pending, q) /\ ~Covers(d, q)
    BY <1>6, <1>7, <1>14, <2>1, <2>2, MergeDamage
  <2>4. ~is_zero(e.damage) /\ ~Covers(e.damage, q)
    BY <2>2, <2>3
  <2>5. ~viewer.gap /\ frame.by = {s} /\ frame.by # {}
    BY <1>10, <1>14, <2>4
  <2>6. Follows(frame.want, e.of, e.damage)
    <3>1. Joined(rx.ok, n, s, frame.want, canvas[s])
      BY <1>3, <1>4, <2>5 DEF DisplayInv, Linked
    <3>2. rx.ok[n] = e
      BY DEF e
    <3>3. QED
      BY <1>5, <2>4, <3>1, <3>2, JoinedAt
  <2>7. frame.want.w = e.w /\ frame.want.h = e.h /\ e.of.pix[q] = frame.want.pix[q]
    BY <1>3, <2>1, <2>4, <2>6 DEF Follows
  <2>8. frame.pic = Shown(s, frame.want)
    BY <2>5 DEF DisplayInv, FrameInv, Framed, Tracked
  <2>9. frame.pic.w = e.w /\ frame.pic.h = e.h
        /\ frame.pic.pix[q] = [c |-> frame.want.pix[q], a |-> FormatOf[s] = 1]
    BY <2>1, <2>7, <2>8 DEF Shown, Picture
  <2>10. frame'.pic.pix[q] = [c |-> e.of.pix[q], a |-> FormatOf[s] = 1]
    <3>1. frame'.pic = Shown(s, e.of)
      BY <1>2, <1>10, <1>14
    <3>2. QED
      BY <1>3, <2>1, <3>1 DEF Shown, Picture
  <2>11. viewer.pic.pix[q] = frame.pic.pix[q]
    <3>1. <<viewer.pic.w, viewer.pic.h>> = <<frame.pic.w, frame.pic.h>>
      BY <1>2, <1>7, <1>14, <2>9
    <3>2. q \in Grid(frame.pic.w, frame.pic.h)
      BY <2>1, <2>9
    <3>3. QED
      BY <2>3, <2>5, <3>1, <3>2 DEF DisplayInv, Tracked
  <2>12. QED
    BY <1>7, <2>7, <2>9, <2>10, <2>11
<1>15. Tracked'
  BY <1>1, <1>2, <1>7, <1>10, <1>14 DEF Tracked
<1>16. QED
  BY <1>4, <1>13, <1>15

\* Copying the damaged part of the frame leaves nothing out.
LEMMA RedrawDisplay == ASSUME DisplayInv, Redraw PROVE Alternate' /\ Linked' /\ Tracked'
<1>1. UNCHANGED <<canvas, enc, wire, rx, frame>> /\ dirty = TRUE /\ dirty' = FALSE
  BY DEF Redraw, DisplayInv, Tracked
<1>2. Alternate' /\ Stream' = Stream /\ First' = First /\ (Torn' <=> Torn)
  BY <1>1 DEF DisplayInv, Alternate, Stream, First, Torn, Busy
<1> DEFINE old == viewer.pic
<1> DEFINE new == IF <<old.w, old.h>> # <<frame.pic.w, frame.pic.h>> THEN frame.pic
                  ELSE Picture(old.w, old.h, [q \in Grid(old.w, old.h) |->
                           IF Covers(viewer.pending, q) THEN frame.pic.pix[q]
                           ELSE old.pix[q]])
<1>3. viewer' = [viewer EXCEPT !.pending = ZeroRect, !.pic = new]
  BY DEF Redraw
<1> HIDE DEF new
<1>4. viewer' = [pic |-> new, pending |-> ZeroRect, gap |-> viewer.gap]
  <2>1. viewer \in [pic : {viewer.pic}, pending : Rects, gap : BOOLEAN]
    BY DEF DisplayInv, Tracked
  <2>2. QED
    BY <1>3, <2>1
<1>5. ZeroRect \in Rects
  BY WlStreamAssumption DEF ZeroRect, Rect, Rects, U16
<1>6. viewer' \in [pic : {viewer'.pic}, pending : Rects, gap : BOOLEAN]
      /\ viewer'.gap = viewer.gap /\ viewer'.pic = new
  BY <1>4, <1>5 DEF DisplayInv, Tracked
<1>7. Linked'
  BY <1>1, <1>2, <1>6 DEF DisplayInv, Linked
<1>8. ASSUME frame.by # {}, ~viewer.gap PROVE new = frame.pic /\ frame.got = frame.want
  <2>1. frame.got = frame.want
    BY <1>8 DEF DisplayInv, Tracked
  <2>2. PICK s \in Surfaces : frame.pic = Shown(s, frame.want)
    BY <1>8, <2>1 DEF DisplayInv, FrameInv, Framed
  <2>3. frame.pic = Picture(frame.pic.w, frame.pic.h, frame.pic.pix)
        /\ frame.pic.pix = [q \in Grid(frame.pic.w, frame.pic.h) |-> frame.pic.pix[q]]
    BY <2>2 DEF Shown, Picture
  <2>4. CASE <<old.w, old.h>> # <<frame.pic.w, frame.pic.h>>
    BY <2>1, <2>4 DEF new
  <2>5. CASE <<old.w, old.h>> = <<frame.pic.w, frame.pic.h>>
    <3>1. old.w = frame.pic.w /\ old.h = frame.pic.h
      BY <2>5
    <3>2. \A q \in Grid(frame.pic.w, frame.pic.h) :
              ~Covers(viewer.pending, q) => old.pix[q] = frame.pic.pix[q]
      BY <1>8, <2>5 DEF DisplayInv, Tracked
    <3>3. [q \in Grid(old.w, old.h) |-> IF Covers(viewer.pending, q) THEN frame.pic.pix[q]
                                        ELSE old.pix[q]] = frame.pic.pix
      BY <2>3, <3>1, <3>2
    <3>4. new = Picture(frame.pic.w, frame.pic.h, frame.pic.pix)
      BY <2>5, <3>1, <3>3 DEF new
    <3>5. QED
      BY <2>1, <2>3, <3>4
  <2>6. QED
    BY <2>4, <2>5
<1>9. Tracked'
  BY <1>1, <1>6, <1>8 DEF Tracked
<1>10. QED
  BY <1>2, <1>7, <1>9

LEMMA DisplayInit == Init => DisplayInv
<1> SUFFICES ASSUME Init PROVE DisplayInv
  OBVIOUS
<1>1. ~Busy
  BY DEF Init, Busy, Idle
<1>2. Alternate
  BY <1>1 DEF Init, Alternate
<1>3. Stream = <<>> /\ ~Torn
  BY <1>1 DEF Init, Stream, Torn
<1>4. frame.by = {}
  BY DEF Init
<1>5. Linked
  BY <1>3, <1>4, NothingChained DEF Linked
<1>6. ZeroRect \in Rects
  BY WlStreamAssumption DEF ZeroRect, Rect, Rects, U16
<1>7. Tracked
  BY <1>4, <1>6 DEF Init, Tracked
<1>8. QED
  BY <1>2, <1>5, <1>7, FrameInit DEF DisplayInv

LEMMA DisplayStep == DisplayInv /\ [Next]_vars => DisplayInv'
<1> SUFFICES ASSUME DisplayInv, [Next]_vars PROVE Alternate' /\ Linked' /\ Tracked'
  BY FrameStep DEF DisplayInv
<1>1. ASSUME NEW s \in Surfaces, CreateSurface(s) \/ DestroySurface(s)
      PROVE  Alternate' /\ Linked' /\ Tracked'
  BY <1>1, OtherDisplay DEF CreateSurface, DestroySurface, Others
<1>2. CASE MoveCursor \/ ResetSession
  BY <1>2, OtherDisplay DEF MoveCursor, ResetSession, Others
<1>3. ASSUME NEW s \in Surfaces, NEW coding \in {CodingOf[s]} \cup Faulty,
             \/ \E d \in Damages : Draw(s, d, coding)
             \/ \E dim \in Dims : Resize(s, dim, coding)
      PROVE  Alternate' /\ Linked' /\ Tracked'
  BY <1>3, DrawIs, DrawingDisplay DEF DisplayInv
<1>4. CASE Send
  BY <1>4, SendDisplay
<1>5. CASE Lose
  BY <1>5, LoseDisplay
<1>6. ASSUME NEW n \in 0..MaxEvents, NEW d \in {0, 1}, Cut(n, d)
      PROVE  Alternate' /\ Linked' /\ Tracked'
  BY <1>6, CutDisplay
<1>7. CASE Receive
  BY <1>7, ReceiveDisplay
<1>8. CASE handle_surface_create \/ handle_surface_destroy \/ handle_pool_data
           \/ handle_cursor_move
  BY <1>8, PlainDisplay DEF handle_surface_create, handle_surface_destroy, handle_pool_data,
                            handle_cursor_move, comp
<1>9. CASE DropCommit
  BY <1>9, DropDisplay
<1>10. CASE handle_surface_commit
  BY <1>10, CommitDisplay
<1>11. CASE Redraw
  BY <1>11, RedrawDisplay
<1>12. CASE UNCHANGED vars
  BY <1>12 DEF vars, DisplayInv, Alternate, Linked, Tracked, Stream, First, Torn, Busy
<1>13. QED
  BY <1>1, <1>2, <1>3, <1>4, <1>5, <1>6, <1>7, <1>8, <1>9, <1>10, <1>11, <1>12
     DEF Next, Sender, Transport, Viewer

\* For every number of surfaces, every buffer size and damage, however
\* payloads are lost, cut or badly packed: a viewer that merges the damage of
\* all commits since its last redraw and copies only that part shows the whole
\* frame, unless something went missing or another surface took the frame over
\* since the last commit of a whole surface (handle_surface_commit,
\* merge_damage, clamp_damage).
THEOREM DisplayIsCurrent == Spec => []DisplayCurrent
<1>1. DisplayInv => DisplayCurrent
  BY DEF DisplayInv, Tracked, DisplayCurrent
<1>2. QED
  BY <1>1, DisplayInit, DisplayStep, PTL DEF Spec

=============================================================================
