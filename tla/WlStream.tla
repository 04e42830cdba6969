------------------------------ MODULE WlStream ------------------------------
(***************************************************************************)
(* The wlstream library: the Encoder of sender.rs, parse_events of         *)
(* parser.rs, the Compositor of compositor.rs and the damage rectangles of *)
(* protocol.rs, between a sender that draws and a viewer that redraws only *)
(* what is damaged.                                                        *)
(*                                                                         *)
(* External: the sender (which events it encodes), the transport (it may   *)
(* lose or cut a payload) and the viewer (it merges the damage of every    *)
(* commit and copies that part of the frame), as the library's             *)
(* documentation uses them.                                                *)
(*                                                                         *)
(* A payload is its events, its declared size and its length in bytes.     *)
(* Lengths in pool data, offsets and strides count pixels of 4 bytes.  The *)
(* n-th drawing of the sender paints colour n.                             *)
(***************************************************************************)
EXTENDS Integers, Sequences, FiniteSets

CONSTANTS
    Surfaces, Pools,
    PoolOf,        \* PoolOf[s]: the pool surface s draws to
    FormatOf,      \* FormatOf[s]: 0 ARGB8888, 1 XRGB8888
    CodingOf,      \* CodingOf[s]: how the pool data of s is packed, "raw" or "lz4"
    Dims,          \* buffer sizes <<w, h>> a surface may have
    Damages,       \* damage rectangles a commit may name
    U16Max,
    MaxDraws,      \* bound on drawings
    MaxExtras,     \* bound on faults and on events other than drawings
    MaxEvents      \* bound on the events of a payload

ASSUME WlStreamAssumption ==
    /\ PoolOf \in [Surfaces -> Pools]
    /\ FormatOf \in [Surfaces -> {0, 1}]
    /\ CodingOf \in [Surfaces -> {"raw", "lz4"}]
    /\ U16Max \in Nat /\ MaxDraws \in Nat /\ MaxExtras \in Nat /\ MaxEvents \in Nat
    /\ Dims \subseteq (1..U16Max) \X (1..U16Max)
    /\ Damages \subseteq [x : 0..U16Max, y : 0..U16Max, w : 0..U16Max, h : 0..U16Max]

VARIABLES
    canvas,   \* canvas[s]: what the application has drawn on surface s
    enc,      \* Encoder.events: events not yet finished into a payload
    wire,     \* payloads in transit
    rx,       \* the payload being handled and what is left of its events
    pools, surfaces, frame, dirty, last_damage,   \* Compositor
    viewer,   \* the picture shown, the damage not yet redrawn, gap
    used

vars == <<canvas, enc, wire, rx, pools, surfaces, frame, dirty, last_damage,
          viewer, used>>
comp == <<pools, surfaces, frame, dirty, last_damage>>

-----------------------------------------------------------------------------
\* Damage rectangles.

U16 == 0..U16Max
Rects == [x : U16, y : U16, w : U16, h : U16]
Rect(x, y, w, h) == [x |-> x, y |-> y, w |-> w, h |-> h]
ZeroRect == Rect(0, 0, 0, 0)
is_zero(r) == r.w = 0 \/ r.h = 0

Least(a, b) == IF a < b THEN a ELSE b
Most(a, b) == IF a < b THEN b ELSE a
saturating_add(a, b) == Least(a + b, U16Max)
saturating_sub(a, b) == Most(a - b, 0)

\* Option<Rect>: the empty set is None.
clamp_damage(d, w, h) ==
    IF is_zero(d) THEN {Rect(0, 0, w, h)}
    ELSE LET x == Least(d.x, w)
             y == Least(d.y, h)
             x2 == Least(saturating_add(d.x, d.w), w)
             y2 == Least(saturating_add(d.y, d.h), h)
         IN  {r \in {Rect(x, y, saturating_sub(x2, x), saturating_sub(y2, y))} :
                 ~is_zero(r)}

LastOnly(d1, d2) == IF is_zero(d2) THEN d1 ELSE d2   \* slip: no union

merge_damage(d1, d2) ==
    IF is_zero(d1) THEN d2
    ELSE IF is_zero(d2) THEN d1
    ELSE LET x1 == Least(d1.x, d2.x)
             y1 == Least(d1.y, d2.y)
             x2 == Most(saturating_add(d1.x, d1.w), saturating_add(d2.x, d2.w))
             y2 == Most(saturating_add(d1.y, d1.h), saturating_add(d2.y, d2.h))
         IN  Rect(x1, y1, saturating_sub(x2, x1), saturating_sub(y2, y1))

Covers(r, p) == /\ r.x <= p[1] /\ p[1] < r.x + r.w
                /\ r.y <= p[2] /\ p[2] < r.y + r.h

-----------------------------------------------------------------------------
\* Pictures and pool data.

Colours == 0..MaxDraws
Zero == [c |-> 0, a |-> FALSE]                  \* four zero bytes
Garbage == [c |-> MaxDraws + 1, a |-> FALSE]    \* compressed bytes taken for pixels
Pixels == [c : Colours \cup {MaxDraws + 1}, a : BOOLEAN]
Grid(w, h) == (0..(w - 1)) \X (0..(h - 1))

Picture(w, h, pix) == [w |-> w, h |-> h, pix |-> pix]
NoPicture == Picture(0, 0, [q \in Grid(0, 0) |-> 0])

\* A buffer in a pool: one pixel before it, one pixel of padding after each row.
Offset == 1
Stride(w) == w + 1
Buffer(cv) ==
    [i \in 1..(Offset + Stride(cv.w) * cv.h) |->
        LET k == i - 1 - Offset
        IN  IF k < 0 \/ k % Stride(cv.w) = cv.w THEN Zero
            ELSE [c |-> cv.pix[<<k % Stride(cv.w), k \div Stride(cv.w)>>], a |-> FALSE]]

\* How the sender packs pool data.  collide: the compressed bytes are as many
\* as the raw ones; short: they hold fewer pixels than raw_len says; bad:
\* lz4_flex cannot decode them.
Sound == {"raw", "lz4"}
Faulty == {"collide", "short", "bad"}

lz4_len(coding, n) == CASE coding = "raw" -> 4 * n
                        [] coding = "collide" -> 4 * n
                        [] coding = "bad" -> 1
                        [] OTHER -> 4 * n - 1

\* Option<Vec<u8>>: what lz4::decompress returns, as a set of at most one.
decompress(e) == CASE e.coding = "lz4" -> {e.data}
                   [] e.coding = "short" -> {SubSeq(e.data, 1, Len(e.data) - 1)}
                   [] OTHER -> {}

-----------------------------------------------------------------------------
\* Events on the wire.

surface_create(s) == [type |-> "create", surface |-> s]
surface_destroy(s) == [type |-> "destroy", surface |-> s]
cursor_move == [type |-> "cursor"]
session_reset == [type |-> "reset"]   \* EV_SESSION_RESET; the Encoder has no method

\* of: the canvas the event stands for, for the properties only.
pool_data(p, cv, coding) ==
    [type |-> "pool", pool |-> p, data |-> Buffer(cv), coding |-> coding,
     raw_len |-> Len(Buffer(cv)), of |-> cv]

surface_commit(s, cv, d) ==
    [type |-> "commit", surface |-> s, pool |-> PoolOf[s], offset |-> Offset,
     w |-> cv.w, h |-> cv.h, stride |-> Stride(cv.w), format |-> FormatOf[s],
     damage |-> d, of |-> cv]

\* Bytes of an event, its type byte included.
Size(e) == CASE e.type \in {"create", "destroy"} -> 5
             [] e.type = "pool" -> 25 + lz4_len(e.coding, e.raw_len)
             [] e.type = "commit" -> 33
             [] e.type = "cursor" -> 9
             [] e.type = "reset" -> 3

\* Bytes of the first n events.
Bytes(evs, n) ==
    LET b[i \in 0..n] == IF i = 0 THEN 0 ELSE b[i - 1] + Size(evs[i]) IN b[n]

finish(evs) == [evs |-> evs, total |-> Bytes(evs, Len(evs)),
                len |-> 4 + Bytes(evs, Len(evs))]

Known(e) == e.type # "reset"

\* slip: nothing checks that an event begun before the end lies whole before it.
ReadTorn(p) ==
    LET end == Least(4 + p.total, p.len)
        begun == {n \in 0..Len(p.evs) :
                     \A i \in 1..n : Known(p.evs[i]) /\ 4 + Bytes(p.evs, i - 1) < end}
        k == CHOOSE n \in begun : \A m \in begun : m <= n
    IN  [ok |-> SubSeq(p.evs, 1, k), err |-> 4 + Bytes(p.evs, k) < end]

\* The Ok results, and whether an Err follows them.
parse_events(p) ==
    LET end == Least(4 + p.total, p.len)
        Scan[i \in 0..Len(p.evs)] ==
            IF i = 0 THEN [pos |-> 4, ok |-> 0, err |-> FALSE]
            ELSE LET s == Scan[i - 1]
                     e == p.evs[i]
                 IN  IF s.err \/ s.pos >= end THEN s
                     ELSE IF Known(e) /\ Size(e) <= end - s.pos
                     THEN [pos |-> s.pos + Size(e), ok |-> s.ok + 1, err |-> FALSE]
                     ELSE [s EXCEPT !.err = TRUE]
        last == Scan[Len(p.evs)]
    IN  IF p.len < 4 THEN [ok |-> <<>>, err |-> FALSE]
        ELSE [ok |-> SubSeq(p.evs, 1, last.ok), err |-> last.err]

Idle == [p |-> finish(<<>>), ok |-> <<>>, err |-> FALSE, next |-> 1]

-----------------------------------------------------------------------------
Blank(d) == Picture(d[1], d[2], [q \in Grid(d[1], d[2]) |-> 0])

Init ==
    /\ \E d \in Dims : canvas = [s \in Surfaces |-> Blank(d)]
    /\ enc = <<>> /\ wire = <<>> /\ rx = Idle
    /\ pools = <<>> /\ surfaces = <<>>
    /\ frame = [pic |-> NoPicture, want |-> NoPicture, got |-> NoPicture, by |-> {}]
    /\ dirty = FALSE /\ last_damage = ZeroRect
    /\ viewer = [pic |-> NoPicture, pending |-> ZeroRect, gap |-> FALSE]
    /\ used = [draws |-> 0, extras |-> 0]

-----------------------------------------------------------------------------
Busy == rx.next <= Len(rx.ok)   \* events are left to handle

\* The sender.

\* Encoding commutes with everything the viewer does, so it is confined to
\* the times when nothing is in transit.
Encode(evs) ==
    /\ wire = <<>> /\ ~Busy
    /\ Len(enc) + Len(evs) <= MaxEvents
    /\ enc' = enc \o evs
    /\ UNCHANGED <<wire, rx, comp, viewer>>

Extra ==
    /\ used.extras < MaxExtras
    /\ used' = [used EXCEPT !.extras = @ + 1]

EncodeOther(e) ==
    /\ Extra
    /\ Encode(<<e>>)
    /\ UNCHANGED canvas

CreateSurface(s) == EncodeOther(surface_create(s))
DestroySurface(s) == EncodeOther(surface_destroy(s))
MoveCursor == EncodeOther(cursor_move)
ResetSession == EncodeOther(session_reset)

\* Paint the part of the canvas that the commit calls damaged.
Paint(s, d) ==
    LET n == used.draws + 1
        cv == canvas[s]
    IN  Picture(cv.w, cv.h,
                [q \in Grid(cv.w, cv.h) |->
                    IF is_zero(d) \/ Covers(d, q) THEN n ELSE cv.pix[q]])

Spend(coding) ==
    /\ used.draws < MaxDraws
    /\ coding \in Faulty => used.extras < MaxExtras
    /\ used' = [used EXCEPT !.draws = @ + 1,
                            !.extras = @ + (IF coding \in Faulty THEN 1 ELSE 0)]

Commit(s, cv, d, coding) ==
    /\ Spend(coding)
    /\ canvas' = [canvas EXCEPT ![s] = cv]
    /\ Encode(<<pool_data(PoolOf[s], cv, coding), surface_commit(s, cv, d)>>)

Draw(s, d, coding) == Commit(s, Paint(s, d), d, coding)

\* A buffer of another size is drawn and committed as a whole.
Resize(s, dim, coding) ==
    /\ dim # <<canvas[s].w, canvas[s].h>>
    /\ Commit(s, Picture(dim[1], dim[2],
                         [q \in Grid(dim[1], dim[2]) |-> used.draws + 1]),
              ZeroRect, coding)

Send ==
    /\ enc # <<>> /\ wire = <<>> /\ ~Busy
    /\ wire' = <<finish(enc)>>
    /\ enc' = <<>>
    /\ UNCHANGED <<canvas, rx, comp, viewer, used>>

-----------------------------------------------------------------------------
\* The transport.

\* A put fails, or the subscriber is not there.
Lose ==
    /\ wire # <<>> /\ Extra
    /\ wire' = Tail(wire)
    /\ viewer' = [viewer EXCEPT !.gap = TRUE]
    /\ UNCHANGED <<canvas, enc, rx, comp>>

\* The payload ends in the middle: before, after or inside its n-th event.
Cut(n, d) ==
    /\ wire # <<>> /\ Extra
    /\ n <= Len(wire[1].evs)
    /\ LET len == 3 + Bytes(wire[1].evs, n) + d
       IN  /\ len < wire[1].len
           /\ wire' = <<[wire[1] EXCEPT !.len = len]>>
    /\ UNCHANGED <<canvas, enc, rx, comp, viewer>>

-----------------------------------------------------------------------------
\* The viewer: parse a payload, then one handler call per Ok event.

Receive ==
    /\ ~Busy /\ wire # <<>>
    /\ wire' = Tail(wire)
    /\ LET r == parse_events(wire[1])
       IN  /\ rx' = [p |-> wire[1], ok |-> r.ok, err |-> r.err, next |-> 1]
           /\ viewer' = [viewer EXCEPT !.gap = @ \/ Len(r.ok) < Len(wire[1].evs)]
    /\ UNCHANGED <<canvas, enc, comp, used>>

Handling(type) ==
    /\ Busy /\ rx.ok[rx.next].type = type
    /\ rx' = IF rx.next = Len(rx.ok) THEN Idle ELSE [rx EXCEPT !.next = @ + 1]
    /\ UNCHANGED <<canvas, enc, wire, used>>

handle_surface_create ==
    /\ Handling("create")
    /\ LET s == rx.ok[rx.next].surface
       IN  surfaces' = [t \in DOMAIN surfaces \cup {s} |->
                           IF t = s THEN ZeroRect ELSE surfaces[t]]
    /\ UNCHANGED <<pools, frame, dirty, last_damage, viewer>>

handle_surface_destroy ==
    /\ Handling("destroy")
    /\ surfaces' = [t \in DOMAIN surfaces \ {rx.ok[rx.next].surface} |-> surfaces[t]]
    /\ UNCHANGED <<pools, frame, dirty, last_damage, viewer>>

Padded(d, n) == [i \in 1..Most(n, Len(d)) |-> IF i <= Len(d) THEN d[i] ELSE Zero]

\* The bytes kept for a POOL_DATA event: none if decompression fails.
Decoded(e) ==
    IF lz4_len(e.coding, Len(e.data)) = 4 * e.raw_len
    THEN {IF e.coding = "raw" THEN e.data ELSE [i \in 1..e.raw_len |-> Garbage]}
    ELSE {Padded(d, e.raw_len) : d \in decompress(e)}

handle_pool_data ==
    /\ Handling("pool")
    /\ LET e == rx.ok[rx.next]
       IN  pools' = IF Decoded(e) = {} THEN pools
                    ELSE [p \in DOMAIN pools \cup {e.pool} |->
                             IF p # e.pool THEN pools[p]
                             ELSE [data |-> CHOOSE d \in Decoded(e) : TRUE,
                                   of |-> IF e.coding \in Sound THEN e.of ELSE NoPicture]]
    /\ UNCHANGED <<surfaces, frame, dirty, last_damage, viewer>>

Needed(e) == e.offset + e.stride * e.h
Opaque(px, format) == IF format = 1 THEN [px EXCEPT !.a = TRUE] ELSE px

TightRows(e, data) ==      \* slip: rows follow each other without padding
    [q \in Grid(e.w, e.h) |->
        Opaque(data[1 + e.offset + q[2] * e.w + q[1]], e.format)]

\* Row by row, at most stride pixels of each; what is not copied stays zero.
Composite(e, data) ==
    [q \in Grid(e.w, e.h) |->
        Opaque(IF q[1] < e.stride THEN data[1 + e.offset + q[2] * e.stride + q[1]]
               ELSE Zero, e.format)]

\* slip: damage outside the buffer redraws nothing.
NothingOutside(e) ==
    LET c == clamp_damage(e.damage, e.w, e.h)
    IN  IF c = {} THEN ZeroRect ELSE CHOOSE r \in c : TRUE

CommitDamage(e) ==
    LET c == clamp_damage(e.damage, e.w, e.h)
    IN  IF c = {} THEN Rect(0, 0, e.w, e.h) ELSE CHOOSE r \in c : TRUE

\* The pool is known and long enough.
Composable(e) == e.pool \in DOMAIN pools /\ Len(pools[e.pool].data) >= Needed(e)

\* The damage names what changed since the last frame only if that frame was
\* of the same surface and nothing was lost in between; a commit of the whole
\* surface brings everything up to date, if all of its payload arrived.
GapAfter(e) ==
    \/ Len(rx.ok) < Len(rx.p.evs)
    \/ pools[e.pool].of # e.of
    \/ ~is_zero(e.damage) /\ (viewer.gap \/ frame.by # {e.surface})

handle_surface_commit ==
    /\ Handling("commit")
    /\ LET e == rx.ok[rx.next]
           d == CommitDamage(e)
       IN  /\ Composable(e)
           /\ surfaces' = [t \in DOMAIN surfaces |->
                              IF t = e.surface THEN d ELSE surfaces[t]]
           /\ last_damage' = d
           /\ frame' = [pic |-> Picture(e.w, e.h, Composite(e, pools[e.pool].data)),
                        want |-> e.of, got |-> pools[e.pool].of, by |-> {e.surface}]
           /\ dirty' = TRUE
           /\ viewer' = [viewer EXCEPT !.pending = merge_damage(@, d),
                                       !.gap = GapAfter(e)]
    /\ UNCHANGED pools

DropCommit ==
    /\ Handling("commit")
    /\ ~Composable(rx.ok[rx.next])
    /\ viewer' = [viewer EXCEPT !.gap = TRUE]
    /\ UNCHANGED comp

handle_cursor_move == Handling("cursor") /\ UNCHANGED <<comp, viewer>>

\* Copy the damaged part of the frame; everything, if the size is another one.
Redraw ==
    /\ dirty
    /\ viewer' =
         [viewer EXCEPT
            !.pending = ZeroRect,
            !.pic = IF <<@.w, @.h>> # <<frame.pic.w, frame.pic.h>> THEN frame.pic
                    ELSE Picture(@.w, @.h, [q \in Grid(@.w, @.h) |->
                             IF Covers(viewer.pending, q) THEN frame.pic.pix[q]
                             ELSE @.pix[q]])]
    /\ dirty' = FALSE
    /\ UNCHANGED <<canvas, enc, wire, rx, pools, surfaces, frame, last_damage, used>>

-----------------------------------------------------------------------------
Sender ==
    \/ \E s \in Surfaces : CreateSurface(s) \/ DestroySurface(s)
    \/ MoveCursor
    \/ ResetSession
    \/ \E s \in Surfaces : \E coding \in {CodingOf[s]} \cup Faulty :
          \/ \E d \in Damages : Draw(s, d, coding)
          \/ \E dim \in Dims : Resize(s, dim, coding)
    \/ Send

Transport == Lose \/ \E n \in 0..MaxEvents, d \in {0, 1} : Cut(n, d)

Viewer ==
    \/ Receive
    \/ handle_surface_create \/ handle_surface_destroy
    \/ handle_pool_data \/ handle_surface_commit \/ DropCommit
    \/ handle_cursor_move
    \/ Redraw

Next == Sender \/ Transport \/ Viewer

Spec == Init /\ [][Next]_vars

-----------------------------------------------------------------------------
\* Type correctness of the compositor and of what surrounds it.
PictureOK(pic, dims, px) ==
    \/ pic = NoPicture
    \/ <<pic.w, pic.h>> \in dims /\ pic.pix \in [Grid(pic.w, pic.h) -> px]

TypeOK ==
    /\ \A s \in Surfaces : canvas[s] # NoPicture /\ PictureOK(canvas[s], Dims, Colours)
    /\ Len(enc) <= MaxEvents /\ Len(wire) <= 1
    /\ rx.next \in 1..(Len(rx.ok) + 1)
    /\ DOMAIN pools \subseteq Pools
    /\ \A p \in DOMAIN pools : \A i \in DOMAIN pools[p].data : pools[p].data[i] \in Pixels
    /\ DOMAIN surfaces \subseteq Surfaces
    /\ \A s \in DOMAIN surfaces : surfaces[s] \in Rects
    /\ PictureOK(frame.pic, Dims, Pixels) /\ PictureOK(viewer.pic, Dims, Pixels)
    /\ last_damage \in Rects /\ viewer.pending \in Rects
    /\ dirty \in BOOLEAN /\ viewer.gap \in BOOLEAN

\* What the viewer handles of a payload are events that lie whole inside the
\* declared size and the bytes received, each at most once and in their order;
\* none that comes before the first unknown or torn one is left out; and an Err
\* tells it whenever bytes of an event it does not handle arrived.  Of the whole
\* events behind an unknown one nothing is claimed: parse_events drops them, as
\* its comment says (parser.rs:58), and the wire specification would have the
\* unknown one skipped (ResetClears).
NoTornEvent ==
    LET p == rx.p
        end == Least(4 + p.total, p.len)
        evs == DOMAIN p.evs
        whole == {i \in evs : 4 + Bytes(p.evs, i) <= end}
        begun == {i \in evs : 4 + Bytes(p.evs, i - 1) < end}
        readable == {i \in whole : \A j \in 1..i : Known(p.evs[j])}
    IN  \E at \in [DOMAIN rx.ok -> whole] :
          /\ \A i, j \in DOMAIN rx.ok : i < j => at[i] < at[j]
          /\ \A i \in DOMAIN rx.ok : rx.ok[i] = p.evs[at[i]]
          /\ readable \subseteq {at[i] : i \in DOMAIN rx.ok}
          /\ rx.err <=> \E i \in begun : \A j \in DOMAIN rx.ok : at[j] # i

\* A viewer that has been sent a whole SESSION_RESET, and nothing after it,
\* has cleared its pool and surface caches once it has handled the payload
\* (WAYLAND_STREAM_PROTOCOL.md:87, 116).
ResetClears ==
    rx.p.evs = <<session_reset>> /\ rx.p.len >= 4 + rx.p.total /\ ~Busy
    => pools = <<>> /\ surfaces = <<>>

\* The damage a viewer is told to redraw lies inside the frame it is told to
\* draw and is not empty, whatever rectangle the commit named, up to the
\* largest coordinates (handle_surface_commit, clamp_damage).
DamageWithin ==
    frame.by # {} =>
        /\ ~is_zero(last_damage)
        /\ last_damage.x + last_damage.w <= frame.pic.w
        /\ last_damage.y + last_damage.h <= frame.pic.h

\* A frame composed from the pool data of its own drawing shows exactly what
\* the application drew, with alpha forced for XRGB8888; pool data that was
\* lost, undecodable, short, or compressed to exactly raw_len bytes is the
\* only way to another picture.
FrameFaithful ==
    frame.by # {} /\ frame.got = frame.want =>
        \E s \in frame.by :
            frame.pic = Picture(frame.want.w, frame.want.h,
                [q \in Grid(frame.want.w, frame.want.h) |->
                    [c |-> frame.want.pix[q], a |-> FormatOf[s] = 1]])

\* A viewer that merges the damage of all commits since its last redraw and
\* copies only that part shows the whole frame, unless a payload, an event or
\* pool data went missing, or another surface took the frame over, since the
\* last commit of a whole surface.
DisplayCurrent ==
    frame.by # {} /\ ~dirty /\ ~viewer.gap => viewer.pic = frame.pic

=============================================================================
