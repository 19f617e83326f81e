------------------------------- MODULE Memory -------------------------------
(***************************************************************************)
(* The memory of the symbolic machine (granular_memory.ml, as put together *)
(* by fragment_machine.ml): concrete bytes below two layers of chunks.     *)
(*                                                                         *)
(* Before start_symbolic, stores go to the bytes of "base"; then to the    *)
(* chunks of "mid", until make_snap; then to those of "top", which reset   *)
(* clears after every path.  A chunk is a tree whose leaves are values of  *)
(* 1, 2, 4 or 8 bytes, some of them absent.  A load that finds part of its *)
(* value absent asks the layer below ("missing") and keeps the answer in   *)
(* the tree, in the size it asked for.                                     *)
(*                                                                         *)
(* A value of w bytes is a function on 0..w-1, the lowest byte first.      *)
(***************************************************************************)
EXTENDS Integers

CONSTANTS
    Chunks,       \* number of chunks
    Starts,       \* the addresses of stores and loads
    Widths,       \* their sizes in bytes
    MaxStores, MaxLoads, MaxResets

VARIABLES
    base,      \* the concrete memory: address -> byte, or NoByte
    mid, top,  \* the hash tables: chunk -> tree
    snap1,     \* have_snap of the inner snapshot memory
    snap2,     \* have_snap of the outer one
    stores, loads, resets,   \* how many there were
    saved      \* history: the bytes at make_snap

mvars == <<base, mid, top, snap1, snap2, stores, loads, resets, saved>>

Addresses == 0..(8 * Chunks - 1)
NoByte == -1
Zero == 0        \* on_missing_zero

\* Loads and stores of bytes, shorts, words and longs, inside the memory.
ASSUME ChunksAssumption == Chunks \in Nat
ASSUME AccessAssumption ==
    /\ Starts \subseteq Nat
    /\ Widths \subseteq {1, 2, 4, 8}
    /\ \A a \in Starts, w \in Widths : a + w <= 8 * Chunks
ASSUME BoundsAssumption == MaxStores \in Nat /\ MaxLoads \in Nat /\ MaxResets \in Nat

\* The n-th value stored: bytes that are all different.
Bytes(n, w) == [i \in 0..(w - 1) |-> 10 * n + i]

extract(v, which, w) == [j \in 0..(w - 1) |-> v[which + j]]
reassemble_Bug(v0, v1, h) == [j \in 0..(2 * h - 1) |-> IF j < h THEN v1[j] ELSE v0[j - h]]
reassemble(v0, v1, h) == [j \in 0..(2 * h - 1) |-> IF j < h THEN v0[j] ELSE v1[j - h]]

-----------------------------------------------------------------------------
(* Chunks.  Each size of tree has the same operations, made from those of  *)
(* the half size: gran64_get is gran64_get_byte, _short, _word and _long,   *)
(* and so on down to gran8_get.                                             *)

Absent == [kind |-> "absent"]
Leaf(v) == [kind |-> "leaf", v |-> v]
Pair(g1, g2) == [kind |-> "pair", g1 |-> g1, g2 |-> g2]

split(g, h) ==
    IF g.kind = "pair" THEN <<g.g1, g.g2>>
    ELSE IF g.kind = "leaf" THEN <<Leaf(extract(g.v, 0, h)), Leaf(extract(g.v, h, h))>>
    ELSE <<Absent, Absent>>

\* Puts the value v of w bytes at byte "which" of the tree g of 2 * h bytes.
put_half(put(_, _, _, _), h, g, which, v, w) ==
    LET s == split(g, h)
    IN  IF w = 2 * h THEN Leaf(v)
        ELSE IF which < h THEN Pair(put(s[1], which, v, w), s[2])
        ELSE Pair(s[1], put(s[2], which - h, v, w))
gran8_put(g, which, v, w) == Leaf(v)
gran16_put(g, which, v, w) == put_half(gran8_put, 1, g, which, v, w)
gran32_put(g, which, v, w) == put_half(gran16_put, 2, g, which, v, w)
gran64_put(g, which, v, w) == put_half(gran32_put, 4, g, which, v, w)

\* A get returns the value, the tree afterwards, and the layer below, m, which may
\* change when it is asked for what is absent.  The answer is kept; a value from
\* one half, s[1] or s[2], replaces that half, one from both replaces both.
Kept(below) == [v |-> below.v, g |-> Leaf(below.v), m |-> below.m]
InFirst(r, s) == [v |-> r.v, g |-> Pair(r.g, s[2]), m |-> r.m]
InSecond(r, s) == [v |-> r.v, g |-> Pair(s[1], r.g), m |-> r.m]
InBoth(r1, r2, h) ==
    [v |-> reassemble(r1.v, r2.v, h), g |-> Pair(r1.g, r2.g), m |-> r2.m]
get_rest(get(_, _, _, _, _), r1, s, a, h) == InBoth(r1, get(r1.m, s[2], a + h, 0, h), h)

\* The w bytes at byte "which" of the tree g of 2 * h bytes at address a.
get_half(missing(_, _, _), get(_, _, _, _, _), h, m, g, a, which, w) ==
    LET s == IF g.kind = "pair" THEN <<g.g1, g.g2>> ELSE <<Absent, Absent>>
    IN  IF g.kind = "leaf" THEN [v |-> extract(g.v, which, w), g |-> g, m |-> m]
        ELSE IF w = 2 * h /\ g.kind = "absent" THEN Kept(missing(m, a, w))
        ELSE IF w = 2 * h THEN get_rest(get, get(m, s[1], a, 0, h), s, a, h)
        ELSE IF which < h THEN InFirst(get(m, s[1], a, which, w), s)
        ELSE InSecond(get(m, s[2], a + h, which - h, w), s)
gran8_get(missing(_, _, _), m, g, a, which, w) ==
    IF g.kind = "leaf" THEN [v |-> g.v, g |-> g, m |-> m] ELSE Kept(missing(m, a, 1))
gran16_get(missing(_, _, _), m, g, a, which, w) ==
    get_half(missing, LAMBDA n, k, b, i, u : gran8_get(missing, n, k, b, i, u),
             1, m, g, a, which, w)
gran32_get(missing(_, _, _), m, g, a, which, w) ==
    get_half(missing, LAMBDA n, k, b, i, u : gran16_get(missing, n, k, b, i, u),
             2, m, g, a, which, w)
gran64_get(missing(_, _, _), m, g, a, which, w) ==
    get_half(missing, LAMBDA n, k, b, i, u : gran32_get(missing, n, k, b, i, u),
             4, m, g, a, which, w)

-----------------------------------------------------------------------------
(* A layer: the table t over the layer below, m.  A load returns the value, *)
(* if any of it is in this layer, and both layers as they are afterwards.   *)

InChunk(r, t, c) == [some |-> TRUE, v |-> r.v, t |-> [t EXCEPT ![c] = r.g], m |-> r.m]
with_chunk(missing(_, _, _), t, m, a, w) ==
    LET c == a \div 8
        which == a % 8
    IN  IF t[c] = Absent THEN [some |-> FALSE, v |-> Zero, t |-> t, m |-> m]
        ELSE InChunk(gran64_get(missing, m, t[c], a - which, which, w), t, c)

\* A value that is not aligned is loaded in two parts of h bytes, r0 and r1; a
\* part that is not here is asked for.
part(missing(_, _, _), r, m, a, h) ==
    IF r.some THEN [v |-> r.v, m |-> m] ELSE missing(m, a, h)
both_parts(b0, b1, t, h) ==
    [some |-> TRUE, v |-> reassemble(b0.v, b1.v, h), t |-> t, m |-> b1.m]
second_part(missing(_, _, _), b0, r1, a, h) ==
    both_parts(b0, part(missing, r1, b0.m, a + h, h), r1.t, h)
assemble_parts(missing(_, _, _), r0, r1, a, h) ==
    IF ~r0.some /\ ~r1.some THEN r1
    ELSE second_part(missing, part(missing, r0, r1.m, a, h), r1, a, h)
load_second(missing(_, _, _), load_part(_, _, _), r0, a, h) ==
    assemble_parts(missing, r0, load_part(r0.t, r0.m, a + h), a, h)
maybe_load_divided(missing(_, _, _), load_part(_, _, _), t, m, a, h) ==
    load_second(missing, load_part, load_part(t, m, a), a, h)

maybe_load_byte(missing(_, _, _), t, m, a) == with_chunk(missing, t, m, a, 1)
maybe_load_short(missing(_, _, _), t, m, a) ==
    IF a % 2 = 0 THEN with_chunk(missing, t, m, a, 2)
    ELSE maybe_load_divided(missing, LAMBDA u, n, b : maybe_load_byte(missing, u, n, b),
                            t, m, a, 1)
maybe_load_word(missing(_, _, _), t, m, a) ==
    IF a % 4 = 0 THEN with_chunk(missing, t, m, a, 4)
    ELSE maybe_load_divided(missing, LAMBDA u, n, b : maybe_load_short(missing, u, n, b),
                            t, m, a, 2)
maybe_load_long(missing(_, _, _), t, m, a) ==
    IF a % 8 = 0 THEN with_chunk(missing, t, m, a, 8)
    ELSE maybe_load_divided(missing, LAMBDA u, n, b : maybe_load_word(missing, u, n, b),
                            t, m, a, 4)
maybe_load(missing(_, _, _), t, m, a, w) ==
    IF w = 1 THEN maybe_load_byte(missing, t, m, a)
    ELSE IF w = 2 THEN maybe_load_short(missing, t, m, a)
    ELSE IF w = 4 THEN maybe_load_word(missing, t, m, a)
    ELSE maybe_load_long(missing, t, m, a)

\* A value that is not aligned is stored in two parts.
store_common_fast(t, a, v, w) ==
    [t EXCEPT ![a \div 8] = gran64_put(t[a \div 8], a % 8, v, w)]
store_byte(t, a, v) == store_common_fast(t, a, v, 1)
store_short(t, a, v) ==
    IF a % 2 = 0 THEN store_common_fast(t, a, v, 2)
    ELSE store_byte(store_byte(t, a, extract(v, 0, 1)), a + 1, extract(v, 1, 1))
store_word(t, a, v) ==
    IF a % 4 = 0 THEN store_common_fast(t, a, v, 4)
    ELSE store_short(store_short(t, a, extract(v, 0, 2)), a + 2, extract(v, 2, 2))
store_long(t, a, v) ==
    IF a % 8 = 0 THEN store_common_fast(t, a, v, 8)
    ELSE store_word(store_word(t, a, extract(v, 0, 4)), a + 4, extract(v, 4, 4))
store_value(t, a, v, w) ==
    IF w = 1 THEN store_byte(t, a, v)
    ELSE IF w = 2 THEN store_short(t, a, v)
    ELSE IF w = 4 THEN store_word(t, a, v)
    ELSE store_long(t, a, v)

-----------------------------------------------------------------------------
(* The layers: mid over base, top over both. *)

base_load(a, w) ==
    [i \in 0..(w - 1) |-> IF base[a + i] = NoByte THEN Zero ELSE base[a + i]]
base_missing(m, a, w) == [v |-> base_load(a, w), m |-> m]

\* The inner snapshot memory; m is the table of mid, below which nothing changes.
inner_answer(r, a, w) == [v |-> IF r.some THEN r.v ELSE base_load(a, w), m |-> r.t]
inner_load(m, a, w) ==
    IF snap1 THEN inner_answer(maybe_load(base_missing, m, Zero, a, w), a, w)
    ELSE base_missing(m, a, w)

\* The outer one: the value, and the tables t of top and m of mid afterwards.
outer_below(b, t) == [v |-> b.v, t |-> t, m |-> b.m]
outer_answer(r, a, w) ==
    IF r.some THEN outer_below(r, r.t) ELSE outer_below(inner_load(r.m, a, w), r.t)
load_value(t, m, a, w) ==
    IF snap2 THEN outer_answer(maybe_load(inner_load, t, m, a, w), a, w)
    ELSE outer_below(inner_load(m, a, w), t)

-----------------------------------------------------------------------------
(* What the layers hold. *)

byte_in(byte(_, _), h, g, i) ==
    IF g.kind = "absent" THEN NoByte
    ELSE IF g.kind = "leaf" THEN g.v[i]
    ELSE IF i < h THEN byte(g.g1, i) ELSE byte(g.g2, i - h)
byte8(g, i) == IF g.kind = "leaf" THEN g.v[i] ELSE NoByte
byte16(g, i) == byte_in(byte8, 1, g, i)
byte32(g, i) == byte_in(byte16, 2, g, i)
byte64(g, i) == byte_in(byte32, 4, g, i)

\* The table t over the bytes "below".
Seen(b, below) == IF b = NoByte THEN below ELSE b
Over(t, below) == [x \in Addresses |-> Seen(byte64(t[x \div 8], x % 8), below[x])]

Concrete == [x \in Addresses |-> Seen(base[x], Zero)]
contents == Over(top, Over(mid, Concrete))

-----------------------------------------------------------------------------

MInit ==
    /\ base = [a \in Addresses |-> NoByte]
    /\ mid = [c \in 0..(Chunks - 1) |-> Absent]
    /\ top = [c \in 0..(Chunks - 1) |-> Absent]
    /\ snap1 = FALSE
    /\ snap2 = FALSE
    /\ stores = 0
    /\ loads = 0
    /\ resets = 0
    /\ saved = [a \in Addresses |-> Zero]

\* The bytes f with the value v at a..(a + w - 1).
Written(f, a, v, w) ==
    [x \in Addresses |-> IF x \in a..(a + w - 1) THEN v[x - a] ELSE f[x]]

store(a, w) ==
    LET v == Bytes(stores + 1, w)
    IN  /\ stores < MaxStores
        /\ stores' = stores + 1
        /\ base' = IF snap1 \/ snap2 THEN base ELSE Written(base, a, v, w)
        /\ mid' = IF snap1 /\ ~snap2 THEN store_value(mid, a, v, w) ELSE mid
        /\ top' = IF snap2 THEN store_value(top, a, v, w) ELSE top
        /\ saved' = IF snap2 THEN saved ELSE Written(saved, a, v, w)
        /\ UNCHANGED <<snap1, snap2, loads, resets>>

load(a, w) ==
    LET r == load_value(top, mid, a, w)
    IN  /\ loads < MaxLoads
        /\ loads' = loads + 1
        /\ mid' = r.m
        /\ top' = r.t
        /\ UNCHANGED <<base, snap1, snap2, stores, resets, saved>>

start_symbolic ==
    /\ ~snap1
    /\ snap1' = TRUE
    /\ UNCHANGED <<base, mid, top, snap2, stores, loads, resets, saved>>

make_snap ==
    /\ snap1
    /\ ~snap2
    /\ snap2' = TRUE
    /\ UNCHANGED <<base, mid, top, snap1, stores, loads, resets, saved>>

reset_memory_Bug ==
    /\ snap2
    /\ resets < MaxResets
    /\ resets' = resets + 1
    /\ top' = [c \in DOMAIN top |-> IF c = 0 THEN Absent ELSE top[c]]
    /\ UNCHANGED <<base, mid, snap1, snap2, stores, loads, saved>>
reset_memory ==
    /\ snap2
    /\ resets < MaxResets
    /\ resets' = resets + 1
    /\ top' = [c \in DOMAIN top |-> Absent]
    /\ UNCHANGED <<base, mid, snap1, snap2, stores, loads, saved>>

MNext ==
    \/ \E a \in Starts, w \in Widths : store(a, w) \/ load(a, w)
    \/ start_symbolic
    \/ make_snap
    \/ reset_memory

MSpec == MInit /\ [][MNext]_mvars

-----------------------------------------------------------------------------

Flat == INSTANCE FlatMemory WITH cur <- contents, snapped <- snap2

\* The layers are one flat memory: stores change the bytes they name and no
\* other, loads change nothing although they rebuild chunks, and reset brings
\* back the bytes that make_snap saw, whatever the path stored or loaded.
BehavesAsFlat == Flat!Spec

\* Every load, of any size and alignment, returns the bytes of the flat memory,
\* however they are spread over the layers and over leaves of other sizes.
LoadsRight ==
    \A a \in Starts, w \in Widths :
        load_value(top, mid, a, w).v = [i \in 0..(w - 1) |-> contents[a + i]]
=============================================================================
