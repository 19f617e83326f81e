----------------------------- MODULE FlatMemory -----------------------------
(***************************************************************************)
(* What the memory of the symbolic machine promises: an array of bytes that *)
(* is saved once, before the first path, and is as it was saved when a path *)
(* begins.                                                                 *)
(***************************************************************************)
EXTENDS Integers

CONSTANTS
    Bytes(_, _),  \* the bytes of the n-th value that is stored, w bytes long
    Widths        \* the lengths a value may have

VARIABLES
    cur,      \* the bytes of the memory
    saved,    \* the bytes when they were saved
    snapped,  \* they were saved
    stores    \* how many stores there were

vars == <<cur, saved, snapped, stores>>

Init == saved = cur /\ snapped = FALSE /\ stores = 0

Write(a, w) ==
    /\ stores' = stores + 1
    /\ cur' = [x \in DOMAIN cur |->
                  IF x \in a..(a + w - 1) THEN Bytes(stores', w)[x - a] ELSE cur[x]]
    /\ saved' = IF snapped THEN saved ELSE cur'
    /\ UNCHANGED snapped

Save ==
    /\ ~snapped
    /\ snapped' = TRUE
    /\ UNCHANGED <<cur, saved, stores>>

Restore ==
    /\ snapped
    /\ cur' = saved
    /\ UNCHANGED <<saved, snapped, stores>>

Step == (\E a \in DOMAIN cur, w \in Widths : Write(a, w)) \/ Save \/ Restore

Spec == Init /\ [][Step]_vars
=============================================================================
