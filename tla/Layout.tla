------------------------------- MODULE Layout -------------------------------
(***************************************************************************)
(* The program that gen_floppy_with_testcase emits (gen_floppy_image.py).  *)
(*                                                                         *)
(* A gadget is [op, arg, lab]: what it does, the parameter it sets, the    *)
(* label it stores or jumps to.  Program resolves the labels to addresses, *)
(* numbered from 1 in memory order.                                        *)
(*                                                                         *)
(* early and late are the parameters whose gadgets sort_gadget places      *)
(* before and after the gadget "copy R blocks to R'": topological_sort     *)
(* emits unrelated gadgets in decreasing order of their mnemonics, so      *)
(* "ss" comes before "return to post", which comes before the backups and  *)
(* the inputs, then "copy R blocks to R'" and the bytes of memory, whose   *)
(* mnemonics are addresses.                                                *)
(***************************************************************************)
EXTENDS Naturals, Sequences

G(op) == [op |-> op, arg |-> 0, lab |-> ""]
Store(lab) == [op |-> "ret", arg |-> 0, lab |-> lab]
Set(op, ps) == [i \in 1..Len(ps) |-> [op |-> op, arg |-> ps[i], lab |-> ""]]
OnlyIf(b, s) == IF b THEN s ELSE <<>>

gen_prologue == <<[op |-> "prologue", arg |-> 0, lab |-> "l3"]>>

\* The first testcase copies its inputs to R under its own parameters, and
\* undoes them.
startup(t, mode, early, late) ==
    gen_prologue \o
    OnlyIf(t = 1 /\ mode > 0, Set("param", early \o late)) \o
    OnlyIf(t = 1 /\ mode > 1, <<G("setr")>>) \o
    OnlyIf(t = 1 /\ mode > 0, Set("revert", late \o early))

pre(mode, early, late) ==
    Set("param", early) \o
    OnlyIf(mode > 1, <<Store("l2"), G("backup"), G("setinput"), G("copyr")>>) \o
    Set("param", late)

code == <<Store("l1"), G("insn"), [op |-> "jmp", arg |-> 0, lab |-> "l2"]>>

revert_(mode, ps) ==
    <<Store("l2")>> \o OnlyIf(mode > 0, Set("revert", ps))

post(mode) ==
    <<Store("l3")>> \o
    OnlyIf(mode = 1, <<G("copyout")>>) \o
    OnlyIf(mode > 1, <<G("feistel"), G("restore"), G("update")>>)

revert(mode, ps) ==
    <<Store("l4")>> \o OnlyIf(mode > 0, Set("revert", ps))

loop(mode) ==
    <<Store("l5")>> \o
    OnlyIf(mode > 2, <<[op |-> "loop", arg |-> 0, lab |-> "ls"]>>)

gen_end_testcase == <<G("end"), G("hlt")>>

\* The segments of testcase t, in the order of compile_gadgets.
Segments(t, mode, early, late) ==
    << [seg |-> "startup", lab |-> "l0", text |-> startup(t, mode, early, late)],
       [seg |-> "pre",     lab |-> "ls", text |-> pre(mode, early, late)],
       [seg |-> "code",    lab |-> "",   text |-> code],
       [seg |-> "revert_", lab |-> "l1", text |-> revert_(mode, late \o early)],
       [seg |-> "post",    lab |-> "l2", text |-> post(mode)],
       [seg |-> "revert",  lab |-> "l3", text |-> revert(mode, late \o early)],
       [seg |-> "loop",    lab |-> "l4", text |-> loop(mode)] >>

\* Where the i-th segment begins when the testcase begins at address base.
SegmentStart(segs, base, i) ==
    LET start[j \in 1..Len(segs) + 1] ==
            IF j = 1 THEN base ELSE start[j - 1] + Len(segs[j - 1].text)
    IN  start[i]

AddressOf(segs, base, lab) ==
    IF lab = "l5" THEN SegmentStart(segs, base, Len(segs) + 1)
    ELSE SegmentStart(segs, base,
                      CHOOSE j \in 1..Len(segs) : segs[j].lab = lab)

\* Testcase t at address base.
Assemble(t, base, segs) ==
    LET Place(i) ==
            [j \in 1..Len(segs[i].text) |->
                LET g == segs[i].text[j]
                IN  [op |-> g.op, seg |-> segs[i].seg, tc |-> t, arg |-> g.arg,
                     to |-> IF g.lab = "" THEN 0 ELSE AddressOf(segs, base, g.lab)]]
    IN  Place(1) \o Place(2) \o Place(3) \o Place(4) \o Place(5) \o Place(6) \o Place(7)

compile_gadgets(n, mode, early, late) ==
    LET text[t \in 0..n] ==
            IF t = 0 THEN <<>>
            ELSE text[t - 1] \o
                 Assemble(t, Len(text[t - 1]) + 1, Segments(t, mode, early, late))
        epilogue ==
            [j \in 1..2 |-> [op |-> gen_end_testcase[j].op, seg |-> "epilogue",
                             tc |-> n, arg |-> 0, to |-> 0]]
    IN  text[n] \o epilogue
=============================================================================
