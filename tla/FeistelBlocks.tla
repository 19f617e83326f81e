---------------------------- MODULE FeistelBlocks ----------------------------
(***************************************************************************)
(* Which memory the Feistel gadgets of an image use: get_addr, flip_addrs, *)
(* the four handlers of an operand and the rest of gen_root in             *)
(* gen_floppy_image.py, in the Feistel modes.                              *)
(*                                                                         *)
(* The first testcase creates the blocks; the later ones find theirs by    *)
(* position.  An instruction is its register operands, the sizes of its    *)
(* memory operands, whether memory operand 0 is read and written, and      *)
(* whether its text has a displacement: the code asks for operand 0        *)
(* whichever it handles (is_mem_read(0), get_seg_reg(0)).  Sizes           *)
(* are in words of 4 bytes, the size of one block.  An operand the         *)
(* handlers return early for (LTR, gdtr, the memory of a POP) is one that  *)
(* is not read or not written.  The lists are 1-based, the counters        *)
(* 0-based as in the code.                                                 *)
(***************************************************************************)
EXTENDS Integers, Sequences

CONSTANTS
    Registers,  \* the names of the registers that are operands
    Images,     \* the images: sequences of instructions, one per testcase
    Words,      \* how many words there are from start_addr to end_addr
    High        \* what flip_addrs adds to an address or takes off it

\* Operands have at least one word; the whole range lies below what flip_addrs
\* adds (start_addr, end_addr and the bit 0x01000000).
Operand ==
    [cls : {"gpr", "mm", "st", "xmm", "mem"}, loc : Registers \cup {"mem"}, n : Nat \ {0},
     rd : BOOLEAN, wr : BOOLEAN, disp : BOOLEAN]
Insn ==
    [regs : Seq({o \in Operand : o.cls # "mem"}), mems : Seq(Nat \ {0}), rd : BOOLEAN, wr : BOOLEAN,
     disp : BOOLEAN]
ASSUME ImagesAssumption == Images \subseteq Seq(Insn) \ {<<>>}
ASSUME WordsAssumption == Words \in Nat \ {0} /\ High \in Nat /\ Words < High

VARIABLES
    image,      \* the instructions of the testcases
    tc,         \* the testcase that is generated
    pass,       \* "read", "write", "rest", "param", "done", or "failed"
    todo,       \* the operands handle_op has yet to handle
    blocks,     \* the lists of addresses, and next_addr
    count_r, count_l,
    l_restore,  \* the texts whose backup and restore are generated
    PG,         \* paging, as far as the generator knows
    uses        \* history: the accesses to blocks in the gadgets so far

bvars == <<image, tc, pass, todo, blocks, count_r, count_l, l_restore, PG, uses>>

isInit == tc = 1
insn == image[tc]

\* handle_op: first the register operands, then those in memory.
operands(i) ==
    i.regs \o [k \in 1..Len(i.mems) |->
        [cls |-> "mem", loc |-> "mem", n |-> i.mems[k], rd |-> i.rd, wr |-> i.wr,
         disp |-> i.disp]]

\* get_mem_op prints the offset of word j as part of a displacement.  Through a
\* segment other than ds, an operand without one has the same text for every
\* word, which is that of the first.
text_word(o, j) == IF o.disp THEN j ELSE 0
op_str(o, j) == <<o.loc, text_word(o, j)>>

\* How many words the instruction moves that copies a register (size2mov; the
\* x87 ones are fstpt and fldt): that depends on its class, not on its length.
moved(o) == CASE o.cls = "xmm" -> 4 [] o.cls = "st" -> 3 [] OTHER -> 1

-----------------------------------------------------------------------------
(* Getting addresses. *)

get_addr(a, n) == [k \in 1..n |-> a + k - 1]
Stride(a, n, d) == [k \in 1..n |-> a + d * (k - 1)]

flip_addr(a) == IF a >= High THEN a - High ELSE a + High
flip_list(s) == [k \in 1..Len(s) |-> flip_addr(s[k])]

flip_addrs(b) ==
    [r |-> flip_list(b.r), rbak |-> flip_list(b.rbak), l |-> flip_list(b.l),
     in |-> flip_list(b.in), out |-> b.out, next |-> flip_addr(b.next)]

Missing(s, n) == IF n > Len(s) THEN n - Len(s) ELSE 0

\* Blocks for an input of n words.
InputBlocksBug(b, n) ==
    [r |-> b.r \o Stride(b.next, n, 3), rbak |-> b.rbak \o Stride(b.next + 1, n, 3),
     in |-> b.in \o Stride(b.next + 2, n, 3), l |-> b.l, out |-> b.out,
     next |-> b.next + 3 * n]
InputBlocks(b, n) ==
    [r |-> b.r \o get_addr(b.next, n), rbak |-> b.rbak \o get_addr(b.next + n, n),
     in |-> b.in \o get_addr(b.next + 2 * n, n), l |-> b.l, out |-> b.out,
     next |-> b.next + 3 * n]

\* Blocks for an output of n words.
OutputBlocks(b, n) ==
    [l |-> b.l \o get_addr(b.next, n), out |-> b.out \o get_addr(b.next + n, n),
     r |-> b.r, rbak |-> b.rbak, in |-> b.in, next |-> b.next + 2 * n]

\* while count_l + r > len(feistel_r), in the handlers of outputs.
MoreR(b, n) ==
    LET k == Missing(b.r, n)
    IN  [r |-> b.r \o Stride(b.next, k, 3), rbak |-> b.rbak \o Stride(b.next + 1, k, 3),
         in |-> b.in \o Stride(b.next + 2, k, 3), l |-> b.l, out |-> b.out,
         next |-> b.next + 3 * k]

\* The blocks of the exception's two words, which restore nothing.
EcptBlocks(b) ==
    LET k == Missing(b.r, Len(b.l) + 2)
    IN  [l |-> b.l \o get_addr(b.next, 2), r |-> b.r \o Stride(b.next + 2, k, 2),
         rbak |-> b.rbak \o Stride(b.next + 3, k, 2), in |-> b.in, out |-> b.out,
         next |-> b.next + 2 + 2 * k]

\* while len(feistel_l) < len(feistel_r).
MoreL(b) ==
    LET k == Missing(b.l, Len(b.r))
    IN  [l |-> b.l \o get_addr(b.next, k), r |-> b.r, rbak |-> b.rbak, in |-> b.in,
         out |-> b.out, next |-> b.next + k]

\* The assertion in get_addr.
InRange(b) == b.next <= (IF PG = 1 THEN High ELSE 0) + Words

-----------------------------------------------------------------------------
(* One testcase. *)

\* Gadgets access w words at position k of a list, for the word of operand o
\* that the text of word j names.
use(b, list, k, w, o, j) ==
    [tc |-> tc, list |-> list, at |-> k, from |-> b[list][k + 1], words |-> w,
     of |-> o, word |-> text_word(o, j)]

Within(b, lists, k) == \A x \in lists : k < Len(b[x])

\* An index out of range or a failed assertion ends the generation.
Unless(ok, Step) ==
    \/ ok /\ Step
    \/ /\ ~ok
       /\ pass' = "failed"
       /\ UNCHANGED <<image, tc, todo, blocks, count_r, count_l, l_restore, PG, uses>>

\* The operand's backup and restore gadgets, unless it has them already.
Restored(list, b, k, o, j) ==
    IF op_str(o, j) \in l_restore THEN {} ELSE {use(b, list, k, moved(o), o, j)}

handle_reg_read(o) ==
    LET b == IF isInit THEN InputBlocks(blocks, o.n) ELSE blocks
    IN  /\ o.cls # "mem" /\ o.rd
        /\ Unless(InRange(b) /\ Within(b, {"r", "in"}, count_r),
              /\ blocks' = b
              /\ uses' = uses \cup {use(b, "r", count_r, moved(o), o, 0)}
                              \cup Restored("in", b, count_r, o, 0)
              /\ l_restore' = l_restore \cup {op_str(o, 0)}
              /\ count_r' = count_r + o.n
              /\ todo' = Tail(todo)
              /\ UNCHANGED <<image, tc, pass, count_l, PG>>)

\* The addresses are taken in every testcase, and used in the first.  There
\* every word is copied to R; an input, a backup and a restore are generated
\* where the text is new.
handle_mem_read(o) ==
    LET b == IF isInit THEN InputBlocks(blocks, o.n)
             ELSE [r |-> blocks.r, rbak |-> blocks.rbak, in |-> blocks.in, l |-> blocks.l,
                   out |-> blocks.out, next |-> blocks.next + 3 * o.n]
        J == 0..(o.n - 1)
        N == {j \in J : text_word(o, j) = j /\ op_str(o, j) \notin l_restore}
    IN  /\ o.cls = "mem" /\ o.rd
        /\ Unless(InRange(b) /\ Within(b, {"r", "in"}, count_r + o.n - 1),
              /\ blocks' = b
              /\ uses' = uses
                     \cup {use(b, "r", count_r + j, 1, o, j) : j \in IF isInit THEN J ELSE N}
                     \cup {use(b, "in", count_r + j, 1, o, j) : j \in N}
              /\ l_restore' = l_restore \cup {op_str(o, j) : j \in J}
              /\ count_r' = count_r + o.n
              /\ todo' = Tail(todo)
              /\ UNCHANGED <<image, tc, pass, count_l, PG>>)

\* The blocks under an output: its own in L, those of the same position in R.
Outputs(o) ==
    MoreR(IF isInit THEN OutputBlocks(blocks, o.n) ELSE blocks, count_l + o.n)

\* An x87 register is combined word by word, any other in one go.
handle_reg_write(o) ==
    LET b == Outputs(o)
        J == IF o.cls = "st" THEN 0..(o.n - 1) ELSE {0}
        w == IF o.cls = "st" THEN 1 ELSE moved(o)
    IN  /\ o.cls # "mem" /\ o.wr
        /\ Unless(/\ InRange(b) /\ Within(b, {"l", "out"}, count_l)
                  /\ \A j \in J : Within(b, {"l", "r"}, count_l + j),
              /\ blocks' = b
              /\ uses' = uses \cup {use(b, x, count_l + j, w, o, j) : x \in {"l", "r"}, j \in J}
                              \cup Restored("out", b, count_l, o, 0)
              /\ count_l' = count_l + o.n
              /\ todo' = Tail(todo)
              /\ UNCHANGED <<image, tc, pass, count_r, l_restore, PG>>)

\* The test for an earlier backup is always on the first word of the operand.
handle_mem_write(o) ==
    LET b == Outputs(o)
        J == 0..(o.n - 1)
    IN  /\ o.cls = "mem" /\ o.wr
        /\ Unless(InRange(b) /\ Within(b, {"l", "out", "r"}, count_l + o.n - 1),
              /\ blocks' = b
              /\ uses' = uses \cup {use(b, x, count_l + j, 1, o, j) : x \in {"l", "r"}, j \in J}
                              \cup Restored("out", b, count_l, o, 0)
              /\ l_restore' = l_restore \cup {op_str(o, 0)}
              /\ count_l' = count_l + o.n
              /\ todo' = Tail(todo)
              /\ UNCHANGED <<image, tc, pass, count_r, PG>>)

\* An operand that is not read, or not written.
no_access(o) ==
    /\ pass \in {"read", "write"}
    /\ pass = "read" => ~o.rd
    /\ pass = "write" => ~o.wr
    /\ todo' = Tail(todo)
    /\ UNCHANGED <<image, tc, pass, blocks, count_r, count_l, l_restore, PG, uses>>

handle_op ==
    /\ todo # <<>>
    /\ LET o == Head(todo)
       IN \/ pass = "read" /\ (handle_reg_read(o) \/ handle_mem_read(o))
          \/ pass = "write" /\ (handle_reg_write(o) \/ handle_mem_write(o))
          \/ no_access(o)

\* All inputs come before all outputs.
next_pass ==
    /\ todo = <<>>
    /\ \/ pass = "read" /\ pass' = "write" /\ todo' = operands(insn)
       \/ pass = "write" /\ pass' = "rest" /\ todo' = <<>>
    /\ UNCHANGED <<image, tc, blocks, count_r, count_l, l_restore, PG, uses>>

\* The rest of gen_root: the exception's words, L for every R, the blocks that
\* have an input and no output, and the copies R to R' and R' to L.
gen_root ==
    LET e == IF isInit THEN EcptBlocks(blocks) ELSE blocks
        b == IF isInit THEN MoreL(e) ELSE e
        K == {count_l, count_l + 1} \cup (count_l + 2)..(count_r - 1)
        o == [cls |-> "block", loc |-> "block", n |-> 1, rd |-> FALSE, wr |-> FALSE,
              disp |-> TRUE]
    IN  /\ pass = "rest"
        /\ Unless(/\ InRange(b)
                  /\ \A k \in K : Within(b, {"l", "r"}, k)
                  /\ Len(b.r) <= Len(b.rbak) /\ Len(b.rbak) <= Len(b.l),
              /\ blocks' = b
              /\ uses' = uses \cup {use(b, x, k, 1, o, 0) : x \in {"l", "r"}, k \in K}
              /\ count_r' = 0 /\ count_l' = 0
              /\ l_restore' = {}
              /\ pass' = "param"
              /\ UNCHANGED <<image, tc, todo, PG>>)

\* A parameter of the testcase that turns paging off moves the addresses, once.
gen_set_creg ==
    /\ pass = "param"
    /\ PG = 1
    /\ PG' = 0
    /\ blocks' = flip_addrs(blocks)
    /\ UNCHANGED <<image, tc, pass, todo, count_r, count_l, l_restore, uses>>

\* The end of the loop over the testcases.
flip_backBug(b) == b
flip_back(b) == IF PG = 0 THEN flip_addrs(b) ELSE b

next_testcase ==
    /\ pass = "param"
    /\ PG' = 1
    /\ blocks' = flip_back(blocks)
    /\ \/ /\ tc < Len(image)
          /\ tc' = tc + 1
          /\ pass' = "read"
          /\ todo' = operands(image[tc + 1])
       \/ /\ tc = Len(image)
          /\ pass' = "done"
          /\ UNCHANGED <<tc, todo>>
    /\ UNCHANGED <<image, count_r, count_l, l_restore, uses>>

\* The loop counter has the first word (count_addr).
BInit ==
    /\ image \in Images
    /\ tc = 1
    /\ pass = "read"
    /\ todo = operands(image[1])
    /\ blocks = [r |-> <<>>, rbak |-> <<>>, l |-> <<>>, in |-> <<>>, out |-> <<>>,
                 next |-> High + 1]
    /\ count_r = 0 /\ count_l = 0
    /\ l_restore = {}
    /\ PG = 1
    /\ uses = {}

BNext == handle_op \/ next_pass \/ gen_root \/ gen_set_creg \/ next_testcase

BSpec == BInit /\ [][BNext]_bvars

-----------------------------------------------------------------------------
(* What an image needs, from its instructions alone. *)

\* How much comes before each position of a sequence of numbers, and all of it.
Sums(ns) ==
    LET sum[k \in 0..Len(ns)] == IF k = 0 THEN 0 ELSE sum[k - 1] + ns[k]
    IN  sum
Total(ns) == Sums(ns)[Len(ns)]
Greater(x, y) == IF x > y THEN x ELSE y

\* The words of each operand that are read, written, read from memory.
Reads(i) == [k \in 1..Len(operands(i)) |-> IF operands(i)[k].rd THEN operands(i)[k].n ELSE 0]
Writes(i) == [k \in 1..Len(operands(i)) |-> IF operands(i)[k].wr THEN operands(i)[k].n ELSE 0]
Fetches(i) ==
    [k \in 1..Len(operands(i)) |->
        IF operands(i)[k].rd /\ operands(i)[k].cls = "mem" THEN operands(i)[k].n ELSE 0]

\* How many blocks the first instruction makes.
Ins(i) == Greater(Total(Reads(i)), Total(Writes(i)))
Pairs(i) == Greater(Total(Reads(i)), Total(Writes(i)) + 2)

\* The last position that is looked up for operand k, which begins at "at": the
\* first one, for a register.
LastAt(i, k, at) == at + (IF operands(i)[k].cls = "mem" THEN operands(i)[k].n - 1 ELSE 0)

Fits(i, first) ==
    /\ \A k \in 1..Len(operands(i)) :
          /\ operands(i)[k].rd => LastAt(i, k, Sums(Reads(i))[k - 1]) < Ins(first)
          /\ operands(i)[k].wr => LastAt(i, k, Sums(Writes(i))[k - 1]) < Total(Writes(first))
    /\ Total(Writes(i)) + 2 <= Pairs(first)
    /\ Total(Reads(i)) <= Pairs(first)

\* The words a later testcase takes for its inputs in memory.
Again(im) == [t \in 1..Len(im) |-> IF t = 1 THEN 0 ELSE 3 * Total(Fetches(im[t]))]

\* The words: the counter; R, R' and L for every pair; two kinds of backups.
Made(i) == 1 + 3 * Pairs(i) + Ins(i) + Total(Writes(i))
Taken(im) == Made(im[1]) + Total(Again(im))

-----------------------------------------------------------------------------
(* Properties. *)

Lists == {"r", "rbak", "l", "in", "out"}

\* No block is in two places.
Apart(b) ==
    \A x, y \in Lists : \A k \in 1..Len(b[x]), m \in 1..Len(b[y]) :
        b[x][k] = b[y][m] => x = y /\ k = m

\* An image is generated exactly if every later testcase finds its blocks among
\* those of the first ("the length of feistel_r and feistel_l only updated while
\* generating the 1st test case") and the words suffice.  Then R, R' and L have
\* one length, no block is in two places, and every one is an address for
\* paging on, whatever the testcases did to paging in between.
BlocksFit ==
    LET fits == Taken(image) <= Words /\ \A t \in 1..Len(image) : Fits(image[t], image[1])
    IN  /\ pass = "failed" => ~fits
        /\ pass = "done" =>
             /\ fits
             /\ blocks.next = High + Taken(image)
             /\ Len(blocks.r) = Pairs(image[1])
             /\ Len(blocks.rbak) = Len(blocks.r) /\ Len(blocks.l) = Len(blocks.r)
             /\ Apart(blocks)
             /\ \A x \in Lists : \A k \in 1..Len(blocks[x]) :
                    blocks[x][k] \in (High + 1)..(High + Words - 1)

\* The words an access touches are those of the list's blocks it is meant for.
Own(u) ==
    \A j \in 0..(u.words - 1) :
        u.at + j < Len(blocks[u.list]) /\ blocks[u.list][u.at + j + 1] = u.from + j

\* What an XMM register needs: a length of four words and, in R, an input of
\* four words that begins at the same position.
Wide(u, i) ==
    /\ u.of.n = 4
    /\ u.list = "r" => \E k \in 1..Len(operands(i)) :
                           Reads(i)[k] = 4 /\ Sums(Reads(i))[k - 1] = u.at

\* In the testcases with the instruction of the first, the gadgets of an operand
\* touch no other operand's block, but for the XMM registers: those are always
\* moved whole, so they need four blocks in a row (size2mov).  Every operand has
\* its backup ("for restoring at the end of each TC") and every word of one in
\* memory, but for the later words of an output that is not an input; and the
\* cipher takes in every word of an output in memory.  Neither holds for the
\* later words of an operand whose words have the same text (get_mem_op): these
\* are never backed up, and never taken in.
OperandsApart ==
    pass = "done" =>
        \A t \in {x \in 1..Len(image) : image[x] = image[1]} :
            /\ \A u \in {x \in uses : x.tc = t} :
                   Own(u) <=> (u.of.cls = "xmm" => Wide(u, image[t]))
            /\ \A k \in 1..Len(operands(image[t])) :
                   LET o == operands(image[t])[k]
                       touched(j, lists) ==
                           \E u \in uses : /\ u.tc = t /\ u.of.loc = o.loc /\ u.word = j
                                           /\ u.list \in lists
                   IN  \A j \in 0..(IF o.cls = "mem" THEN o.n - 1 ELSE 0) :
                           LET named == j = 0 \/ o.disp
                           IN  /\ touched(j, {"in", "out"})
                                     <=> named /\ (o.rd \/ (o.wr /\ j = 0))
                               /\ touched(j, {"l"}) <=> named /\ o.wr
=============================================================================
