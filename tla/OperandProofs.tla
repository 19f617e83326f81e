---------------------------- MODULE OperandProofs ----------------------------
(***************************************************************************)
(* The inductive invariant of FeistelBlocks, and what generating the       *)
(* blocks of one operand does.  BlocksInv says where the generation stands *)
(* after any number of operands: the lengths of the lists and next_addr as *)
(* sums over the operands handled so far, and what has been found so far.  *)
(***************************************************************************)
EXTENDS FeistelProofs

-----------------------------------------------------------------------------
(* The inductive invariant. *)

\* The image can be generated.
AllFit == Taken(image) <= Words /\ \A t \in 1..Len(image) : Fits(image[t], image[1])

\* How many operands of the testcase are handled.
Handled == Len(operands(insn)) - Len(todo)

\* The blocks, as addresses for paging on.
Paged == IF PG = 0 THEN flip_addrs(blocks) ELSE blocks

\* next_addr after testcase t.
After(t) == High + Made(image[1]) + Sums(Again(image))[t]

\* The operands that are left are the last ones of the instruction.
Remaining ==
    pass \in {"read", "write"} =>
        /\ todo \in Seq(Operand)
        /\ Len(todo) <= Len(operands(insn))
        /\ \A j \in 1..Len(todo) : todo[j] = operands(insn)[Handled + j]

\* The counters are the words of the operands that are handled.
Counted ==
    /\ pass = "read" => count_l = 0 /\ count_r = Sums(Reads(insn))[Handled]
    /\ pass = "write" =>
          count_r = Total(Reads(insn)) /\ count_l = Sums(Writes(insn))[Handled]
    /\ pass = "rest" => count_r = Total(Reads(insn)) /\ count_l = Total(Writes(insn))
    /\ pass \in {"param", "done"} => count_r = 0 /\ count_l = 0

\* The lists have the lengths the first testcase gave them.
Settled(b) ==
    /\ Len(b.r) = Pairs(image[1]) /\ Len(b.rbak) = Pairs(image[1])
    /\ Len(b.l) = Pairs(image[1])
    /\ Len(b.in) = Ins(image[1]) /\ Len(b.out) = Total(Writes(image[1]))

\* The lengths while the first testcase makes the blocks.
Making(b, cr, cl) ==
    /\ Len(b.r) = Greater(cr, cl) /\ Len(b.rbak) = Greater(cr, cl)
    /\ Len(b.in) = Greater(cr, cl)
    /\ Len(b.l) = cl /\ Len(b.out) = cl
    /\ b.next = High + 1 + 3 * Greater(cr, cl) + 2 * cl

\* The lengths while a later testcase looks for its outputs: R may have become
\* longer, but then the testcase needs more than there is.
Looking(b, cl) ==
    /\ Len(b.l) = Pairs(image[1]) /\ Len(b.out) = Total(Writes(image[1]))
    /\ cl <= Pairs(image[1]) => Settled(b) /\ b.next = After(tc)

Lengths(b) ==
    /\ tc = 1 /\ pass \in {"read", "write", "rest"} => Making(b, count_r, count_l)
    /\ tc > 1 /\ pass = "read" =>
          Settled(b) /\ b.next = After(tc - 1) + 3 * Sums(Fetches(insn))[Handled]
    /\ tc > 1 /\ pass \in {"write", "rest"} => Looking(b, count_l)
    /\ pass \in {"param", "done"} => Settled(b) /\ b.next = After(tc)

\* What was handled has found its blocks.
Found ==
    /\ \A t \in 1..(tc - 1) : Fits(image[t], image[1])
    /\ pass \in {"param", "done"} => Fits(insn, image[1])
    /\ pass = "read" => \A k \in 1..Handled : ReadFits(insn, k, image[1])
    /\ pass \in {"write", "rest"} =>
          \A k \in 1..Len(operands(insn)) : ReadFits(insn, k, image[1])
    /\ pass = "write" => \A k \in 1..Handled : WriteFits(insn, k, image[1])
    /\ pass = "rest" => \A k \in 1..Len(operands(insn)) : WriteFits(insn, k, image[1])

Going ==
    /\ PG \in {0, 1} /\ (pass # "param" => PG = 1)
    /\ pass = "done" => tc = Len(image)
    /\ Remaining
    /\ Counted
    /\ Lengths(Paged)
    /\ Found
    /\ Fresh(Paged)
    /\ Paged.next <= High + Words

BlocksInv ==
    /\ image \in Images
    /\ tc \in 1..Len(image)
    /\ pass \in {"read", "write", "rest", "param", "done", "failed"}
    /\ pass = "failed" => ~AllFit
    /\ pass # "failed" => Going

-----------------------------------------------------------------------------
(* When an image does not fit. *)

\* The instructions of the image, and the one that is handled.
LEMMA Instructions ==
    ASSUME BlocksInv
    PROVE  /\ image[1] \in Insn /\ insn \in Insn /\ tc \in Nat /\ Len(image) \in Nat
           /\ High \in Nat /\ Words \in Nat
  BY AgainSums, WordsAssumption DEF BlocksInv, insn

\* An operand that does not find its blocks, or more words than there are pairs.
LEMMA NoFit ==
    ASSUME BlocksInv,
           \/ \E k \in 1..Len(operands(insn)) :
                 ~ReadFits(insn, k, image[1]) \/ ~WriteFits(insn, k, image[1])
           \/ ~(Total(Writes(insn)) + 2 <= Pairs(image[1]))
           \/ ~(Total(Reads(insn)) <= Pairs(image[1]))
    PROVE  ~AllFit
<1>1. ~Fits(insn, image[1])
  BY DEF Fits, ReadFits, WriteFits
<1> QED BY <1>1 DEF BlocksInv, AllFit, insn

\* An address above the range.
LEMMA NoRoom ==
    ASSUME BlocksInv, NEW a \in Int, a > High + Words,
           a <= High + Made(image[1]) + Total(Again(image))
    PROVE  ~AllFit
<1>1. Made(image[1]) \in Nat /\ Total(Again(image)) \in Nat /\ High \in Nat /\ Words \in Nat
  BY SMTT(60), Instructions, AgainSums, BlockCounts DEF BlocksInv
<1>2. Taken(image) = Made(image[1]) + Total(Again(image))
  BY DEF Taken
<1> QED BY <1>1, <1>2 DEF AllFit

\* A failure is right when the image does not fit.
LEMMA Fails ==
    ASSUME BlocksInv, ~AllFit, pass' = "failed", UNCHANGED <<image, tc>>
    PROVE  BlocksInv'
  BY DEF BlocksInv, AllFit

-----------------------------------------------------------------------------
(* Operands. *)

\* The operand that is handled, and those that remain.
LEMMA ThisOperand ==
    ASSUME BlocksInv, pass \in {"read", "write"}, todo # <<>>, NEW k, k = Handled + 1,
           NEW o, o = Head(todo)
    PROVE  /\ Handled \in Nat /\ k \in Nat /\ k \in 1..Len(operands(insn)) /\ k - 1 = Handled
           /\ Len(operands(insn)) \in Nat
           /\ o = operands(insn)[k] /\ o.n \in Nat \ {0}
           /\ o.rd \in BOOLEAN /\ o.wr \in BOOLEAN
           /\ Tail(todo) \in Seq(Operand)
           /\ Len(Tail(todo)) = Len(todo) - 1
           /\ Len(operands(insn)) - Len(Tail(todo)) = k
           /\ \A j \in 1..Len(Tail(todo)) : Tail(todo)[j] = operands(insn)[k + j]
<1>1. insn \in Insn /\ Len(operands(insn)) \in Nat
  BY Instructions, OperandSums
<1>2. /\ todo \in Seq(Operand) /\ Len(todo) <= Len(operands(insn))
      /\ \A j \in 1..Len(todo) : todo[j] = operands(insn)[Handled + j]
  BY DEF BlocksInv, Going, Remaining
<1>3. Len(todo) \in Nat /\ Len(todo) >= 1
  BY <1>2
<1>4. Handled \in Nat /\ k \in 1..Len(operands(insn)) /\ k - 1 = Handled /\ k \in Nat
  BY <1>1, <1>2, <1>3 DEF Handled
<1>5. o = todo[1] /\ todo[1] = operands(insn)[k]
  BY <1>2, <1>3
<1>6. /\ Tail(todo) \in Seq(Operand) /\ Len(Tail(todo)) = Len(todo) - 1
      /\ \A j \in 1..Len(Tail(todo)) : Tail(todo)[j] = todo[j + 1]
  BY <1>2, <1>3
<1>7. ASSUME NEW j \in 1..Len(Tail(todo))
      PROVE  Tail(todo)[j] = operands(insn)[k + j]
  <2>1. j + 1 \in 1..Len(todo) /\ Handled + (j + 1) = k + j
    BY <1>3, <1>4, <1>6
  <2> QED BY <1>2, <1>6, <2>1
<1>8. Len(operands(insn)) - Len(Tail(todo)) = k
  BY <1>1, <1>3, <1>4, <1>6 DEF Handled
<1> QED BY <1>1, <1>4, <1>5, <1>6, <1>7, <1>8, OperandFields

\* The invariant after an operand that found its blocks.
LEMMA NextOperand ==
    ASSUME BlocksInv, pass \in {"read", "write"}, todo # <<>>, NEW k, k = Handled + 1,
           todo' = Tail(todo), UNCHANGED <<image, tc, pass, PG>>,
           Counted', Lengths(blocks)', Fresh(blocks'), blocks'.next <= High + Words,
           pass = "read" => ReadFits(insn, k, image[1]),
           pass = "write" => WriteFits(insn, k, image[1])
    PROVE  BlocksInv'
<1>1. Going /\ PG = 1
  BY DEF BlocksInv, Going
<1>2. insn' = insn
  BY DEF insn
<1>3. Handled' = k /\ k - 1 = Handled /\ Handled \in Nat /\ k \in Nat
  BY <1>2, ThisOperand DEF Handled
<1>4. Paged' = blocks'
  BY <1>1 DEF Paged
<1>5. Remaining'
  <2>1. /\ Tail(todo) \in Seq(Operand) /\ Len(Tail(todo)) <= Len(operands(insn))
        /\ \A j \in 1..Len(Tail(todo)) : Tail(todo)[j] = operands(insn)[k + j]
    <3> DEFINE n == Len(operands(insn))
               t == Len(Tail(todo))
    <3>1. n - t = k /\ n \in Nat /\ t \in Nat /\ k \in Nat
      BY ThisOperand
    <3>2. t <= n
      BY <3>1
    <3> QED BY <3>2, ThisOperand
  <2> QED BY <1>2, <1>3, <2>1 DEF Remaining
<1>6. Found'
  <2>1. \A j \in 1..k : j \in 1..Handled \/ j = k
    BY <1>3
  <2>2. Found
    BY <1>1 DEF Going
  <2> QED BY <1>2, <1>3, <2>1, <2>2 DEF Found
<1>7. Going'
  <2>1. Lengths(Paged)'
    BY <1>2, <1>4 DEF Lengths, Making, Settled, Looking, After
  <2> QED BY <1>1, <1>4, <1>5, <1>6, <2>1 DEF Going
<1> QED BY <1>7 DEF BlocksInv

-----------------------------------------------------------------------------
(* Inputs. *)

\* Where the inputs stand before the operand.
LEMMA BeforeRead ==
    ASSUME BlocksInv, pass = "read", todo # <<>>, NEW k, k = Handled + 1,
           NEW o, o = Head(todo)
    PROVE  /\ PG = 1 /\ Fresh(blocks) /\ blocks.next <= High + Words
           /\ count_l = 0 /\ count_r \in Nat /\ count_r = Sums(Reads(insn))[k - 1]
           /\ Sums(Reads(insn))[k] = count_r + (IF o.rd THEN o.n ELSE 0)
           /\ Sums(Reads(insn))[k] \in Nat /\ Total(Reads(insn)) \in Nat
           /\ Sums(Reads(insn))[k] <= Total(Reads(insn))
           /\ Sums(Fetches(insn))[k - 1] \in Nat
           /\ Sums(Fetches(insn))[k] =
                 Sums(Fetches(insn))[k - 1] + (IF o.rd /\ o.cls = "mem" THEN o.n ELSE 0)
           /\ Sums(Fetches(insn))[k] <= Total(Fetches(insn)) /\ Total(Fetches(insn)) \in Nat
           /\ tc = 1 => Making(blocks, count_r, 0)
           /\ tc > 1 => /\ Settled(blocks)
                        /\ blocks.next = After(tc - 1) + 3 * Sums(Fetches(insn))[k - 1]
<1>1. /\ Handled \in Nat /\ k \in 1..Len(operands(insn)) /\ k - 1 = Handled
      /\ o = operands(insn)[k] /\ Len(operands(insn)) \in Nat /\ insn \in Insn
  BY ThisOperand, Instructions
<1>2. k - 1 \in 0..Len(operands(insn)) /\ k \in 0..Len(operands(insn))
  BY <1>1
<1>3. Summed(Reads(insn), insn) /\ Summed(Fetches(insn), insn)
  BY <1>1, OperandSums
<1>4. PG = 1 /\ Counted /\ Lengths(blocks) /\ Fresh(blocks) /\ blocks.next <= High + Words
  BY DEF BlocksInv, Going, Paged
<1>5. count_l = 0 /\ count_r = Sums(Reads(insn))[k - 1]
  BY <1>1, <1>4 DEF Counted
<1>6. Reads(insn)[k] = IF o.rd THEN o.n ELSE 0
  BY <1>1 DEF Reads
<1>7. Fetches(insn)[k] = IF o.rd /\ o.cls = "mem" THEN o.n ELSE 0
  BY <1>1 DEF Fetches
<1>8. /\ tc = 1 => Making(blocks, count_r, 0)
      /\ tc > 1 => /\ Settled(blocks)
                   /\ blocks.next = After(tc - 1) + 3 * Sums(Fetches(insn))[k - 1]
  BY <1>1, <1>4, <1>5 DEF Lengths
<1>9. /\ Sums(Reads(insn))[k - 1] \in Nat /\ Sums(Reads(insn))[k] \in Nat
      /\ Sums(Reads(insn))[k] = Sums(Reads(insn))[k - 1] + Reads(insn)[k]
      /\ Sums(Reads(insn))[k] <= Total(Reads(insn)) /\ Total(Reads(insn)) \in Nat
  BY <1>1, <1>2, <1>3 DEF Summed
<1>10. /\ Sums(Fetches(insn))[k - 1] \in Nat
       /\ Sums(Fetches(insn))[k] = Sums(Fetches(insn))[k - 1] + Fetches(insn)[k]
       /\ Sums(Fetches(insn))[k] <= Total(Fetches(insn)) /\ Total(Fetches(insn)) \in Nat
  BY <1>1, <1>2, <1>3 DEF Summed
<1> QED BY <1>4, <1>5, <1>6, <1>7, <1>8, <1>9, <1>10

\* The invariant after an input.
LEMMA AfterRead ==
    ASSUME BlocksInv, pass = "read", todo # <<>>, NEW k, k = Handled + 1,
           todo' = Tail(todo), UNCHANGED <<image, tc, pass, PG, count_l>>,
           count_r' = Sums(Reads(insn))[k],
           Fresh(blocks'), blocks'.next <= High + Words,
           tc = 1 => Making(blocks', Sums(Reads(insn))[k], 0),
           tc > 1 => /\ Settled(blocks')
                     /\ blocks'.next = After(tc - 1) + 3 * Sums(Fetches(insn))[k],
           ReadFits(insn, k, image[1])
    PROVE  BlocksInv'
<1>1. insn' = insn
  BY DEF insn
<1>2. Handled' = k
  BY <1>1, ThisOperand DEF Handled
<1>3. count_l = 0
  BY BeforeRead
<1>4. Counted'
  BY <1>1, <1>2, <1>3 DEF Counted
<1>5. Lengths(blocks)'
  BY <1>1, <1>2, <1>3 DEF Lengths, Settled, After
<1> QED BY <1>4, <1>5, NextOperand

\* The blocks an input takes, and when it finds them.
Inputs(o) ==
    IF tc = 1 THEN InputBlocks(blocks, o.n)
    ELSE IF o.cls = "mem"
    THEN [r |-> blocks.r, rbak |-> blocks.rbak, in |-> blocks.in, l |-> blocks.l,
          out |-> blocks.out, next |-> blocks.next + 3 * o.n]
    ELSE blocks

\* The blocks of an input in the first testcase.
LEMMA FirstInput ==
    ASSUME NEW c, Fresh(c), NEW n \in Nat, NEW cr \in Nat, Making(c, cr, 0),
           NEW b, b = InputBlocks(c, n)
    PROVE  Fresh(b) /\ Making(b, cr + n, 0)
<1>1. /\ Fresh(b) /\ Len(b.r) = Len(c.r) + n /\ Len(b.rbak) = Len(c.rbak) + n
      /\ Len(b.l) = Len(c.l) /\ Len(b.in) = Len(c.in) + n
      /\ Len(b.out) = Len(c.out) /\ b.next = c.next + 3 * n
  BY SMTT(60), InputFresh
<1>2. High \in Nat /\ Greater(cr, 0) = cr /\ Greater(cr + n, 0) = cr + n
  BY WordsAssumption DEF Greater
<1> QED BY <1>1, <1>2 DEF Making

\* A later testcase that reads memory takes addresses and keeps the lists.
LEMMA LaterInput ==
    ASSUME NEW c, Fresh(c), Settled(c), NEW n \in Nat,
           NEW b, b = [r |-> c.r, rbak |-> c.rbak, in |-> c.in, l |-> c.l, out |-> c.out,
                       next |-> c.next + 3 * n]
    PROVE  Fresh(b) /\ Settled(b) /\ b.next = c.next + 3 * n
<1>1. c \in BlocksT /\ c.next \in Int
  BY Named DEF Fresh
<1>2. /\ b.r = c.r /\ b.rbak = c.rbak /\ b.in = c.in /\ b.l = c.l /\ b.out = c.out
      /\ b.next = c.next + 3 * n /\ b.next \in Int /\ b.next >= c.next
  BY <1>1
<1>3. b \in BlocksT
  BY <1>1, <1>2 DEF BlocksT
<1>4. \A x \in Lists : b[x] = c[x] /\ c[x] \in Seq(Int)
  BY <1>1, <1>2, <1>3, Named DEF Lists
<1>5. Fresh(b)
  BY Zenon, <1>2, <1>3, <1>4, Same, Grow
<1> QED BY <1>2, <1>5 DEF Settled

\* How high next_addr gets in the first testcase.
LEMMA FirstBelow ==
    ASSUME BlocksInv, NEW b, NEW cr \in Nat, NEW cl \in Nat, Making(b, cr, cl),
           cr <= Total(Reads(image[1])), cl <= Total(Writes(image[1]))
    PROVE  /\ b.next \in Int
           /\ b.next <= High + Made(image[1]) + Total(Again(image))
<1> DEFINE R == Total(Reads(image[1]))
           W == Total(Writes(image[1]))
           P == Pairs(image[1])
           I == Ins(image[1])
<1>1. R \in Nat /\ W \in Nat /\ High \in Nat /\ Total(Again(image)) \in Nat
  BY Instructions, OperandSums, AgainSums DEF Summed, BlocksInv
<1>2. P = Greater(R, W + 2) /\ I = Greater(R, W) /\ Made(image[1]) = 1 + 3 * P + I + W
  BY SMTT(60), Instructions, BlockCounts
<1>3. b.next = High + 1 + 3 * Greater(cr, cl) + 2 * cl
  BY DEF Making
<1> HIDE DEF R, W, P, I
<1>4. cr <= R /\ cl <= W
  BY DEF R, W
<1>5. Greater(cr, cl) \in Nat /\ Greater(cr, cl) <= I /\ I <= P /\ W <= P /\ I \in Nat /\ P \in Nat
  BY <1>1, <1>2, <1>4 DEF Greater
<1>6. 2 * cl + 3 * Greater(cr, cl) <= 3 * P + I + W
  <2>1. CASE R > W
    <3>1. I = R /\ (P = R \/ P = W + 2)
      BY <1>1, <1>2, <2>1 DEF Greater
    <3> QED BY <1>1, <1>4, <1>5, <2>1, <3>1
  <2>2. CASE ~(R > W)
    <3>1. I = W /\ P = W + 2
      BY <1>1, <1>2, <2>2 DEF Greater
    <3> QED BY <1>1, <1>4, <1>5, <2>2, <3>1
  <2> QED BY <2>1, <2>2
<1> QED BY <1>1, <1>2, <1>3, <1>5, <1>6

\* How high next_addr gets while a later testcase reads.
LEMMA LaterBelow ==
    ASSUME BlocksInv, tc > 1
    PROVE  /\ After(tc - 1) \in Nat
           /\ After(tc - 1) + 3 * Total(Fetches(insn))
                 <= High + Made(image[1]) + Total(Again(image))
<1>1. tc \in 2..Len(image) /\ tc - 1 \in 1..Len(image)
  BY Instructions DEF BlocksInv
<1>2. /\ Sums(Again(image))[tc] = Sums(Again(image))[tc - 1] + 3 * Total(Fetches(insn))
      /\ Sums(Again(image))[tc] <= Total(Again(image)) /\ Total(Again(image)) \in Nat
      /\ Sums(Again(image))[tc - 1] \in Nat /\ Sums(Again(image))[tc] \in Nat
  BY <1>1, AgainSums DEF BlocksInv, insn
<1>3. Made(image[1]) \in Nat /\ High \in Nat /\ Total(Fetches(insn)) \in Nat
  BY ZenonT(60), Instructions, BlockCounts, OperandSums DEF Summed
<1> QED BY <1>2, <1>3 DEF After

\* What the step of an input gets, and when it finds its blocks.
LEMMA Input ==
    ASSUME BlocksInv, pass = "read", todo # <<>>, NEW k, k = Handled + 1,
           NEW o, o = Head(todo), o.rd, NEW b, b = Inputs(o)
    PROVE  /\ Fresh(b)
           /\ tc = 1 => Making(b, Sums(Reads(insn))[k], 0)
           /\ tc > 1 => /\ Settled(b)
                        /\ b.next = After(tc - 1) + 3 * Sums(Fetches(insn))[k]
           /\ b.next <= High + Made(image[1]) + Total(Again(image))
           /\ Within(b, {"r", "in"}, count_r + (IF o.cls = "mem" THEN o.n - 1 ELSE 0))
                 <=> ReadFits(insn, k, image[1])
<1> DEFINE q == IF o.cls = "mem" THEN o.n - 1 ELSE 0
           n == o.n
           m == IF o.cls = "mem" THEN o.n ELSE 0
           R == Sums(Reads(insn))[k]
           F == Sums(Fetches(insn))[k]
           F0 == Sums(Fetches(insn))[k - 1]
           A == After(tc - 1)
           top == High + Made(image[1]) + Total(Again(image))
<1>1. /\ n \in Nat \ {0} /\ k \in 1..Len(operands(insn)) /\ o = operands(insn)[k]
      /\ insn \in Insn /\ image[1] \in Insn /\ tc \in Nat /\ tc >= 1
  BY SMTT(60), ThisOperand, Instructions DEF BlocksInv
<1>2. /\ Fresh(blocks) /\ count_r \in Nat /\ R = count_r + n /\ R \in Nat
      /\ R <= Total(Reads(insn))
      /\ F0 \in Nat /\ F = F0 + m
      /\ F <= Total(Fetches(insn)) /\ Total(Fetches(insn)) \in Nat
      /\ tc = 1 => Making(blocks, count_r, 0)
      /\ tc > 1 => Settled(blocks) /\ blocks.next = A + 3 * F0
  BY BeforeRead
<1>3. ReadFits(insn, k, image[1]) <=> count_r + q < Ins(image[1])
  <2>1. LastAt(insn, k, Sums(Reads(insn))[k - 1]) = count_r + q
    BY Zenon, <1>1, BeforeRead DEF LastAt
  <2> QED BY <1>1, <2>1 DEF ReadFits
<1>4. q \in Nat /\ q < n /\ m \in Nat
  BY <1>1
<1>5. tc > 1 => A \in Nat /\ A + 3 * Total(Fetches(insn)) <= top
  BY LaterBelow
<1>6. top \in Nat
  <2>1. High \in Nat /\ Made(image[1]) \in Nat /\ Total(Again(image)) \in Nat
    BY Zenon, Instructions, AgainSums, BlockCounts DEF BlocksInv
  <2> QED BY <2>1
<1>7. /\ tc = 1 => b = InputBlocks(blocks, n)
      /\ tc > 1 => \/ b = blocks /\ m = 0
                   \/ b = [r |-> blocks.r, rbak |-> blocks.rbak, in |-> blocks.in,
                           l |-> blocks.l, out |-> blocks.out, next |-> blocks.next + 3 * m]
  BY <1>1 DEF Inputs
<1>8. QED
  <2> HIDE DEF q, n, m, R, F, F0, A, top
  <2>1. CASE tc = 1
    <3>1. insn = image[1]
      BY <2>1 DEF insn
    <3>2. Fresh(b) /\ Making(b, R, 0)
      BY <1>1, <1>2, <1>7, <2>1, FirstInput
    <3>3. b.next <= top
      <4>1. 0 <= Total(Writes(image[1])) /\ 0 \in Nat
        BY <1>1, OperandSums DEF Summed
      <4> QED BY <1>2, <3>1, <3>2, <4>1, FirstBelow DEF top
    <3>4. Len(b["r"]) = R /\ Len(b["in"]) = R
      <4>1. Greater(R, 0) = R
        BY <1>2 DEF Greater
      <4>2. b["r"] = b.r /\ b["in"] = b.in
        BY <3>2, Named DEF Fresh
      <4> QED BY <3>2, <4>1, <4>2 DEF Making
    <3>5. Within(b, {"r", "in"}, count_r + q)
      <4>1. count_r + q < R
        BY <1>1, <1>2, <1>4
      <4> QED BY <3>4, <4>1 DEF Within
    <3>6. ReadFits(insn, k, image[1])
      BY <1>1, <3>1, FitsItself
    <3> QED BY <2>1, <3>2, <3>3, <3>5, <3>6 DEF R, q, top
  <2>2. CASE tc > 1
    <3>1. /\ Fresh(b) /\ Settled(b) /\ b.next = blocks.next + 3 * m
      <4>1. blocks.next \in Int /\ (m = 0 => blocks.next = blocks.next + 3 * m)
        BY <1>2, <1>4, Named DEF Fresh
      <4> QED BY Zenon, <1>2, <1>4, <1>7, <2>2, <4>1, LaterInput
    <3>2. b.next = A + 3 * F /\ b.next <= top
      <4>1. blocks.next = A + 3 * F0 /\ A \in Nat /\ A + 3 * Total(Fetches(insn)) <= top
        BY Zenon, <1>2, <1>5, <2>2
      <4>2. /\ F0 \in Nat /\ m \in Nat /\ F = F0 + m /\ F <= Total(Fetches(insn))
            /\ Total(Fetches(insn)) \in Nat
        BY Zenon, <1>2, <1>4
      <4>3. b.next = A + 3 * F0 + 3 * m
        BY Zenon, <3>1, <4>1
      <4> QED BY <1>6, <4>1, <4>2, <4>3
    <3>3. Len(b["r"]) = Pairs(image[1]) /\ Len(b["in"]) = Ins(image[1])
      BY <3>1, Named DEF Settled, Fresh
    <3>4. Ins(image[1]) <= Pairs(image[1]) /\ Ins(image[1]) \in Nat /\ Pairs(image[1]) \in Nat
      <4>1. Total(Reads(image[1])) \in Nat /\ Total(Writes(image[1])) \in Nat
        BY <1>1, OperandSums DEF Summed
      <4> QED BY <4>1 DEF Ins, Pairs, Greater
    <3>5. Within(b, {"r", "in"}, count_r + q) <=> count_r + q < Ins(image[1])
      <4>1. count_r + q \in Nat
        BY <1>2, <1>4
      <4> QED BY <3>3, <3>4, <4>1 DEF Within
    <3> QED BY SMTT(60), <1>3, <2>2, <3>1, <3>2, <3>5 DEF F, q, A, top
  <2> QED BY <1>1, <2>1, <2>2

\* A step that reads an operand.
LEMMA ReadStep ==
    ASSUME BlocksInv, pass = "read", todo # <<>>, NEW o, o = Head(todo),
           handle_reg_read(o) \/ handle_mem_read(o)
    PROVE  BlocksInv'
<1> DEFINE k == Handled + 1
           q == IF o.cls = "mem" THEN o.n - 1 ELSE 0
           b == Inputs(o)
           ok == InRange(b) /\ Within(b, {"r", "in"}, count_r + q)
<1>1. /\ o.rd
      /\ \/ /\ ok
            /\ blocks' = b /\ count_r' = count_r + o.n /\ todo' = Tail(todo)
            /\ UNCHANGED <<image, tc, pass, count_l, PG>>
         \/ ~ok /\ pass' = "failed" /\ UNCHANGED <<image, tc>>
  <2>1. count_r \in Nat /\ o.n \in Nat
    BY Zenon, BeforeRead, ThisOperand
  <2>2. CASE handle_reg_read(o)
    <3>1. count_r + q = count_r
      BY <2>1, <2>2 DEF handle_reg_read
    <3>2. b = IF isInit THEN InputBlocks(blocks, o.n) ELSE blocks
      BY SMTT(60), <2>2 DEF handle_reg_read, isInit, Inputs
    <3> HIDE DEF b, q
    <3> QED BY <2>2, <3>1, <3>2 DEF handle_reg_read, Unless
  <2>3. CASE handle_mem_read(o)
    <3>1. count_r + q = count_r + o.n - 1
      BY Zenon, <2>1, <2>3 DEF handle_mem_read
    <3>2. b = IF isInit THEN InputBlocks(blocks, o.n)
              ELSE [r |-> blocks.r, rbak |-> blocks.rbak, in |-> blocks.in, l |-> blocks.l,
                    out |-> blocks.out, next |-> blocks.next + 3 * o.n]
      BY <2>3 DEF handle_mem_read, isInit, Inputs
    <3> HIDE DEF b, q
    <3> QED BY ZenonT(60), <2>3, <3>1, <3>2 DEF handle_mem_read, Unless
  <2> QED BY <2>2, <2>3
<1>2. k = Handled + 1 /\ q = (IF o.cls = "mem" THEN o.n - 1 ELSE 0)
  OBVIOUS
<1>3. b = Inputs(o)
  OBVIOUS
<1> HIDE DEF k, b
<1>4. /\ Fresh(b)
      /\ tc = 1 => Making(b, Sums(Reads(insn))[k], 0)
      /\ tc > 1 => Settled(b) /\ b.next = After(tc - 1) + 3 * Sums(Fetches(insn))[k]
      /\ b.next <= High + Made(image[1]) + Total(Again(image))
      /\ Within(b, {"r", "in"}, count_r + q) <=> ReadFits(insn, k, image[1])
  BY ZenonT(60), <1>1, <1>2, <1>3, Input
<1> HIDE DEF q
<1>5. /\ Sums(Reads(insn))[k] = count_r + o.n /\ PG = 1
      /\ k \in 1..Len(operands(insn)) /\ b.next \in Int
  <2>1. Sums(Reads(insn))[k] = count_r + (IF o.rd THEN o.n ELSE 0) /\ PG = 1
    BY Zenon, <1>2, BeforeRead
  <2>2. k \in 1..Len(operands(insn))
    BY Zenon, <1>2, ThisOperand
  <2>3. b.next \in Int
    BY Zenon, <1>4, Named DEF Fresh
  <2> QED BY Zenon, <1>1, <2>1, <2>2, <2>3
<1>6. InRange(b) <=> b.next <= High + Words
  BY <1>5 DEF InRange
<1>7. CASE pass' = "failed"
  <2>1. ~ok /\ UNCHANGED <<image, tc>>
    BY <1>1, <1>7
  <2>2. ~AllFit
    <3>1. CASE ~(b.next <= High + Words)
      BY <1>4, <1>5, <3>1, NoRoom, Instructions
    <3>2. CASE ~ReadFits(insn, k, image[1])
      BY <1>5, <3>2, NoFit
    <3> QED BY <1>4, <1>6, <2>1, <3>1, <3>2
  <2> QED BY <1>7, <2>1, <2>2, Fails
<1>8. CASE pass' # "failed"
  <2>1. /\ blocks' = b /\ count_r' = count_r + o.n /\ todo' = Tail(todo) /\ ok
        /\ UNCHANGED <<image, tc, pass, count_l, PG>>
    BY <1>1, <1>8
  <2>2. b.next <= High + Words /\ ReadFits(insn, k, image[1])
    BY <1>4, <1>6, <2>1
  <2> HIDE DEF ok
  <2> QED BY <1>2, <1>4, <1>5, <2>1, <2>2, AfterRead
<1> QED BY <1>7, <1>8

\* An operand that is not read.
LEMMA SkipRead ==
    ASSUME BlocksInv, pass = "read", todo # <<>>, NEW o, o = Head(todo), no_access(o)
    PROVE  BlocksInv'
<1> DEFINE k == Handled + 1
<1>1. /\ ~o.rd /\ todo' = Tail(todo) /\ blocks' = blocks /\ count_r' = count_r
      /\ UNCHANGED <<image, tc, pass, count_l, PG>>
  BY DEF no_access
<1>2. k = Handled + 1
  OBVIOUS
<1> HIDE DEF k
<1>3. /\ Fresh(blocks) /\ blocks.next <= High + Words
      /\ count_r \in Nat /\ Sums(Reads(insn))[k] = count_r
      /\ Sums(Fetches(insn))[k] = Sums(Fetches(insn))[k - 1]
      /\ tc = 1 => Making(blocks, count_r, 0)
      /\ tc > 1 => /\ Settled(blocks)
                   /\ blocks.next = After(tc - 1) + 3 * Sums(Fetches(insn))[k - 1]
  BY SMTT(60), <1>1, <1>2, BeforeRead
<1>4. ReadFits(insn, k, image[1])
  BY SMTT(60), <1>1, <1>2, ThisOperand DEF ReadFits
<1> QED BY <1>1, <1>2, <1>3, <1>4, AfterRead

-----------------------------------------------------------------------------
(* Outputs. *)

\* Where the outputs stand before the operand.
LEMMA BeforeWrite ==
    ASSUME BlocksInv, pass = "write", todo # <<>>, NEW k, k = Handled + 1,
           NEW o, o = Head(todo)
    PROVE  /\ PG = 1 /\ Fresh(blocks) /\ blocks.next <= High + Words
           /\ count_l \in Nat /\ count_l = Sums(Writes(insn))[k - 1]
           /\ count_r = Total(Reads(insn)) /\ count_r \in Nat
           /\ Sums(Writes(insn))[k] = count_l + (IF o.wr THEN o.n ELSE 0)
           /\ Sums(Writes(insn))[k] \in Nat /\ Total(Writes(insn)) \in Nat
           /\ Sums(Writes(insn))[k] <= Total(Writes(insn))
           /\ tc = 1 => Making(blocks, count_r, count_l)
           /\ tc > 1 => Looking(blocks, count_l)
<1>1. /\ Handled \in Nat /\ k \in 1..Len(operands(insn)) /\ k - 1 = Handled
      /\ o = operands(insn)[k] /\ Len(operands(insn)) \in Nat /\ insn \in Insn
  BY ThisOperand, Instructions
<1>2. k - 1 \in 0..Len(operands(insn)) /\ k \in 0..Len(operands(insn))
  BY <1>1
<1>3. Summed(Writes(insn), insn) /\ Summed(Reads(insn), insn)
  BY <1>1, OperandSums
<1>4. PG = 1 /\ Counted /\ Lengths(blocks) /\ Fresh(blocks) /\ blocks.next <= High + Words
  BY DEF BlocksInv, Going, Paged
<1>5. count_r = Total(Reads(insn)) /\ count_l = Sums(Writes(insn))[k - 1]
  BY <1>1, <1>4 DEF Counted
<1>6. Writes(insn)[k] = IF o.wr THEN o.n ELSE 0
  BY <1>1 DEF Writes
<1>7. /\ tc = 1 => Making(blocks, count_r, count_l)
      /\ tc > 1 => Looking(blocks, count_l)
  BY <1>4 DEF Lengths
<1>8. /\ Sums(Writes(insn))[k - 1] \in Nat /\ Sums(Writes(insn))[k] \in Nat
      /\ Sums(Writes(insn))[k] = Sums(Writes(insn))[k - 1] + Writes(insn)[k]
      /\ Sums(Writes(insn))[k] <= Total(Writes(insn)) /\ Total(Writes(insn)) \in Nat
      /\ Total(Reads(insn)) \in Nat
  BY <1>1, <1>2, <1>3 DEF Summed
<1> QED BY <1>4, <1>5, <1>6, <1>7, <1>8

\* The invariant after an output.
LEMMA AfterWrite ==
    ASSUME BlocksInv, pass = "write", todo # <<>>, NEW k, k = Handled + 1,
           todo' = Tail(todo), UNCHANGED <<image, tc, pass, PG, count_r>>,
           count_l' = Sums(Writes(insn))[k],
           Fresh(blocks'), blocks'.next <= High + Words,
           tc = 1 => Making(blocks', count_r, Sums(Writes(insn))[k]),
           tc > 1 => Looking(blocks', Sums(Writes(insn))[k]),
           WriteFits(insn, k, image[1])
    PROVE  BlocksInv'
<1>1. insn' = insn
  BY SMTT(60) DEF insn
<1>2. Handled' = k
  BY <1>1, ThisOperand DEF Handled
<1>3. count_r = Total(Reads(insn))
  BY BeforeWrite
<1>4. Counted'
  BY ZenonT(60), <1>1, <1>2, <1>3 DEF Counted
<1>5. Lengths(blocks)'
  BY <1>1, <1>2 DEF Lengths, Looking, Settled, After
<1> QED BY <1>4, <1>5, NextOperand

\* The blocks of an output in the first testcase.
LEMMA FirstOutput ==
    ASSUME NEW c, Fresh(c), NEW n \in Nat, NEW cr \in Nat, NEW cl \in Nat, Making(c, cr, cl),
           NEW w, w = cl + n, NEW e, e = OutputBlocks(c, n), NEW b, b = MoreR(e, w)
    PROVE  Fresh(b) /\ Making(b, cr, w)
<1> DEFINE q == Missing(e.r, w)
           m == Greater(cr, cl)
<1>1. /\ Fresh(e) /\ Len(e.r) = Len(c.r) /\ Len(e.rbak) = Len(c.rbak)
      /\ Len(e.l) = Len(c.l) + n /\ Len(e.in) = Len(c.in)
      /\ Len(e.out) = Len(c.out) + n /\ e.next = c.next + 2 * n
  BY OutputFresh
<1>2. w \in Nat /\ High \in Nat
  BY WordsAssumption
<1>3. b = MoreR(e, w) /\ q = Missing(e.r, w) /\ m = (IF cr > cl THEN cr ELSE cl)
  <2>1. m = (IF cr > cl THEN cr ELSE cl)
    BY DEF Greater
  <2> HIDE DEF m
  <2> QED BY <2>1
<1> HIDE DEF q
<1>4. /\ Fresh(b) /\ Len(b.r) = Len(e.r) + q /\ Len(b.rbak) = Len(e.rbak) + q
      /\ Len(b.l) = Len(e.l) /\ Len(b.in) = Len(e.in) + q
      /\ Len(b.out) = Len(e.out) /\ b.next = e.next + 3 * q
  <2>1. Fresh(e) /\ w \in Nat /\ b = MoreR(e, w) /\ q = Missing(e.r, w)
    BY <1>1, <1>2, <1>3
  <2> QED BY SMTT(60), <2>1, MoreRFresh
<1>5. /\ Len(c.r) = m /\ Len(c.rbak) = m /\ Len(c.in) = m /\ Len(c.l) = cl /\ Len(c.out) = cl
      /\ c.next = High + 1 + 3 * m + 2 * cl
  BY DEF Making
<1>6. q = IF w > m THEN w - m ELSE 0
  BY <1>1, <1>3, <1>5 DEF Missing
<1> HIDE DEF m
<1>7. m + q = Greater(cr, w) /\ m \in Nat /\ q \in Nat
  BY <1>2, <1>3, <1>6 DEF Greater
<1>8. /\ Len(b.r) = Greater(cr, w) /\ Len(b.rbak) = Greater(cr, w) /\ Len(b.in) = Greater(cr, w)
      /\ Len(b.l) = w /\ Len(b.out) = w
  BY <1>1, <1>4, <1>5, <1>7
<1>9. b.next = High + 1 + 3 * Greater(cr, w) + 2 * w
  <2>1. b.next = High + 1 + 3 * m + 2 * cl + 2 * n + 3 * q
    BY <1>1, <1>4, <1>5
  <2>2. High + 1 + 3 * m + 2 * cl + 2 * n + 3 * q = High + 1 + 3 * (m + q) + 2 * w
    BY <1>2, <1>7
  <2> QED BY <1>7, <2>1, <2>2
<1> QED BY <1>4, <1>8, <1>9 DEF Making

\* A later testcase keeps the lists, unless it needs more than there is.
LEMMA LaterOutput ==
    ASSUME BlocksInv, NEW c, Fresh(c), NEW cl \in Nat, NEW w \in Nat, w >= cl, Looking(c, cl),
           NEW b, b = MoreR(c, w)
    PROVE  /\ Fresh(b) /\ Looking(b, w)
           /\ w <= Pairs(image[1]) => b.next = c.next
<1> DEFINE q == Missing(c.r, w)
           P == Pairs(image[1])
<1>1. /\ Fresh(b) /\ Len(b.r) = Len(c.r) + q /\ Len(b.rbak) = Len(c.rbak) + q
      /\ Len(b.l) = Len(c.l) /\ Len(b.in) = Len(c.in) + q
      /\ Len(b.out) = Len(c.out) /\ b.next = c.next + 3 * q
  BY MoreRFresh
<1>2. Len(b.l) = P /\ Len(b.out) = Total(Writes(image[1]))
  BY <1>1 DEF Looking
<1>3. P \in Nat
  BY Zenon, Instructions, BlockCounts
<1>4. ASSUME w <= P
      PROVE  Settled(b) /\ b.next = After(tc) /\ b.next = c.next
  <2>1. cl <= Pairs(image[1])
    BY <1>3, <1>4
  <2>2. Settled(c) /\ c.next = After(tc)
    BY <2>1 DEF Looking
  <2>3. Len(c.r) = P
    BY <2>2 DEF Settled
  <2>4. q = 0
    BY <1>3, <1>4, <2>3 DEF Missing
  <2>5. c.next \in Int /\ Len(c.r) \in Nat /\ Len(c.rbak) \in Nat /\ Len(c.in) \in Nat
    BY Named DEF Fresh
  <2> HIDE DEF q
  <2>6. b.next = c.next /\ Len(b.r) = Len(c.r) /\ Len(b.rbak) = Len(c.rbak) /\ Len(b.in) = Len(c.in)
    <3>1. /\ b.next = c.next + 3 * 0 /\ Len(b.r) = Len(c.r) + 0
          /\ Len(b.rbak) = Len(c.rbak) + 0 /\ Len(b.in) = Len(c.in) + 0
      BY Zenon, <1>1, <2>4
    <3> QED BY <2>5, <3>1
  <2> QED BY <1>1, <2>2, <2>6 DEF Settled
<1> QED BY <1>1, <1>2, <1>4 DEF Looking

\* The blocks under an output, and when it finds them.
LEMMA Output ==
    ASSUME BlocksInv, pass = "write", todo # <<>>, NEW k, k = Handled + 1,
           NEW o, o = Head(todo), o.wr, NEW b, b = Outputs(o)
    PROVE  /\ Fresh(b)
           /\ tc = 1 => Making(b, count_r, Sums(Writes(insn))[k])
           /\ tc > 1 => Looking(b, Sums(Writes(insn))[k])
           /\ b.next > High + Words => ~AllFit
           /\ count_l + o.n <= Len(b.r)
           /\ count_l + o.n > Len(b.l) => ~AllFit
           /\ count_l + (IF o.cls = "mem" THEN o.n - 1 ELSE 0) < Len(b.out)
                 <=> WriteFits(insn, k, image[1])
<1> DEFINE q == IF o.cls = "mem" THEN o.n - 1 ELSE 0
           n == o.n
           W == Sums(Writes(insn))[k]
           V == Total(Writes(image[1]))
           P == Pairs(image[1])
<1>1. /\ n \in Nat \ {0} /\ k \in 1..Len(operands(insn)) /\ o = operands(insn)[k]
      /\ insn \in Insn /\ image[1] \in Insn /\ tc \in Nat /\ tc >= 1
      /\ High \in Nat /\ Words \in Nat
  <2>1. n \in Nat \ {0} /\ k \in 1..Len(operands(insn)) /\ o = operands(insn)[k]
    BY Zenon, ThisOperand
  <2>2. /\ insn \in Insn /\ image[1] \in Insn /\ tc \in Nat /\ tc \in 1..Len(image)
        /\ Len(image) \in Nat /\ High \in Nat /\ Words \in Nat
    BY Zenon, Instructions DEF BlocksInv
  <2> QED BY <2>1, <2>2
<1>2. /\ Fresh(blocks) /\ count_l \in Nat /\ W = count_l + n /\ W \in Nat
      /\ count_r = Total(Reads(insn)) /\ count_r \in Nat
      /\ W <= Total(Writes(insn)) /\ Total(Writes(insn)) \in Nat
      /\ blocks.next <= High + Words
      /\ tc = 1 => Making(blocks, count_r, count_l)
      /\ tc > 1 => Looking(blocks, count_l)
  BY BeforeWrite
<1>3. WriteFits(insn, k, image[1]) <=> count_l + q < V
  <2>1. LastAt(insn, k, Sums(Writes(insn))[k - 1]) = count_l + q
    BY SMTT(60), <1>1, BeforeWrite DEF LastAt
  <2> QED BY SMTT(60), <1>1, <2>1 DEF WriteFits
<1>4. q \in Nat /\ q < n
  BY <1>1
<1>5. P \in Nat /\ V \in Nat
  BY Zenon, <1>1, BlockCounts, OperandSums DEF Summed
<1>6. /\ tc = 1 => b = MoreR(OutputBlocks(blocks, n), W)
      /\ tc > 1 => b = MoreR(blocks, W)
  <2>1. b = MoreR(IF tc = 1 THEN OutputBlocks(blocks, n) ELSE blocks, count_l + n)
    BY Zenon DEF Outputs, isInit
  <2>2. count_l + n = W
    BY <1>2
  <2> HIDE DEF n, W
  <2>3. b = MoreR(IF tc = 1 THEN OutputBlocks(blocks, n) ELSE blocks, W)
    BY Zenon, <2>1, <2>2
  <2>4. tc > 1 => tc # 1
    BY <1>1
  <2> QED BY Zenon, <2>3, <2>4
<1>7. QED
  <2> HIDE DEF q, n, W, V, P
  <2>1. CASE tc = 1
    <3>1. insn = image[1]
      BY <2>1 DEF insn
    <3>2. Fresh(b) /\ Making(b, count_r, W)
      <4> DEFINE e == OutputBlocks(blocks, n)
      <4>1. e = OutputBlocks(blocks, n) /\ b = MoreR(e, W)
        BY <1>6, <2>1
      <4> HIDE DEF e
      <4> QED BY SMTT(60), <1>1, <1>2, <2>1, <4>1, FirstOutput
    <3>3. b.next > High + Words => ~AllFit
      <4>1. b.next \in Int /\ b.next <= High + Made(image[1]) + Total(Again(image))
        BY <1>2, <3>1, <3>2, FirstBelow
      <4> QED BY <4>1, NoRoom
    <3>4. WriteFits(insn, k, image[1])
      BY <1>1, <3>1, FitsItself
    <3>5. Len(b.l) = W /\ Len(b.out) = W /\ Len(b.r) = Greater(count_r, W)
      BY <3>2 DEF Making
    <3>6. count_l + q < W /\ W <= Greater(count_r, W) /\ ~(W > W)
      BY <1>1, <1>2, <1>4 DEF Greater
    <3>7. /\ count_l + n <= Len(b.r) /\ ~(count_l + n > Len(b.l)) /\ count_l + q < Len(b.out)
      BY SMTT(60), <1>2, <3>5, <3>6
    <3> QED BY <2>1, <3>2, <3>3, <3>4, <3>7 DEF W, q, n
  <2>2. CASE tc > 1
    <3>1. W >= count_l
      BY <1>1, <1>2
    <3>2. /\ Fresh(b) /\ Looking(b, W) /\ (W <= P => b.next = blocks.next)
      BY SMTT(60), <1>2, <1>6, <2>2, <3>1, LaterOutput DEF P
    <3>3. W > P => ~AllFit
      <4>1. W > P => ~(Total(Writes(insn)) + 2 <= P)
        BY <1>2, <1>5
      <4> QED BY <4>1, NoFit DEF P
    <3>4. b.next > High + Words => ~AllFit
      <4>1. blocks.next \in Int
        BY <1>2, Named DEF Fresh
      <4>2. P \in Nat /\ W \in Nat /\ blocks.next <= High + Words
        BY Zenon, <1>2, <1>5
      <4>3. W <= P => b.next = blocks.next
        BY Zenon, <3>2
      <4>4. W <= P => ~(b.next > High + Words)
        <5>1. High \in Nat /\ Words \in Nat
          BY Zenon, <1>1
        <5> QED BY <4>1, <4>2, <4>3, <5>1
      <4>5. W > P \/ W <= P
        BY <4>2
      <4> QED BY Zenon, <3>3, <4>4, <4>5
    <3>5. Len(b.l) = P /\ Len(b.out) = V
      BY <3>2 DEF Looking, P, V
    <3>6. W <= Len(b.r)
      <4>1. Len(blocks.r) \in Nat /\ Len(b.r) = Len(blocks.r) + Missing(blocks.r, W)
        <5>1. Len(blocks.r) \in Nat
          BY SMTT(60), <1>2, Named DEF Fresh
        <5> QED BY SMTT(60), <1>2, <1>6, <2>2, <5>1, MoreRFresh
      <4> QED BY <1>2, <4>1 DEF Missing
    <3> QED BY SMTT(60), <1>2, <1>3, <2>2, <3>2, <3>3, <3>4, <3>5, <3>6 DEF W, q, n
  <2> QED BY <1>1, <2>1, <2>2

=============================================================================
