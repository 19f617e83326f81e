---------------------------- MODULE BlocksProofs ----------------------------
(***************************************************************************)
(* Proof that FeistelBlocks keeps BlocksFit: every step of the generator   *)
(* preserves BlocksInv, and at the end of the image BlocksInv gives        *)
(* BlocksFit.                                                              *)
(***************************************************************************)
EXTENDS OperandProofs

-----------------------------------------------------------------------------
(* The steps. *)

\* A step that writes an operand.
LEMMA WriteStep ==
    ASSUME BlocksInv, pass = "write", todo # <<>>, NEW o, o = Head(todo),
           handle_reg_write(o) \/ handle_mem_write(o)
    PROVE  BlocksInv'
<1> DEFINE k == Handled + 1
           q == IF o.cls = "mem" THEN o.n - 1 ELSE 0
           b == Outputs(o)
<1>1. k = Handled + 1 /\ q = (IF o.cls = "mem" THEN o.n - 1 ELSE 0) /\ b = Outputs(o)
  OBVIOUS
<1>2. o.wr
  <2>1. handle_reg_write(o) => o.wr
    BY DEF handle_reg_write
  <2>2. handle_mem_write(o) => o.wr
    BY DEF handle_mem_write
  <2> QED BY <2>1, <2>2
<1> HIDE DEF k, b
<1>3. /\ Fresh(b)
      /\ tc = 1 => Making(b, count_r, Sums(Writes(insn))[k])
      /\ tc > 1 => Looking(b, Sums(Writes(insn))[k])
      /\ b.next > High + Words => ~AllFit
      /\ count_l + o.n <= Len(b.r)
      /\ count_l + o.n > Len(b.l) => ~AllFit
      /\ count_l + q < Len(b.out) <=> WriteFits(insn, k, image[1])
  BY <1>1, <1>2, Output
<1> HIDE DEF q
<1>4. /\ Sums(Writes(insn))[k] = count_l + o.n /\ PG = 1 /\ count_l \in Nat
      /\ k \in 1..Len(operands(insn)) /\ o.n \in Nat \ {0} /\ High \in Nat /\ Words \in Nat
  BY ZenonT(60), <1>1, <1>2, BeforeWrite, ThisOperand, Instructions
<1>5. /\ b["l"] = b.l /\ b["r"] = b.r /\ b["out"] = b.out /\ b.next \in Int
      /\ Len(b.l) \in Nat /\ Len(b.r) \in Nat /\ Len(b.out) \in Nat
  BY <1>3, Named DEF Fresh
<1>6. InRange(b) <=> ~(b.next > High + Words)
  BY <1>4, <1>5 DEF InRange
<1>7. ~WriteFits(insn, k, image[1]) => ~AllFit
  BY <1>4, NoFit
<1> DEFINE good == /\ blocks' = b /\ count_l' = count_l + o.n /\ todo' = Tail(todo)
                   /\ UNCHANGED <<image, tc, pass, count_r, PG>>
                   /\ InRange(b) /\ count_l + q < Len(b.out)
           bad == pass' = "failed" /\ UNCHANGED <<image, tc>> /\ ~AllFit
<1>8. ASSUME handle_reg_write(o)
      PROVE  good \/ bad
  <2> DEFINE J == IF o.cls = "st" THEN 0..(o.n - 1) ELSE {0}
             ok == /\ InRange(b) /\ Within(b, {"l", "out"}, count_l)
                   /\ \A j \in J : Within(b, {"l", "r"}, count_l + j)
  <2>1. count_l + q = count_l
    BY <1>1, <1>4, <1>8 DEF handle_reg_write
  <2>2. ok => count_l + q < Len(b.out)
    BY <1>5, <2>1 DEF Within
  <2>3. ~ok => ~AllFit
    <3>1. CASE ~InRange(b)
      BY <1>3, <1>6, <3>1
    <3>2. CASE ~Within(b, {"l", "out"}, count_l)
      BY <1>3, <1>4, <1>5, <1>7, <2>1, <3>2 DEF Within
    <3>3. ASSUME NEW j \in J, ~Within(b, {"l", "r"}, count_l + j)
          PROVE  ~AllFit
      <4>1. j \in Nat /\ j < o.n
        BY <1>4
      <4> QED BY SMTT(60), <1>3, <1>4, <1>5, <3>3, <4>1 DEF Within
    <3> QED BY <3>1, <3>2, <3>3
  <2>4. Unless(ok, /\ blocks' = b
                   /\ count_l' = count_l + o.n
                   /\ todo' = Tail(todo)
                   /\ UNCHANGED <<image, tc, pass, count_r, PG>>)
    BY <1>1, <1>8 DEF handle_reg_write, Unless
  <2> QED BY <2>2, <2>3, <2>4 DEF Unless
<1>9. ASSUME handle_mem_write(o)
      PROVE  good \/ bad
  <2> DEFINE ok == InRange(b) /\ Within(b, {"l", "out", "r"}, count_l + o.n - 1)
  <2>1. count_l + q = count_l + o.n - 1
    BY <1>1, <1>4, <1>9 DEF handle_mem_write
  <2>2. ok => count_l + q < Len(b.out)
    BY <1>5, <2>1 DEF Within
  <2>3. ~ok => ~AllFit
    <3>1. CASE ~InRange(b)
      BY <1>3, <1>6, <3>1
    <3>2. CASE ~Within(b, {"l", "out", "r"}, count_l + o.n - 1)
      BY SMTT(60), <1>3, <1>4, <1>5, <1>7, <2>1, <3>2 DEF Within
    <3> QED BY <3>1, <3>2
  <2>4. Unless(ok, /\ blocks' = b
                   /\ count_l' = count_l + o.n
                   /\ todo' = Tail(todo)
                   /\ UNCHANGED <<image, tc, pass, count_r, PG>>)
    BY <1>1, <1>9 DEF handle_mem_write, Unless
  <2> QED BY <2>2, <2>3, <2>4 DEF Unless
<1>10. CASE bad
  BY <1>10, Fails
<1>11. CASE good
  <2>1. b.next <= High + Words
    BY SMTT(60), <1>4, <1>5, <1>6, <1>11
  <2> QED BY SMTT(60), <1>1, <1>3, <1>4, <1>11, <2>1, AfterWrite
<1> QED BY <1>8, <1>9, <1>10, <1>11

\* An operand that is not written.
LEMMA SkipWrite ==
    ASSUME BlocksInv, pass = "write", todo # <<>>, NEW o, o = Head(todo), no_access(o)
    PROVE  BlocksInv'
<1> DEFINE k == Handled + 1
<1>1. /\ ~o.wr /\ todo' = Tail(todo) /\ blocks' = blocks /\ count_l' = count_l
      /\ UNCHANGED <<image, tc, pass, count_r, PG>>
  BY DEF no_access
<1>2. k = Handled + 1
  OBVIOUS
<1> HIDE DEF k
<1>3. /\ Fresh(blocks) /\ blocks.next <= High + Words
      /\ count_l \in Nat /\ Sums(Writes(insn))[k] = count_l
      /\ tc = 1 => Making(blocks, count_r, count_l)
      /\ tc > 1 => Looking(blocks, count_l)
  BY <1>1, <1>2, BeforeWrite
<1>4. WriteFits(insn, k, image[1])
  BY <1>1, <1>2, ThisOperand DEF WriteFits
<1> QED BY <1>1, <1>2, <1>3, <1>4, AfterWrite

-----------------------------------------------------------------------------
(* Between the operands. *)

\* From the inputs to the outputs.
LEMMA OutputsNext ==
    ASSUME BlocksInv, pass = "read", todo = <<>>, pass' = "write",
           todo' = operands(insn), UNCHANGED <<image, tc, blocks, count_r, count_l, PG>>
    PROVE  BlocksInv'
<1>1. /\ PG = 1 /\ Counted /\ Lengths(blocks) /\ Fresh(blocks) /\ Found
      /\ blocks.next <= High + Words
  BY DEF BlocksInv, Going, Paged
<1>2. insn \in Insn /\ insn' = insn /\ tc \in Nat /\ Len(operands(insn)) \in Nat
  BY Instructions, OperandSums DEF insn
<1>3. Handled = Len(operands(insn)) /\ Handled' = 0
  BY <1>2 DEF Handled
<1>4. Summed(Reads(insn), insn) /\ Summed(Writes(insn), insn) /\ Summed(Fetches(insn), insn)
  BY <1>2, OperandSums
<1>5. count_l = 0 /\ count_r = Total(Reads(insn))
  BY <1>1, <1>3, <1>4 DEF Counted, Summed
<1>6. Counted'
  BY <1>2, <1>3, <1>4, <1>5 DEF Counted, Summed
<1>7. Remaining'
  BY <1>2, <1>3, OperandsTyped DEF Remaining
<1>8. Found'
  BY <1>1, <1>2, <1>3 DEF Found
<1>9. Lengths(blocks)'
  <2>1. CASE tc = 1
    BY SMTT(60), <1>1, <2>1 DEF Lengths, Making
  <2>2. CASE tc > 1
    <3>1. Settled(blocks) /\ blocks.next = After(tc - 1) + 3 * Total(Fetches(insn))
      BY <1>1, <1>3, <1>4, <2>2 DEF Lengths, Summed
    <3>2. tc \in 2..Len(image) /\ tc - 1 \in 1..Len(image)
      BY SMTT(60), <2>2, Instructions DEF BlocksInv
    <3>3. /\ Sums(Again(image))[tc] = Sums(Again(image))[tc - 1] + 3 * Total(Fetches(insn))
          /\ Sums(Again(image))[tc] \in Nat /\ Sums(Again(image))[tc - 1] \in Nat
          /\ Total(Fetches(insn)) \in Nat
      BY Zenon, <1>4, <3>2, AgainSums DEF BlocksInv, insn, Summed
    <3>4. Made(image[1]) \in Nat /\ High \in Nat
      BY ZenonT(60), BlockCounts, Instructions
    <3>5. blocks.next = After(tc)
      BY <3>1, <3>3, <3>4 DEF After
    <3>6. Looking(blocks, count_l)
      BY <3>1, <3>5 DEF Looking, Settled
    <3> QED BY <1>1, <2>2, <3>6 DEF Lengths, Looking, Settled, After
  <2> QED BY <1>2, <2>1, <2>2 DEF BlocksInv
<1>10. Paged' = blocks'
  BY <1>1 DEF Paged
<1>11. Lengths(Paged)'
  BY <1>9, <1>10 DEF Lengths, Making, Settled, Looking, After
<1>12. Going'
  BY <1>1, <1>6, <1>7, <1>8, <1>10, <1>11 DEF Going
<1> QED BY <1>12 DEF BlocksInv

\* From the outputs to the rest of gen_root.
LEMMA RestNext ==
    ASSUME BlocksInv, pass = "write", todo = <<>>, pass' = "rest",
           UNCHANGED <<image, tc, blocks, count_r, count_l, PG>>
    PROVE  BlocksInv'
<1>1. /\ PG = 1 /\ Counted /\ Lengths(blocks) /\ Fresh(blocks) /\ Found
      /\ blocks.next <= High + Words
  BY DEF BlocksInv, Going, Paged
<1>2. insn \in Insn /\ insn' = insn /\ tc \in Nat /\ Len(operands(insn)) \in Nat
  BY Instructions, OperandSums DEF insn
<1>3. Handled = Len(operands(insn))
  BY <1>2 DEF Handled
<1>4. Summed(Writes(insn), insn)
  BY <1>2, OperandSums
<1>5. Counted'
  BY Zenon, <1>1, <1>2, <1>3, <1>4 DEF Counted, Summed
<1>6. Remaining' /\ Found'
  BY <1>1, <1>2, <1>3 DEF Remaining, Found
<1>7. Paged' = blocks' /\ Paged = blocks
  BY <1>1 DEF Paged
<1>8. Lengths(Paged)'
  BY <1>1, <1>7 DEF Lengths, Making, Settled, Looking, After
<1>9. Going'
  BY <1>1, <1>5, <1>6, <1>7, <1>8 DEF Going
<1> QED BY <1>9 DEF BlocksInv

\* The state after gen_root.
LEMMA AfterRoot ==
    ASSUME BlocksInv, pass = "rest", NEW b, blocks' = b, count_r' = 0, count_l' = 0,
           pass' = "param", UNCHANGED <<image, tc, PG>>,
           Fresh(b), Settled(b), b.next = After(tc), b.next <= High + Words,
           Total(Writes(insn)) + 2 <= Pairs(image[1]), Total(Reads(insn)) <= Pairs(image[1])
    PROVE  BlocksInv'
<1>1. PG = 1 /\ Found
  BY DEF BlocksInv, Going
<1>2. insn' = insn
  BY DEF insn
<1>3. Paged' = b
  BY <1>1 DEF Paged
<1>4. Counted' /\ Remaining'
  BY DEF Counted, Remaining
<1>5. Lengths(Paged)'
  BY <1>3 DEF Lengths, Settled, After
<1>6. Fits(insn, image[1])
  BY <1>1 DEF Found, Fits, ReadFits, WriteFits
<1>7. Found'
  BY <1>1, <1>2, <1>6 DEF Found
<1>8. Going'
  BY <1>1, <1>3, <1>4, <1>5, <1>7 DEF Going
<1> QED BY <1>8 DEF BlocksInv

\* The rest of gen_root in the first testcase, which gives every list its length.
LEMMA FirstRoot ==
    ASSUME BlocksInv, pass = "rest", tc = 1, NEW b, b = MoreL(EcptBlocks(blocks))
    PROVE  Fresh(b) /\ Settled(b) /\ b.next = After(1)
<1> DEFINE e == EcptBlocks(blocks)
           p == Missing(blocks.r, Len(blocks.l) + 2)
           q == Missing(e.l, Len(e.r))
           R == Total(Reads(image[1]))
           W == Total(Writes(image[1]))
<1>1. image[1] \in Insn /\ High \in Nat /\ insn = image[1]
  BY Instructions DEF insn
<1>2. Fresh(blocks) /\ Making(blocks, R, W)
  <2>1. Going /\ PG = 1 /\ Paged = blocks
    BY DEF BlocksInv, Going, Paged
  <2> QED BY <1>1, <2>1 DEF Going, Counted, Lengths
<1>3. R \in Nat /\ W \in Nat
  BY <1>1, OperandSums DEF Summed
<1>4. /\ Pairs(image[1]) = Greater(R, W + 2) /\ Ins(image[1]) = Greater(R, W)
      /\ Made(image[1]) = 1 + 3 * Pairs(image[1]) + Ins(image[1]) + W
  BY <1>1, BlockCounts
<1> HIDE DEF R, W
<1>5. /\ Fresh(e) /\ Len(e.r) = Len(blocks.r) + p /\ Len(e.rbak) = Len(blocks.rbak) + p
      /\ Len(e.l) = Len(blocks.l) + 2 /\ Len(e.in) = Len(blocks.in)
      /\ Len(e.out) = Len(blocks.out) /\ e.next = blocks.next + 2 + 2 * p
  BY <1>2, EcptFresh
<1>6. b = MoreL(e)
  OBVIOUS
<1> HIDE DEF e
<1>7. /\ Fresh(b) /\ Len(b.r) = Len(e.r) /\ Len(b.rbak) = Len(e.rbak)
      /\ Len(b.l) = Len(e.l) + q /\ Len(b.in) = Len(e.in)
      /\ Len(b.out) = Len(e.out) /\ b.next = e.next + q
  BY <1>5, <1>6, MoreLFresh
<1>8. p = (IF W + 2 > Greater(R, W) THEN W + 2 - Greater(R, W) ELSE 0)
  BY <1>2 DEF Making, Missing
<1>9. Len(e.r) = Greater(R, W + 2) /\ p = Greater(R, W + 2) - Greater(R, W)
  BY SMTT(60), <1>2, <1>3, <1>5, <1>8 DEF Making, Greater
<1>10. q = Greater(R, W + 2) - (W + 2)
  BY SMTT(60), <1>2, <1>3, <1>5, <1>9 DEF Making, Missing, Greater
<1> HIDE DEF p, q
<1>11. Settled(b)
  <2>1. Len(e.rbak) = Len(e.r)
    BY <1>2, <1>5 DEF Making
  <2>2. Len(b.l) = Greater(R, W + 2)
    BY SMTT(60), <1>2, <1>3, <1>5, <1>7, <1>10 DEF Making, Greater
  <2> QED BY ZenonT(60), <1>2, <1>4, <1>5, <1>7, <1>9, <2>1, <2>2 DEF Making, Settled, W
<1>12. b.next = High + Made(image[1])
  <2> DEFINE P == Greater(R, W + 2)
             I == Greater(R, W)
  <2>1. P \in Nat /\ I \in Nat
    BY <1>3 DEF Greater
  <2>2. blocks.next = High + 1 + 3 * I + 2 * W
    BY <1>2 DEF Making
  <2>3. p = P - I /\ q = P - (W + 2) /\ Made(image[1]) = 1 + 3 * P + I + W
    BY <1>4, <1>9, <1>10
  <2> HIDE DEF P, I
  <2> QED BY SMTT(60), <1>1, <1>3, <1>5, <1>7, <2>1, <2>2, <2>3
<1>13. Sums(Again(image))[1] = 0 /\ Made(image[1]) \in Nat
  BY <1>1, AgainSums, BlockCounts DEF BlocksInv
<1> QED BY <1>1, <1>7, <1>11, <1>12, <1>13 DEF After

\* The rest of gen_root.
LEMMA RootStep ==
    ASSUME BlocksInv, gen_root
    PROVE  BlocksInv'
<1> DEFINE e == IF isInit THEN EcptBlocks(blocks) ELSE blocks
           b == IF isInit THEN MoreL(e) ELSE e
           K == {count_l, count_l + 1} \cup (count_l + 2)..(count_r - 1)
           P == Pairs(image[1])
           ok == /\ InRange(b)
                 /\ \A k \in K : Within(b, {"l", "r"}, k)
                 /\ Len(b.r) <= Len(b.rbak) /\ Len(b.rbak) <= Len(b.l)
<1>1. /\ pass = "rest"
      /\ \/ /\ ok
            /\ blocks' = b /\ count_r' = 0 /\ count_l' = 0 /\ pass' = "param"
            /\ UNCHANGED <<image, tc, PG>>
         \/ ~ok /\ pass' = "failed" /\ UNCHANGED <<image, tc>>
  BY DEF gen_root, Unless
<1>2. /\ image[1] \in Insn /\ insn \in Insn /\ High \in Nat /\ Words \in Nat
      /\ tc \in Nat /\ tc >= 1
  BY Instructions DEF BlocksInv
<1>3. P \in Nat /\ Total(Writes(insn)) \in Nat /\ Total(Reads(insn)) \in Nat
  BY ZenonT(60), <1>2, BlockCounts, OperandSums DEF Summed
<1>4. /\ PG = 1 /\ Fresh(blocks) /\ blocks.next <= High + Words
      /\ count_r = Total(Reads(insn)) /\ count_l = Total(Writes(insn))
      /\ tc > 1 => Looking(blocks, count_l)
  <2>1. Going /\ PG = 1 /\ Paged = blocks
    BY <1>1 DEF BlocksInv, Going, Paged
  <2> QED BY <1>1, <2>1 DEF Going, Counted, Lengths
<1>5. /\ tc = 1 => b = MoreL(EcptBlocks(blocks))
      /\ tc > 1 => b = blocks
  BY <1>2 DEF isInit
<1> HIDE DEF b, e, P
<1>6. /\ tc = 1 => Settled(b) /\ b.next = After(tc)
      /\ tc > 1 => Looking(b, count_l) /\ b.next <= High + Words
      /\ Fresh(b)
  BY <1>1, <1>2, <1>4, <1>5, FirstRoot
<1>7. /\ b["l"] = b.l /\ b["r"] = b.r /\ b.next \in Int
      /\ Len(b.l) \in Nat /\ Len(b.r) \in Nat /\ Len(b.rbak) \in Nat
  BY <1>6, Named DEF Fresh
<1>8. Len(b.l) = P
  BY <1>2, <1>6 DEF Settled, Looking, P
<1>9. InRange(b) <=> b.next <= High + Words
  BY <1>4, <1>7 DEF InRange
<1>10. ASSUME count_l + 2 <= P
       PROVE  Settled(b) /\ b.next = After(tc)
  BY SMTT(60), <1>2, <1>3, <1>4, <1>6, <1>10 DEF Looking, P
<1>11. (\A k \in K : Within(b, {"l", "r"}, k)) => count_l + 2 <= P /\ count_r <= P
  <2> SUFFICES ASSUME \A k \in K : Within(b, {"l", "r"}, k)
               PROVE  count_l + 2 <= P /\ count_r <= P
    OBVIOUS
  <2>1. \A k \in K : k < P
    BY <1>7, <1>8 DEF Within
  <2>2. count_l + 1 < P
    BY <2>1
  <2>3. count_r - 1 >= count_l + 2 => count_r - 1 < P
    BY <1>3, <1>4, <2>1
  <2> QED BY <1>3, <1>4, <2>2, <2>3
<1>12. ASSUME count_l + 2 <= P, count_r <= P
       PROVE  \A k \in K : Within(b, {"l", "r"}, k)
  <2>1. Len(b.r) = P
    BY <1>10, <1>12 DEF Settled, P
  <2>2. \A k \in K : k < P
    BY <1>3, <1>4, <1>12
  <2> QED BY <1>7, <1>8, <2>1, <2>2 DEF Within
<1>13. Settled(b) => Len(b.r) <= Len(b.rbak) /\ Len(b.rbak) <= Len(b.l)
  BY <1>7 DEF Settled
<1>14. ASSUME ~(b.next <= High + Words)
       PROVE  ~AllFit
  <2>1. tc = 1 /\ b.next = After(1)
    BY <1>2, <1>6, <1>14
  <2>2. b.next <= High + Made(image[1]) + Total(Again(image))
    <3>1. Sums(Again(image))[1] = 0 /\ Total(Again(image)) \in Nat
      BY AgainSums DEF BlocksInv
    <3>2. Made(image[1]) \in Nat
      BY <1>2, BlockCounts
    <3> QED BY <1>2, <2>1, <3>1, <3>2 DEF After
  <2> QED BY <1>2, <1>7, <1>14, <2>2, NoRoom
<1> HIDE DEF K
<1>15. CASE pass' = "failed"
  <2>1. ~ok /\ UNCHANGED <<image, tc>>
    BY <1>1, <1>15
  <2>2. \/ ~(b.next <= High + Words)
        \/ ~(count_l + 2 <= P)
        \/ ~(count_r <= P)
    BY <1>9, <1>10, <1>12, <1>13, <2>1
  <2>3. ~AllFit
    BY SMTT(60), <1>4, <1>14, <2>2, NoFit DEF P
  <2> QED BY <1>15, <2>1, <2>3, Fails
<1>16. CASE pass' # "failed"
  <2>1. /\ blocks' = b /\ count_r' = 0 /\ count_l' = 0 /\ pass' = "param" /\ ok
        /\ UNCHANGED <<image, tc, PG>>
    BY <1>1, <1>16
  <2>2. count_l + 2 <= P /\ count_r <= P /\ b.next <= High + Words
    BY <1>9, <1>11, <2>1
  <2>3. Settled(b) /\ b.next = After(tc)
    BY <1>10, <2>2
  <2> HIDE DEF ok
  <2> QED BY ZenonT(60), <1>1, <1>4, <1>6, <2>1, <2>2, <2>3, AfterRoot DEF P
<1> QED BY SMTT(60), <1>15, <1>16

\* Paging off: the addresses are those for paging on after flipping them back.
LEMMA CregStep ==
    ASSUME BlocksInv, gen_set_creg
    PROVE  BlocksInv'
<1>1. /\ pass = "param" /\ pass' = "param" /\ PG = 1 /\ PG' = 0
      /\ blocks' = flip_addrs(blocks)
      /\ UNCHANGED <<image, tc, todo, count_r, count_l>>
  BY DEF gen_set_creg
<1>2. Going
  BY <1>1 DEF BlocksInv
<1>3. Paged = blocks
  BY <1>1 DEF Paged
<1>4. Paged' = Paged
  BY <1>1, <1>2, <1>3, FlipTwice DEF Paged, Going
<1>5. insn' = insn
  BY Zenon, <1>1 DEF insn
<1>6. Counted' /\ Remaining' /\ Found'
  BY SMTT(60), <1>1, <1>2, <1>5 DEF Going, Counted, Remaining, Found
<1>7. Lengths(Paged)'
  BY <1>1, <1>2, <1>4 DEF Going, Lengths, Settled, After
<1>8. Going'
  BY <1>1, <1>2, <1>4, <1>6, <1>7 DEF Going
<1> QED BY <1>1, <1>8 DEF BlocksInv

\* The next testcase, or the end.
LEMMA TestcaseStep ==
    ASSUME BlocksInv, next_testcase
    PROVE  BlocksInv'
<1>1. /\ pass = "param" /\ PG' = 1 /\ blocks' = flip_back(blocks)
      /\ \/ tc < Len(image) /\ tc' = tc + 1 /\ pass' = "read" /\ todo' = operands(image[tc + 1])
         \/ tc = Len(image) /\ pass' = "done" /\ UNCHANGED <<tc, todo>>
      /\ UNCHANGED <<image, count_r, count_l>>
  BY DEF next_testcase
<1>2. Going
  BY <1>1 DEF BlocksInv
<1>3. Paged' = Paged /\ blocks' = Paged
  BY SMTT(60), <1>1, <1>2 DEF Paged, flip_back
<1>4. /\ Fresh(Paged) /\ Paged.next <= High + Words /\ count_r = 0 /\ count_l = 0
      /\ Settled(Paged) /\ Paged.next = After(tc)
      /\ Fits(insn, image[1]) /\ \A t \in 1..(tc - 1) : Fits(image[t], image[1])
  BY <1>1, <1>2 DEF Going, Counted, Lengths, Found
<1>5. tc \in 1..Len(image) /\ tc \in Nat /\ Len(image) \in Nat /\ image \in Images
  BY Instructions DEF BlocksInv
<1>6. CASE pass' = "done"
  <2>1. tc' = tc /\ tc = Len(image) /\ insn' = insn
    BY <1>1, <1>6 DEF insn
  <2>2. Counted' /\ Remaining' /\ Found'
    BY Zenon, <1>1, <1>4, <1>6, <2>1 DEF Counted, Remaining, Found
  <2>3. Lengths(Paged)'
    BY SMTT(60), <1>1, <1>3, <1>4, <1>6, <2>1 DEF Lengths, Settled, After
  <2>4. Going'
    BY ZenonT(60), <1>1, <1>3, <1>4, <1>6, <2>1, <2>2, <2>3 DEF Going
  <2> QED BY <1>1, <1>5, <1>6, <2>1, <2>4 DEF BlocksInv
<1>7. CASE pass' = "read"
  <2> DEFINE t == tc + 1
  <2>1. /\ tc' = t /\ t \in 1..Len(image) /\ t > 1 /\ t - 1 = tc /\ t \in Nat
        /\ todo' = operands(image[t])
    BY SMTT(60), <1>1, <1>5, <1>7
  <2> HIDE DEF t
  <2>2. insn' = image[t] /\ image[t] \in Insn
    BY Zenon, <1>1, <1>5, <2>1, AgainSums DEF insn
  <2>3. /\ operands(image[t]) \in Seq(Operand) /\ Len(operands(image[t])) \in Nat
        /\ Sums(Reads(image[t]))[0] = 0 /\ Sums(Fetches(image[t]))[0] = 0
    BY <2>2, OperandsTyped, OperandSums DEF Summed
  <2>4. Handled' = 0
    BY SMTT(60), <2>1, <2>2, <2>3 DEF Handled
  <2>5. Counted'
    BY Zenon, <1>1, <1>4, <1>7, <2>2, <2>3, <2>4 DEF Counted
  <2>6. Remaining'
    BY SMTT(60), <1>7, <2>1, <2>2, <2>3, <2>4 DEF Remaining
  <2>7. Found'
    <3>1. \A x \in 1..(t - 1) : x \in 1..(tc - 1) \/ x = tc
      BY <1>5, <2>1
    <3>2. \A x \in 1..(t - 1) : Fits(image[x], image[1])
      BY ZenonT(60), <1>4, <3>1 DEF insn
    <3> QED BY SMTT(60), <1>1, <1>7, <2>1, <2>4, <3>2 DEF Found
  <2>8. Lengths(Paged)'
    <3>1. After(tc) \in Int
      BY <1>4, Named DEF Fresh
    <3>2. Paged.next = After(tc) + 3 * 0
      BY <1>4, <3>1
    <3>3. Settled(Paged)' /\ Paged'.next = After(tc) + 3 * 0
      BY Zenon, <1>1, <1>3, <1>4, <3>2 DEF Settled
    <3>4. After(tc - 1)' = After(tc)
      BY Zenon, <1>1, <2>1 DEF After
    <3>5. (Sums(Fetches(insn))[Handled])' = 0
      BY Zenon, <2>2, <2>3, <2>4
    <3>6. Paged'.next = After(tc - 1)' + 3 * (Sums(Fetches(insn))[Handled])'
      BY Zenon, <3>3, <3>4, <3>5
    <3>7. tc' # 1 /\ pass' \notin {"write", "rest", "param", "done"}
      BY <1>7, <2>1
    <3> QED BY Zenon, <3>3, <3>6, <3>7 DEF Lengths
  <2>9. Going'
    BY ZenonT(60), <1>1, <1>3, <1>4, <1>7, <2>5, <2>6, <2>7, <2>8 DEF Going
  <2> QED BY SMTT(60), <1>1, <1>5, <1>7, <2>1, <2>9 DEF BlocksInv
<1> QED BY <1>1, <1>6, <1>7

\* The first operand of the first testcase.
LEMMA BlocksInit ==
    ASSUME BInit
    PROVE  BlocksInv
<1>1. /\ image \in Images /\ tc = 1 /\ pass = "read" /\ todo = operands(image[1])
      /\ count_r = 0 /\ count_l = 0 /\ PG = 1
      /\ blocks = [r |-> <<>>, rbak |-> <<>>, l |-> <<>>, in |-> <<>>, out |-> <<>>,
                   next |-> High + 1]
  BY DEF BInit
<1>2. /\ tc \in 1..Len(image) /\ insn = image[1] /\ image[1] \in Insn
      /\ High \in Nat /\ Words \in Nat \ {0}
  BY SMTT(60), <1>1, AgainSums, WordsAssumption DEF insn
<1>3. /\ operands(insn) \in Seq(Operand) /\ Len(operands(insn)) \in Nat
      /\ Sums(Reads(insn))[0] = 0
  BY <1>2, OperandsTyped, OperandSums DEF Summed
<1>4. Handled = 0
  BY SMTT(60), <1>1, <1>2, <1>3 DEF Handled
<1>5. Counted /\ Remaining /\ Found
  BY SMTT(60), <1>1, <1>2, <1>3, <1>4 DEF Counted, Remaining, Found
<1>6. Paged = blocks
  BY SMTT(60), <1>1 DEF Paged
<1>7. blocks \in BlocksT /\ blocks.next = High + 1 /\ blocks.next <= High + Words
  BY <1>1, <1>2 DEF BlocksT
<1>8. \A x \in Lists : Len(blocks[x]) = 0
  BY <1>1 DEF Lists
<1>9. Fresh(blocks)
  BY SMTT(60), <1>2, <1>7, <1>8 DEF Fresh, Apart
<1>10. Making(blocks, 0, 0)
  BY <1>1, <1>2 DEF Making, Greater
<1>11. Lengths(blocks)
  BY <1>1, <1>10 DEF Lengths
<1>12. Going
  BY ZenonT(60), <1>1, <1>5, <1>6, <1>7, <1>9, <1>11 DEF Going
<1> QED BY <1>1, <1>2, <1>12 DEF BlocksInv

\* What the invariant says of the end.
LEMMA BlocksEnd ==
    ASSUME BlocksInv
    PROVE  BlocksFit
<1>1. ASSUME pass = "done"
      PROVE  /\ AllFit
             /\ blocks.next = High + Taken(image)
             /\ Len(blocks.r) = Pairs(image[1])
             /\ Len(blocks.rbak) = Len(blocks.r) /\ Len(blocks.l) = Len(blocks.r)
             /\ Apart(blocks)
             /\ \A x \in Lists : \A k \in 1..Len(blocks[x]) :
                    blocks[x][k] \in (High + 1)..(High + Words - 1)
  <2>1. Going /\ PG = 1 /\ tc = Len(image) /\ Paged = blocks
    BY <1>1 DEF BlocksInv, Going, Paged
  <2>2. /\ Fresh(blocks) /\ blocks.next <= High + Words /\ Settled(blocks)
        /\ blocks.next = After(Len(image))
        /\ Fits(image[Len(image)], image[1])
        /\ \A t \in 1..(Len(image) - 1) : Fits(image[t], image[1])
    BY SMTT(60), <1>1, <2>1 DEF Going, Lengths, Found, insn
  <2>3. /\ Len(image) \in Nat /\ Sums(Again(image))[Len(image)] = Total(Again(image))
        /\ Total(Again(image)) \in Nat /\ Made(image[1]) \in Nat
        /\ High \in Nat /\ Words \in Nat
    BY Zenon, Instructions, AgainSums, BlockCounts DEF BlocksInv
  <2>4. blocks.next = High + Taken(image) /\ Taken(image) \in Nat
    BY <2>2, <2>3 DEF After, Taken
  <2>5. AllFit
    <3>1. \A t \in 1..Len(image) : t \in 1..(Len(image) - 1) \/ t = Len(image)
      BY <2>3
    <3> QED BY <2>2, <2>3, <2>4, <3>1 DEF AllFit
  <2>6. \A x \in Lists : \A k \in 1..Len(blocks[x]) :
            blocks[x][k] \in (High + 1)..(High + Words - 1)
    <3>1. blocks.next \in Int
      BY <2>2, Named DEF Fresh
    <3>2. \A x \in Lists : \A k \in 1..Len(blocks[x]) :
              blocks[x][k] \in (High + 1)..(blocks.next - 1)
      BY Zenon, <2>2 DEF Fresh
    <3>3. \A z \in (High + 1)..(blocks.next - 1) : z \in (High + 1)..(High + Words - 1)
      <4>1. blocks.next <= High + Words /\ High \in Nat /\ Words \in Nat
        BY Zenon, <2>2, <2>3
      <4> QED BY <3>1, <4>1
    <3> QED BY Zenon, <3>2, <3>3
  <2> QED BY SMTT(60), <2>2, <2>4, <2>5, <2>6 DEF Settled, Fresh
<1> QED BY Zenon, <1>1 DEF BlocksFit, BlocksInv, AllFit

\* An image is generated exactly if its testcases find their blocks among those of
\* the first one and the words suffice; then no block is in two places, R, R' and L
\* have one length and the addresses are those for paging on: get_addr, flip_addrs,
\* the four handlers of an operand and the rest of gen_root.
THEOREM BlocksOfImage == BSpec => []BlocksFit
<1>1. BInit => BlocksInv
  BY BlocksInit
<1>2. ASSUME BlocksInv, [BNext]_bvars
      PROVE  BlocksInv'
  <2>1. CASE handle_op
    <3> DEFINE o == Head(todo)
    <3>1. /\ todo # <<>>
          /\ \/ pass = "read" /\ (handle_reg_read(o) \/ handle_mem_read(o))
             \/ pass = "write" /\ (handle_reg_write(o) \/ handle_mem_write(o))
             \/ no_access(o) /\ pass \in {"read", "write"}
      BY <2>1 DEF handle_op, no_access
    <3> QED BY SMTT(60), <1>2, <3>1, ReadStep, WriteStep, SkipRead, SkipWrite
  <2>2. CASE next_pass
    BY <1>2, <2>2, OutputsNext, RestNext DEF next_pass
  <2>3. CASE gen_root
    BY <1>2, <2>3, RootStep
  <2>4. CASE gen_set_creg
    BY SMTT(60), <1>2, <2>4, CregStep
  <2>5. CASE next_testcase
    BY <1>2, <2>5, TestcaseStep
  <2>6. CASE UNCHANGED bvars
    <3>1. /\ image' = image /\ tc' = tc /\ pass' = pass /\ todo' = todo /\ blocks' = blocks
          /\ count_r' = count_r /\ count_l' = count_l /\ PG' = PG
      BY <2>6 DEF bvars
    <3>2. Paged' = Paged /\ insn' = insn /\ Handled' = Handled
      BY Zenon, <3>1 DEF Paged, insn, Handled
    <3>3. Lengths(Paged)' <=> Lengths(Paged)
      BY SMTT(60), <3>1, <3>2 DEF Lengths, Making, Settled, Looking, After
    <3>4. Going' <=> Going
      BY ZenonT(60), <3>1, <3>2, <3>3 DEF Going, Remaining, Counted, Found
    <3> QED BY <1>2, <3>1, <3>4 DEF BlocksInv, AllFit
  <2> QED BY ZenonT(60), <1>2, <2>1, <2>2, <2>3, <2>4, <2>5, <2>6 DEF BNext
<1>3. BlocksInv => BlocksFit
  BY BlocksEnd
<1> QED BY <1>1, <1>2, <1>3, PTL DEF BSpec

=============================================================================
