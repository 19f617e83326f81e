-------------------------- MODULE InsnFaultsProofs --------------------------
(***************************************************************************)
(* Proofs about InsnFaults: as long as exceptions come from the tested     *)
(* instruction or from undoing its parameters, no outcome is lost, for     *)
(* every program with phases and every number of testcases and iterations. *)
(***************************************************************************)
EXTENDS InsnFaults, TestcaseProofs

\* The inductive invariant, on top of Control.
Blocks ==
    /\ Control
    /\ BlocksInv
    /\ SamePhase
    /\ cpu = "boot" => round = 0

blocks == <<L, R, Rbak, round, prevR>>

\* What the assumptions say of one gadget.
LEMMA PhaseAt ==
    ASSUME NEW a \in 1..Last
    PROVE  /\ Phase[a] \in {"start", "keep", "copied", "folded", "done"}
           /\ Image[a].op \notin {"jmp", "hlt"} => Phase[a + 1] = After(Image[a].op, Phase[a])
           /\ Image[a].op = "jmp" => Phase[Image[a].to] = Phase[a]
           /\ Image[a].op = "loop" => Phase[a] = "done" /\ Phase[Image[a].to] = "keep"
           /\ Image[a].op = "setr" => Phase[a] = "start"
           /\ Image[a].op = "copyr" => Phase[a] = "keep"
           /\ Image[a].op = "feistel" => Phase[a] = "copied"
           /\ Image[a].op = "update" => Phase[a] = "folded"
           /\ Boundary(a) => Phase[a] = IF a = 1 THEN "start" ELSE "done"
BY PhaseAssumption

LEMMA HeldAt ==
    ASSUME NEW a \in 1..Last
    PROVE  /\ Held[a] \in {"orig", "saved", "used"}
           /\ Image[a].op \notin {"jmp", "hlt"} => Held[a + 1] = HeldAfter(Image[a].op, Held[a])
           /\ Image[a].op \in {"jmp", "loop"} => Held[Image[a].to] = Held[a]
           /\ Image[a].op = "backup" => Held[a] = "orig"
           /\ Image[a].op = "setinput" => Held[a] = "saved"
           /\ Image[a].op \in {"insn", "restore"} => Held[a] = "used"
           /\ Boundary(a) => Held[a] = "orig"
BY HeldAssumption

LEMMA TestAt ==
    ASSUME NEW a \in 1..Last
    PROVE  /\ Image[a].op # "hlt" => Image[a + 1].tc =
                 IF Image[a + 1].op = "prologue" THEN Image[a].tc + 1 ELSE Image[a].tc
           /\ Image[a].op \notin {"end", "hlt"} => Image[a + 1].op # "hlt"
           /\ Image[a].op \in {"jmp", "loop"} =>
                 Image[Image[a].to].tc = Image[a].tc /\ ~Boundary(Image[a].to)
BY TestsAssumption

LEMMA SegmentAt ==
    ASSUME NEW a \in 1..Last
    PROVE  /\ Image[a].seg \in FaultSegs
                => Image[a].op \in {"ret", "insn", "jmp", "param", "revert"}
           /\ Image[a].seg \in FaultSegs /\ Image[a].op = "ret" =>
                 /\ Phase[Image[a].to] = Phase[a] /\ Held[Image[a].to] = Held[a]
                 /\ Image[Image[a].to].tc = Image[a].tc /\ ~Boundary(Image[a].to)
           /\ Image[a].op # "hlt" /\ Image[a + 1].seg \in FaultSegs
                /\ Image[a + 1].op # "ret" => Image[a].seg \in FaultSegs
           /\ Image[a].op = "loop" => Image[Image[a].to].seg \notin FaultSegs
BY SegmentsAssumption

\* Only four kinds of gadget touch the blocks.
LEMMA OtherEffects ==
    ASSUME NEW a \in 1..Last, Effect(Image[a]),
           Image[a].op \notin {"setr", "copyr", "feistel", "update"}
    PROVE  UNCHANGED blocks
BY DEF Effect, set_count, set_param, backup, set_regs, dec_count, Skip, data, blocks

\* Every step of the flow of control follows the phases.
LEMMA ExecutePhase ==
    ASSUME Control, Execute
    PROVE  /\ eip \in 1..Last
           /\ \/ Phase[eip'] = After(Image[eip].op, Phase[eip])
              \/ op = "loop" /\ Phase[eip] = "done" /\ Phase[eip'] = "keep"
           /\ Held[eip'] = HeldAfter(Image[eip].op, Held[eip])
<1>1. eip \in 1..Last /\ op \notin {"end", "hlt"}
  BY Successor
<1>2. CASE op = "jmp" /\ eip' = Image[eip].to
  BY <1>1, <1>2, PhaseAt, HeldAt DEF op, After, HeldAfter
<1>3. CASE op = "loop" /\ eip' = Image[eip].to
  BY <1>1, <1>3, PhaseAt, HeldAt DEF op, HeldAfter
<1>4. CASE op # "jmp" /\ eip' = eip + 1
  BY <1>1, <1>4, PhaseAt, HeldAt DEF op
<1> QED
  BY <1>2, <1>3, <1>4, Successor

\* The blocks hold what the phase says after a gadget has executed.
LEMMA ExecuteBlocks ==
    ASSUME Blocks, Execute
    PROVE  BlocksInv'
<1> DEFINE g == Image[eip]
<1>1. /\ cpu = "run" /\ eip \in 1..Last /\ Effect(g)
      /\ \/ Phase[eip'] = After(g.op, Phase[eip])
         \/ g.op = "loop" /\ Phase[eip] = "done" /\ Phase[eip'] = "keep"
      /\ round \in Nat /\ L \subseteq 1..round /\ prevR \subseteq 1..round
  BY ExecutePhase DEF Execute, Blocks, Control, TypeOK, DataTypeOK, op
<1>2. Phase[eip] \in {"start", "keep", "copied", "folded", "done"}
  BY <1>1, PhaseAt
<1>3. CASE g.op = "setr"
  <2>1. Phase[eip] = "start" /\ Phase[eip'] = "keep" /\ set_r
    BY <1>1, <1>3, PhaseAt DEF After, Effect
  <2>2. round = 0 /\ round' = 0 /\ prevR' = prevR /\ (L' = {} \/ L' = L)
    BY <1>1, <2>1 DEF Blocks, BlocksInv, set_r
  <2>3. 1..round' = {} /\ L' = {} /\ prevR' = {}
    <3>1. 1..0 = {}
      OBVIOUS
    <3>2. L \subseteq 1..0 /\ prevR \subseteq 1..0
      BY <1>1, <2>2
    <3>3. L = {} /\ prevR = {}
      BY <3>1, <3>2
    <3> QED
      BY <2>2, <3>1, <3>3
  <2> QED
    BY <2>1, <2>3 DEF BlocksInv
<1>4. CASE g.op = "copyr"
  <2>1. Phase[eip] = "keep" /\ Phase[eip'] = "copied" /\ copy_r
    BY <1>1, <1>4, PhaseAt DEF After, Effect
  <2> QED
    BY <1>1, <2>1 DEF Blocks, BlocksInv, copy_r
<1>5. CASE g.op = "feistel"
  <2>1. Phase[eip] = "copied" /\ Phase[eip'] = "folded" /\ feistel
    BY <1>1, <1>5, PhaseAt DEF After, Effect
  <2>2. 1..round \subseteq L \cup R /\ Rbak = R
    BY <1>1, <2>1 DEF Blocks, BlocksInv
  <2>3. 1..(round + 1) = 1..round \cup {round + 1}
    BY <1>1
  <2> QED
    BY <2>1, <2>2, <2>3 DEF BlocksInv, feistel
<1>6. CASE g.op = "update"
  <2>1. Phase[eip] = "folded" /\ Phase[eip'] = "done" /\ update
    BY <1>1, <1>6, PhaseAt DEF After, Effect
  <2> QED
    BY <1>1, <2>1 DEF Blocks, BlocksInv, update
<1>7. CASE g.op \notin {"setr", "copyr", "feistel", "update"}
  <2>1. Phase[eip'] = Phase[eip] \/ (Phase[eip] = "done" /\ Phase[eip'] = "keep")
    BY <1>1, <1>7 DEF After
  <2>2. UNCHANGED blocks
    BY <1>1, <1>7, OtherEffects
  <2> QED
    BY ZenonT(60), <1>1, <1>2, <2>1, <2>2 DEF Blocks, BlocksInv, blocks
<1> QED
  BY <1>3, <1>4, <1>5, <1>6, <1>7

\* The return point stays in the phase of the instruction's segments.
LEMMA ExecuteSamePhase ==
    ASSUME Control, SamePhase, Execute
    PROVE  SamePhase'
<1> DEFINE g == Image[eip]
<1> SUFFICES ASSUME Image[eip'].seg \in FaultSegs, Image[eip'].op # "ret"
             PROVE  retp' # NoPoint /\ Alike(retp', eip')
  BY DEF SamePhase, op, Alike
<1>1. /\ cpu = "run" /\ eip \in 1..Last /\ eip' \in 1..Last /\ g.op \notin {"end", "hlt"}
      /\ \/ g.op = "jmp" /\ eip' = g.to
         \/ g.op = "loop" /\ eip' = g.to
         \/ g.op # "jmp" /\ eip' = eip + 1
  BY Successor DEF op
<1>2. CASE g.op = "jmp" /\ eip' = g.to
  BY <1>1, <1>2, Gadget, SegmentAt DEF Stores
<1>3. CASE g.op = "loop" /\ eip' = g.to
  BY <1>1, <1>3, SegmentAt
<1>4. CASE g.op # "jmp" /\ eip' = eip + 1
  <2>1. g.seg \in FaultSegs
    BY <1>1, <1>4, SegmentAt
  <2>2. g.op \in {"ret", "insn", "param", "revert"}
    BY <1>1, <1>4, <2>1, SegmentAt
  <2>3. Phase[eip'] = Phase[eip] /\ Held[eip'] = Held[eip]
    BY <1>1, <1>4, <2>2, PhaseAt, HeldAt DEF After, HeldAfter
  <2>4. Image[eip'].tc = g.tc
    <3>1. Image[eip'].op # "prologue"
      BY <1>1, SegmentAt
    <3> QED
      BY <1>1, <1>4, <3>1, TestAt
  <2>5. CASE g.op = "ret"
    <3>1. retp' = g.to /\ Alike(g.to, eip) /\ g.to \in (eip + 1)..Last
      <4>1. retp' = g.to /\ g.to \in (eip + 1)..Last /\ Image[g.to].op \in Stores \cup {"end"}
        BY <1>1, <2>5, Gadget DEF Execute, NextRetp, Stores
      <4> QED
        BY <1>1, <2>1, <2>5, <4>1, SegmentAt DEF Alike, Stores
    <3>2. g.to \in Points
      <4>1. Points = 0..Last
        BY Zenon, TestcaseAssumption
      <4>2. eip \in 1..Last /\ g.to \in (eip + 1)..Last
        BY Zenon, <1>1, <3>1
      <4> HIDE DEF g
      <4> QED
        BY <4>1, <4>2
    <3> QED
      BY <2>3, <2>4, <3>1, <3>2, HandlersAssumption DEF Alike
  <2>6. CASE g.op # "ret"
    <3>1. retp' = retp /\ retp # NoPoint /\ Alike(retp, eip)
      BY <1>1, <2>1, <2>2, <2>6 DEF SamePhase, Execute, NextRetp, Stores, op
    <3> QED
      BY <2>3, <2>4, <3>1 DEF Alike
  <2> QED
    BY <2>5, <2>6
<1> QED
  BY <1>1, <1>2, <1>3, <1>4

\* An exception comes from a gadget that leaves the blocks alone, and stays in
\* the phase.
LEMMA FaultAlike ==
    ASSUME Control, SamePhase, NEW v \in Vectors, Fault(v)
    PROVE  /\ cpu = "run" /\ eip \in 1..Last /\ op \in {"insn", "jmp", "param", "revert"}
           /\ Effect(Image[eip]) \/ Skip
           /\ retp' = retp /\ SamePhase'
           /\ cpu' = "run" => eip' = eip \/ (eip' \in 1..Last /\ Alike(eip', eip))
<1>1. /\ cpu = "run" /\ eip \in 1..Last /\ Image[eip].seg \in FaultSegs
      /\ op \notin Stores /\ retp' = retp
      /\ cpu' # "run" \/ eip' = eip \/ (eip' = retp /\ retp # NoPoint)
  BY Faulting, FaultsAssumption DEF Faultable, op
<1>2. op \in {"insn", "jmp", "param", "revert"}
  BY <1>1, SegmentAt DEF op, Stores
<1>3. retp # NoPoint /\ Alike(retp, eip)
  BY <1>1, <1>2 DEF SamePhase
<1>4. retp \in 1..Last /\ Image[retp].op \in Stores \cup {"end"}
  BY <1>3 DEF Control, AtLabel
<1>5. SamePhase'
  <2>1. CASE eip' = eip
    BY <1>1, <1>3, <2>1 DEF SamePhase
  <2>2. CASE eip' = retp
    <3>1. Image[retp].seg \in FaultSegs => Image[retp].op = "ret"
      BY <1>4, SegmentAt DEF Stores
    <3> QED
      BY <2>2, <3>1 DEF SamePhase, op
  <2> QED
    BY <1>1, <2>1, <2>2 DEF SamePhase
<1> QED
  BY <1>1, <1>2, <1>3, <1>4, <1>5 DEF Fault

LEMMA FaultBlocks ==
    ASSUME Blocks, NEW v \in Vectors, Fault(v)
    PROVE  BlocksInv' /\ SamePhase'
<1>1. /\ cpu = "run" /\ eip \in 1..Last /\ op \in {"insn", "jmp", "param", "revert"}
      /\ Effect(Image[eip]) \/ Skip
      /\ SamePhase' /\ (cpu' = "run" => Phase[eip'] = Phase[eip])
  BY FaultAlike DEF Blocks, Alike
<1>2. UNCHANGED blocks
  <2>1. CASE Effect(Image[eip])
    BY <1>1, <2>1, OtherEffects DEF op
  <2>2. CASE Skip
    BY <2>2 DEF Skip, data, blocks
  <2> QED
    BY <1>1, <2>1, <2>2
<1> QED
  BY Zenon, <1>1, <1>2 DEF Blocks, BlocksInv, blocks

LEMMA BlocksInit == Init => Blocks
BY ControlInit DEF Init, Blocks, BlocksInv, SamePhase

LEMMA BlocksStep == Blocks /\ [Next]_vars => Blocks'
<1> SUFFICES ASSUME Blocks, [Next]_vars PROVE Blocks'
  OBVIOUS
<1>0. Control' /\ TypeOK
  BY ControlStep DEF Blocks, Control
<1>1. CASE UNCHANGED vars
  BY ZenonT(60), <1>0, <1>1 DEF vars, hvars, data, Blocks, BlocksInv, SamePhase, op
<1>2. CASE switch_to_testcase_task
  <2>1. eip' = 1 /\ Image[1].op = "prologue" /\ round' = 0 /\ cpu' = "run"
    BY <1>2, LabelsAssumption DEF switch_to_testcase_task, data, Blocks
  <2>2. 1 \in 1..Last
    BY TestcaseAssumption DEF Last
  <2>3. Image[1].seg \notin FaultSegs /\ Phase[1] = "start"
    BY <2>1, <2>2, PhaseAt, SegmentAt DEF Boundary
  <2> QED
    BY <1>0, <2>1, <2>3 DEF Blocks, BlocksInv, SamePhase
<1>3. CASE Execute
  BY <1>0, <1>3, ExecuteBlocks, ExecuteSamePhase DEF Blocks, Execute
<1>4. ASSUME NEW v \in Vectors, Fault(v) PROVE Blocks'
  <2>1. cpu' # "boot"
    <3>1. Exception(v) /\ TypeOK /\ EntersAtBegin
      BY <1>4 DEF Fault, Blocks, Control
    <3> QED
      BY Zenon, <3>1, Resume
  <2> QED
    BY <1>0, <1>4, <2>1, FaultBlocks DEF Blocks
<1>5. CASE EndOfTest
  <2>1. /\ cpu = "run" /\ eip \in 1..Last /\ op = "end" /\ eip + 1 \in 1..Last
        /\ Image[eip + 1].op = "hlt" /\ UNCHANGED blocks
    BY <1>0, <1>5, Finish, AtGadget DEF EndOfTest, data, blocks
  <2>2. cpu' # "boot" /\ (cpu' = "run" => eip' = eip + 1)
    BY <1>0, <1>5, Finish
  <2>3. Phase[eip + 1] = Phase[eip] /\ Image[eip + 1].seg \notin FaultSegs
    BY <2>1, PhaseAt, SegmentAt DEF op, After
  <2> QED
    BY Zenon, <1>0, <2>1, <2>2, <2>3 DEF Blocks, BlocksInv, SamePhase, blocks
<1>6. CASE Halt
  BY <1>0, <1>6 DEF Halt, Blocks, BlocksInv, SamePhase
<1> QED
  BY <1>1, <1>2, <1>3, <1>4, <1>5, <1>6 DEF Next

LEMMA BlocksHold == Spec => []Blocks
BY BlocksInit, BlocksStep, PTL DEF Spec

\* No outcome is lost: between two testcases the Feistel blocks carry that of
\* every instruction executed so far (output, update and copy_r of gen_root).
THEOREM NoOutcomeLost == Spec => []OutcomesKept
<1>1. Blocks => OutcomesKept
  <2> SUFFICES ASSUME Blocks, AtBoundary PROVE 1..round \subseteq L \cup R
    BY DEF OutcomesKept
  <2>1. eip \in 1..Last /\ Phase[eip] \in {"start", "done"}
    BY AtGadget, PhaseAt DEF Blocks, Control, AtBoundary, Boundary, op
  <2>2. round = 0 => 1..round = {}
    OBVIOUS
  <2> QED
    BY Zenon, <2>1, <2>2 DEF Blocks, BlocksInv, AtBoundary
<1> QED
  BY <1>1, BlocksHold, PTL

\* Between two testcases L is the R of the round before ("moving R_{i-1} to
\* L_{i} via R's backup"): the two blocks are a Feistel pair.
THEOREM PreviousRKept == Spec => []LHoldsPreviousR
<1>1. Blocks => LHoldsPreviousR
  <2> SUFFICES ASSUME Blocks, AtBoundary PROVE L = prevR
    BY DEF LHoldsPreviousR
  <2>1. eip \in 1..Last /\ Phase[eip] \in {"start", "done"}
    BY AtGadget, PhaseAt DEF Blocks, Control, AtBoundary, Boundary, op
  <2>2. L \subseteq 1..round /\ prevR \subseteq 1..round
    BY DEF Blocks, Control, TypeOK, DataTypeOK
  <2>3. round = 0 => 1..round = {}
    OBVIOUS
  <2> QED
    BY Zenon, <2>1, <2>2, <2>3 DEF Blocks, BlocksInv, AtBoundary
<1> QED
  BY <1>1, BlocksHold, PTL

-----------------------------------------------------------------------------
(* The operands. *)

\* Only four kinds of gadget touch the operands or their backup.
LEMMA OperandEffects ==
    ASSUME NEW a \in 1..Last, Effect(Image[a])
    PROVE  /\ Image[a].op = "backup" => bak' = regs /\ regs' = regs
           /\ Image[a].op = "restore" => regs' = bak /\ bak' = bak
           /\ Image[a].op \in {"setinput", "insn"} => bak' = bak
           /\ Image[a].op \notin {"backup", "setinput", "insn", "restore"}
                 => regs' = regs /\ bak' = bak
BY DEF Effect, set_count, set_param, set_r, backup, set_regs, copy_r, feistel, update,
   dec_count, Skip, data

LEMMA HeldStep ==
    ASSUME Control, SamePhase, Fresh, HeldInv, [Next]_vars
    PROVE  HeldInv'
<1>1. CASE UNCHANGED vars
  BY <1>1 DEF vars, hvars, data, HeldInv
<1>2. CASE switch_to_testcase_task
  <2>1. 1 \in 1..Last /\ Boundary(1)
    BY TestcaseAssumption, LabelsAssumption DEF Last, Boundary
  <2>2. eip' = 1 /\ regs' = "orig" /\ Held[1] = "orig"
    BY <1>2, <2>1, HeldAt DEF switch_to_testcase_task, data, Fresh
  <2> QED
    BY <2>2 DEF HeldInv
<1>3. CASE Execute
  <2>1. /\ cpu = "run" /\ eip \in 1..Last /\ Effect(Image[eip])
        /\ Held[eip'] = HeldAfter(Image[eip].op, Held[eip])
    BY <1>3, ExecutePhase DEF Execute
  <2>2. Held[eip] \in {"orig", "saved", "used"}
    BY <2>1, HeldAt
  <2>3. CASE Image[eip].op \in {"backup", "setinput", "insn", "restore"}
    BY <2>1, <2>3, HeldAt, OperandEffects DEF HeldInv, HeldAfter
  <2>4. CASE Image[eip].op \notin {"backup", "setinput", "insn", "restore"}
    BY <2>1, <2>2, <2>4, OperandEffects DEF HeldInv, HeldAfter
  <2> QED
    BY <2>3, <2>4
<1>4. ASSUME NEW v \in Vectors, Fault(v) PROVE HeldInv'
  <2>1. /\ cpu = "run" /\ eip \in 1..Last /\ op \in {"insn", "jmp", "param", "revert"}
        /\ Effect(Image[eip]) \/ Skip
        /\ cpu' = "run" => Held[eip'] = Held[eip]
    BY <1>4, FaultAlike DEF Alike
  <2>2. CASE Skip
    BY <2>1, <2>2 DEF Skip, data, HeldInv
  <2>3. CASE Effect(Image[eip])
    BY <2>1, <2>3, HeldAt, OperandEffects DEF HeldInv, op
  <2> QED
    BY <2>1, <2>2, <2>3
<1>5. CASE EndOfTest
  <2>1. /\ cpu = "run" /\ eip \in 1..Last /\ op = "end" /\ UNCHANGED data
        /\ cpu' = "run" => eip' = eip + 1
    BY <1>5, Finish, AtGadget DEF EndOfTest, Control
  <2>2. Held[eip + 1] = Held[eip]
    BY <2>1, HeldAt DEF op, HeldAfter
  <2> QED
    BY <2>1, <2>2 DEF HeldInv, data
<1>6. CASE Halt
  BY <1>6 DEF Halt, HeldInv
<1> QED
  BY <1>1, <1>2, <1>3, <1>4, <1>5, <1>6 DEF Next

\* Between two testcases the operands hold their own values, even if the tested
\* instruction faulted after it had written some of them (backup and restore of
\* gen_root).
THEOREM AlwaysRestored == Spec => []OperandsRestored
<1>1. Init => HeldInv
  BY DEF Init, HeldInv
<1>2. Blocks /\ Fresh /\ HeldInv /\ [Next]_vars => HeldInv'
  BY HeldStep DEF Blocks
<1>3. Blocks /\ HeldInv => OperandsRestored
  <2> SUFFICES ASSUME Blocks, HeldInv, AtBoundary PROVE regs = "orig"
    BY DEF OperandsRestored
  <2>1. cpu = "run" /\ eip \in 1..Last /\ Boundary(eip)
    BY AtGadget DEF Blocks, Control, AtBoundary, Boundary, op
  <2> QED
    BY <2>1, HeldAt DEF HeldInv
<1> QED
  BY <1>1, <1>2, <1>3, BlocksHold, FreshHolds, PTL DEF Spec

\* Exceptions of the tested instruction leave the undoing of the parameters in
\* force (revert and revert_ of compile_gadgets).
THEOREM InsnParamsUndone == Spec => []ParamsUndone
BY UndoneAssumption, AlwaysUndone

\* Exceptions of the tested instruction never leave the loop early (gen_loop).
THEOREM InsnLoopExhausted == Spec => []LoopExhausted
<1>1. CASE Exhausts
  BY <1>1, AlwaysExhausted
<1>2. CASE ~(MODE > 2)
  <2>1. LoopExhausted
    BY <1>2 DEF LoopExhausted
  <2> QED
    BY <2>1, PTL
<1> QED
  BY <1>1, <1>2, ExhaustsAssumption

-----------------------------------------------------------------------------
(* The number of executions. *)

LEMMA TimesFacts ==
    ASSUME NEW t \in Nat
    PROVE  /\ Times \in Nat /\ Times * t \in Int /\ Times * (t - 1) \in Int
           /\ Times * (t - 1) + Times = Times * t
           /\ Times * ((t + 1) - 1) = Times * t
           /\ MODE > 2 => Times = LOOP
           /\ ~(MODE > 2) => Times = 1
<1>1. Times \in Nat /\ (MODE > 2 => Times = LOOP) /\ (~(MODE > 2) => Times = 1)
  BY TestcaseAssumption, HandlersAssumption DEF Times
<1>2. \A x, y \in Int : x * y \in Int /\ x * (y - 1) + x = x * y
  OBVIOUS
<1>3. t - 1 \in Int /\ (t + 1) - 1 = t
  OBVIOUS
<1> QED
  BY <1>1, <1>2, <1>3

\* A place within a testcase.
Within(a) == a \in 1..Last /\ Image[a].op \notin {"prologue", "end", "hlt"}

LEMMA RoundsWithin ==
    ASSUME NEW a, Within(a), NEW n
    PROVE  Rounds(a, n) =
               Times * (Image[a].tc - 1) + (IF MODE > 2 THEN LOOP - n ELSE 0) + Folds(a)
BY DEF Within, Rounds

\* Only the output gadget adds an execution.
LEMMA RoundEffect ==
    ASSUME NEW a \in 1..Last, Effect(Image[a])
    PROVE  round' = IF Image[a].op = "feistel" THEN round + 1 ELSE round
BY DEF Effect, set_count, set_param, set_r, backup, set_regs, copy_r, feistel, update,
   dec_count, Skip, data

\* From one place within a testcase to another.
LEMMA RoundsMove ==
    ASSUME NEW a, NEW b, Within(a), Within(b), Image[a].tc = Image[b].tc,
           NEW m \in Nat, NEW n \in Nat,
           \/ n = m /\ Folds(b) = Folds(a)
           \/ MODE > 2 /\ n = m - 1 /\ Folds(a) = 1 /\ Folds(b) = 0
    PROVE  Rounds(b, n) = Rounds(a, m)
<1>1. /\ Rounds(a, m) = Times * (Image[a].tc - 1) + (IF MODE > 2 THEN LOOP - m ELSE 0) + Folds(a)
      /\ Rounds(b, n) = Times * (Image[a].tc - 1) + (IF MODE > 2 THEN LOOP - n ELSE 0) + Folds(b)
  BY RoundsWithin
<1>2. Times * (Image[a].tc - 1) \in Int
  <2>1. Image[a].tc \in Nat
    BY Gadget DEF Within
  <2> QED
    BY <2>1, TimesFacts
<1>3. LOOP \in Nat
  BY TestcaseAssumption, HandlersAssumption
<1> QED
  BY <1>1, <1>2, <1>3

LEMMA RoundExecute ==
    ASSUME Control, CountLive, RoundInv, Execute
    PROVE  RoundInv'
<1> DEFINE g == Image[eip]
           t == g.tc
<1>1. /\ cpu = "run" /\ eip \in 1..Last /\ eip' \in 1..Last /\ Last \in Nat
      /\ g.op \notin {"end", "hlt"} /\ Effect(g) /\ t \in Nat
      /\ \/ g.op = "jmp" /\ eip' = g.to
         \/ g.op = "loop" /\ count' # 0 /\ eip' = g.to
         \/ g.op # "jmp" /\ (g.op = "loop" => count' = 0) /\ eip' = eip + 1
  BY Successor, Gadget, LastIsNat DEF op
<1>2. /\ round = Rounds(eip, count) /\ round \in Nat /\ count \in Nat /\ count' \in Nat
      /\ LOOP \in Nat
  <2>1. TypeOK'
    BY TypeStep DEF Control, Next
  <2> QED
    BY <1>1, <2>1, TestcaseAssumption, HandlersAssumption
       DEF RoundInv, Control, TypeOK, DataTypeOK
<1>3. round' = IF g.op = "feistel" THEN round + 1 ELSE round
  BY <1>1, RoundEffect
<1>4. /\ g.op = "prologue" => count' = IF MODE > 2 THEN LOOP ELSE count
      /\ g.op = "loop" => count' = Dec(count)
      /\ g.op \notin {"prologue", "loop"} => count' = count
  BY <1>1, CountEffect
<1> SUFFICES round' = Rounds(eip', count')
  BY DEF RoundInv
<1>5. CASE g.op = "prologue"
  <2>1. eip' = eip + 1 /\ Phase[eip'] = After("prologue", Phase[eip]) /\ Boundary(eip)
    BY <1>1, <1>5, PhaseAt DEF Boundary
  <2>2. Phase[eip'] \in {"start", "keep"}
    BY <1>1, <2>1, PhaseAt DEF After
  <2>3. ~Boundary(eip')
    BY <1>1, <2>1, <2>2, PhaseAt
  <2>4. Within(eip') /\ Image[eip'].tc = t
    BY <1>1, <1>5, <2>1, <2>3, TestAt DEF Within, Boundary
  <2>5. Folds(eip') = 0
    BY <2>2 DEF Folds
  <2>6. Rounds(eip, count) = Times * (t - 1) /\ Times * (t - 1) \in Int
    BY ZenonT(60), <1>1, <1>5, TimesFacts DEF Rounds
  <2>7. Rounds(eip', count') =
            Times * (t - 1) + (IF MODE > 2 THEN LOOP - count' ELSE 0) + Folds(eip')
    BY <2>4, RoundsWithin
  <2> QED
    BY <1>2, <1>3, <1>4, <1>5, <2>5, <2>6, <2>7
<1>6. CASE g.op = "jmp"
  <2>1. eip' = g.to /\ Phase[eip'] = Phase[eip] /\ Image[eip'].tc = t /\ ~Boundary(eip')
    BY <1>1, <1>6, PhaseAt, TestAt
  <2>2. Image[eip'].op \in Stores \cup {"end"}
    BY <1>1, <1>6, <2>1, Gadget
  <2>3. Within(eip) /\ Within(eip') /\ Folds(eip') = Folds(eip)
    BY <1>1, <1>6, <2>1, <2>2 DEF Within, Boundary, Stores, Folds
  <2> QED
    BY <1>2, <1>3, <1>4, <1>6, <2>1, <2>3, RoundsMove
<1>7. CASE g.op = "loop"
  <2>1. MODE > 2 /\ count > 0 /\ count' = count - 1 /\ Phase[eip] = "done"
    BY <1>1, <1>2, <1>4, <1>7, LoopGadget, PhaseAt DEF CountLive, Dec, op
  <2>2. Within(eip) /\ Folds(eip) = 1
    BY <1>1, <1>7, <2>1 DEF Within, Folds
  <2>3. CASE eip' = g.to
    <3>1. Phase[eip'] = "keep" /\ Image[eip'].tc = t /\ ~Boundary(eip') /\ eip' <= eip
      BY <1>1, <1>7, <2>3, PhaseAt, TestAt, LoopGadget
    <3>2. Image[eip'].op # "hlt"
      <4>1. eip # Last
        BY <1>1, <1>7, TargetsAssumption
      <4>2. eip' # Last
        BY <1>1, <3>1, <4>1
      <4> QED
        BY <1>1, <4>2, TargetsAssumption
    <3>3. Within(eip') /\ Folds(eip') = 0
      BY <1>1, <3>1, <3>2 DEF Within, Boundary, Folds
    <3> QED
      BY <1>2, <1>3, <1>7, <2>1, <2>2, <3>1, <3>3, RoundsMove
  <2>4. CASE eip' = eip + 1 /\ count' = 0
    <3>1. round = Times * (t - 1) + (LOOP - 1) + 1
      BY <1>2, <2>1, <2>2, <2>4, RoundsWithin
    <3>2. round = Times * t
      <4>1. /\ Times * (t - 1) \in Int /\ Times * (t - 1) + Times = Times * t
            /\ Times = LOOP
        BY Zenon, <1>1, <2>1, TimesFacts
      <4>2. Times * (t - 1) + (Times - 1) + 1 = Times * (t - 1) + Times
        BY <1>2, <4>1
      <4> QED
        BY <3>1, <4>1, <4>2
    <3>3. Image[eip'].op \in {"prologue", "end"}
      BY <1>1, <1>7, <2>4, LoopGadget
    <3>4. Rounds(eip', count') = Times * t
      BY ZenonT(60), <1>1, <1>7, <2>4, <3>3, TestAt, TimesFacts DEF Rounds
    <3> QED
      BY <1>3, <1>7, <3>2, <3>4
  <2> QED
    BY <1>1, <1>7, <2>3, <2>4
<1>8. CASE g.op \notin {"prologue", "jmp", "loop"}
  <2>1. /\ eip' = eip + 1 /\ Phase[eip'] = After(g.op, Phase[eip]) /\ count' = count
        /\ Image[eip'].op # "hlt" /\ Within(eip)
    BY ZenonT(60), <1>1, <1>4, <1>8, PhaseAt, TestAt DEF Within
  <2>2. Phase[eip] \in {"start", "keep", "copied", "folded", "done"}
    BY <1>1, PhaseAt
  <2>3. Folds(eip') = IF g.op = "feistel" THEN Folds(eip) + 1 ELSE Folds(eip)
    BY <1>1, <1>8, <2>1, <2>2, PhaseAt DEF After, Folds
  <2>4. CASE Boundary(eip')
    <3>1. ~(MODE > 2)
      BY <1>1, <1>8, <2>1, <2>4, ExhaustsAssumption DEF Exhausts
    <3>2. Phase[eip'] = "done" /\ g.op # "feistel"
      BY <1>1, <2>1, <2>4, PhaseAt DEF After
    <3>3. round = Times * (t - 1) + 0 + 1
      BY <1>2, <2>1, <2>3, <3>1, <3>2, RoundsWithin DEF Folds
    <3>4. round = Times * t
      <4>1. /\ Times * (t - 1) \in Int /\ Times * (t - 1) + Times = Times * t
            /\ Times = 1
        BY Zenon, <1>1, <3>1, TimesFacts
      <4>2. Times * (t - 1) + 0 + 1 = Times * (t - 1) + Times
        BY <4>1
      <4> QED
        BY <3>3, <4>1, <4>2
    <3>5. Rounds(eip', count') = Times * t
      BY ZenonT(60), <1>1, <2>1, <2>4, TestAt, TimesFacts DEF Rounds, Boundary
    <3> QED
      BY <1>3, <3>2, <3>4, <3>5
  <2>5. CASE ~Boundary(eip')
    <3>1. Within(eip') /\ Image[eip'].tc = t
      BY <1>1, <2>1, <2>5, TestAt DEF Within, Boundary
    <3>2. CASE g.op # "feistel"
      BY <1>2, <1>3, <2>1, <2>3, <3>1, <3>2, RoundsMove
    <3>3. CASE g.op = "feistel"
      <4>1. Times * (t - 1) \in Int
        BY Zenon, <1>1, TimesFacts
      <4>2. /\ Rounds(eip, count) =
                 Times * (t - 1) + (IF MODE > 2 THEN LOOP - count ELSE 0) + Folds(eip)
            /\ Rounds(eip', count') =
                 Times * (t - 1) + (IF MODE > 2 THEN LOOP - count ELSE 0) + Folds(eip')
        BY <2>1, <3>1, RoundsWithin
      <4>3. Folds(eip) \in Nat
        BY DEF Folds
      <4> QED
        BY <1>2, <1>3, <2>3, <3>3, <4>1, <4>2, <4>3
    <3> QED
      BY <3>2, <3>3
  <2> QED
    BY <2>4, <2>5
<1> QED
  BY <1>5, <1>6, <1>7, <1>8

LEMMA RoundStep ==
    ASSUME Control, SamePhase, Fresh, CountLive, RoundInv, [Next]_vars
    PROVE  RoundInv'
<1>1. CASE UNCHANGED vars
  BY <1>1 DEF vars, hvars, data, RoundInv
<1>2. CASE switch_to_testcase_task
  <2>1. eip' = 1 /\ round' = 0 /\ Image[1].op = "prologue" /\ Image[1].tc = 1
    BY <1>2, LabelsAssumption, TestsAssumption DEF switch_to_testcase_task, data, Fresh
  <2>2. Times * (1 - 1) = 0
    <3>1. \A x \in Nat : x * (1 - 1) = 0
      OBVIOUS
    <3> QED
      BY <3>1, TimesFacts
  <2> QED
    BY <2>1, <2>2 DEF RoundInv, Rounds
<1>3. CASE Execute
  BY <1>3, RoundExecute
<1>4. ASSUME NEW v \in Vectors, Fault(v) PROVE RoundInv'
  <2>1. /\ cpu = "run" /\ eip \in 1..Last /\ op \in {"insn", "jmp", "param", "revert"}
        /\ Effect(Image[eip]) \/ Skip
        /\ cpu' = "run" => eip' = eip \/ (eip' \in 1..Last /\ Alike(eip', eip))
    BY <1>4, FaultAlike
  <2>2. round' = round /\ count' = count
    BY <2>1, RoundEffect, CountEffect DEF op, Skip, data
  <2>3. count \in Nat
    BY HandlersAssumption DEF Control, TypeOK, DataTypeOK
  <2>4. ASSUME eip' \in 1..Last, Alike(eip', eip) PROVE Rounds(eip', count) = Rounds(eip, count)
    <3>1. Within(eip) /\ Within(eip') /\ Image[eip'].tc = Image[eip].tc
          /\ Folds(eip') = Folds(eip)
      BY <2>1, <2>4 DEF Within, Alike, Boundary, Folds, op
    <3> QED
      BY <2>3, <3>1, RoundsMove
  <2> QED
    BY <2>1, <2>2, <2>4 DEF RoundInv
<1>5. CASE EndOfTest
  <2>1. /\ cpu = "run" /\ eip \in 1..Last /\ op = "end" /\ UNCHANGED data
        /\ Image[eip + 1].op = "hlt" /\ (cpu' = "run" => eip' = eip + 1)
    BY <1>5, Finish, AtGadget DEF EndOfTest, Control
  <2>2. Image[eip + 1].tc = Image[eip].tc
    BY <2>1, TestAt DEF op
  <2> QED
    BY <2>1, <2>2 DEF RoundInv, Rounds, data, op
<1>6. CASE Halt
  BY <1>6 DEF Halt, RoundInv
<1> QED
  BY <1>1, <1>2, <1>3, <1>4, <1>5, <1>6 DEF Next

\* Every testcase runs its number of times, whether the tested instruction
\* faults in some of the iterations or not: between two testcases the number of
\* outcomes folded into R depends on nothing but the place in the program
\* (set_count, gen_loop and the output gadget of gen_root), so two machines that
\* run the same program compare the same rounds.
THEOREM AlwaysFixedRuns == Spec => []FixedRuns
<1>1. Init => RoundInv
  BY DEF Init, RoundInv
<1>2. NoStoreFaults
  BY FaultsAssumption DEF NoStoreFaults
<1>3. Blocks /\ Fresh /\ CountLive /\ RoundInv /\ [Next]_vars => RoundInv'
  BY RoundStep DEF Blocks
<1>4. RoundInv => FixedRuns
  BY DEF RoundInv, FixedRuns, Rounds, AtBoundary, op
<1>5. Spec => []CountLive
  BY <1>2, CountLiveHolds
<1> QED
  BY <1>1, <1>3, <1>4, <1>5, BlocksHold, FreshHolds, PTL DEF Spec
=============================================================================
