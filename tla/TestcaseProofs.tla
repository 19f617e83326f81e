--------------------------- MODULE TestcaseProofs ---------------------------
(***************************************************************************)
(* Proofs about Testcase, for every program that satisfies the assumptions *)
(* on Image, every set of vectors and faults anywhere.                     *)
(***************************************************************************)
EXTENDS Flow, TLAPS

-----------------------------------------------------------------------------
(* The handlers: every delivery, by exception or int instruction, preserves  *)
(* each invariant, whatever the task does in between.                        *)

\* A delivery, as Exception and SoftInt make it.
Deliver(v, soft, p) == Overrun(v) \/ CountOut(v) \/ Handle(v, soft, p)

USE DEF TaskVectors

\* The handlers' tables only name known vectors (interrupts-mod.c).
LEMMA TableTypes ==
    /\ \A v \in TaskVectors \ SilentVectors : v \in 0..19 /\ RecordedVector(v) \in 0..19
    /\ \A v \in TaskVectors : ResumesAt(v) \in {"begin", "jmp", "end"}
    /\ \A v \in TaskVectors, soft \in BOOLEAN : Pushed(v, soft) \in Int /\ Popped(v) \in Int
    /\ \A w \in 0..WordMax : Dec(w) \in 0..WordMax
    /\ CounterInit \in 0..WordMax
BY HandlersAssumption DEF SilentVectors, RecordedVector, ResumesAt, Pushed, Popped,
   Dec, CounterInit

\* A delivery keeps the handlers' state well typed.
LEMMA DeliverType ==
    ASSUME HTypeOK, NEW v \in TaskVectors, NEW soft \in BOOLEAN, NEW p \in Points,
           Deliver(v, soft, p), cpu = "run"
    PROVE  HTypeOK'
<1>1. CASE Overrun(v)
  BY <1>1 DEF Overrun, HTypeOK
<1>2. CASE CountOut(v)
  BY <1>2, HandlersAssumption DEF CountOut, HTypeOK
<1>3. CASE Handle(v, soft, p)
  <2>1. counter' \in 0..WordMax /\ counted' \in Nat
    BY <1>3, TableTypes DEF Handle, HTypeOK
  <2>2. heip' \in [TaskVectors -> {"begin", "jmp", "end"}]
    <3>1. ResumesAt(v) \in {"begin", "jmp", "end"}
      BY TableTypes
    <3> QED
      BY <1>3, <3>1 DEF Handle, HTypeOK
  <2>3. hesp' \in [TaskVectors -> Int]
    <3>1. hesp[v] - Pushed(v, soft) + Popped(v) \in Int
      BY TableTypes DEF HTypeOK
    <3> QED
      BY <1>3, <3>1 DEF Handle, HTypeOK
  <2>4. /\ eip' \in Points /\ retp' \in Points \cup {NoPoint}
        /\ cpu' \in {"boot", "run", "hlt", "wild"}
    BY <1>3 DEF Handle, HTypeOK
  <2>5. edata' \in [code : 0..19, vector : 0..19] /\ raised' \in -1..19
    <3>1. CASE v \in SilentVectors
      BY <1>3, <3>1 DEF Handle, HTypeOK
    <3>2. CASE v \notin SilentVectors
      <4>1. v \in 0..19 /\ RecordedVector(v) \in 0..19
        BY <3>2, TableTypes
      <4>2. /\ edata' = [code   |-> IF v \in PopVectors THEN v ELSE edata.code,
                         vector |-> RecordedVector(v)]
            /\ raised' = v
        BY <1>3, <3>2 DEF Handle
      <4> QED
        BY <4>1, <4>2 DEF HTypeOK
    <3> QED
      BY <3>1, <3>2
  <2> QED
    BY <2>1, <2>2, <2>3, <2>4, <2>5 DEF HTypeOK
<1> QED
  BY <1>1, <1>2, <1>3 DEF Deliver

\* A delivery leaves every handler's stack as it found it.
LEMMA DeliverStack ==
    ASSUME HTypeOK, StackBalanced, NEW v \in TaskVectors, NEW soft \in BOOLEAN,
           NEW p, soft => v \notin ErrorCodeVectors, Deliver(v, soft, p)
    PROVE  StackBalanced'
<1>1. CASE Handle(v, soft, p)
  <2>1. Pushed(v, soft) = Popped(v)
    BY DEF Pushed, Popped, PopVectors, ErrorCodeVectors
  <2>2. Pushed(v, soft) \in Int
    BY TableTypes
  <2> QED
    BY <1>1, <2>1, <2>2 DEF Handle, StackBalanced, HTypeOK
<1> QED
  BY <1>1 DEF Deliver, Overrun, CountOut, StackBalanced

\* A delivery keeps the bound on the counted exceptions.
LEMMA DeliverCounted ==
    ASSUME HTypeOK, CountedBound, NEW v \in TaskVectors, NEW soft \in BOOLEAN,
           NEW p, Deliver(v, soft, p), cpu = "run"
    PROVE  CountedBound'
<1> USE DEF CounterInit, CountedVectors, AOrB
<1>0. counted \in 0..9 /\ counter = 10 - counted
  BY DEF CountedBound, HTypeOK
<1>1. CASE Overrun(v)
  BY <1>0, <1>1 DEF Overrun, CountedBound
<1>2. CASE CountOut(v)
  BY <1>0, <1>2 DEF CountOut, CountedBound
<1>3. CASE Handle(v, soft, p)
  <2>1. CASE v \in CountedVectors
    BY <1>0, <1>3, <2>1 DEF Handle, CountedBound, Dec
  <2>2. CASE v \notin CountedVectors
    BY <1>0, <1>3, <2>2 DEF Handle, CountedBound
  <2> QED
    BY <2>1, <2>2
<1> QED
  BY <1>1, <1>2, <1>3 DEF Deliver

\* The handlers of exceptions have a jmp back behind their iret.  That of vector
\* 32 has none; 32 is not an exception.
EntersAtBegin == \A v \in Vectors : heip[v] # "end"

\* A delivery leaves no handler of an exception behind its iret.
LEMMA DeliverEntry ==
    ASSUME HTypeOK, EntersAtBegin, NEW v \in TaskVectors, NEW soft, NEW p,
           Deliver(v, soft, p)
    PROVE  EntersAtBegin'
BY HandlersAssumption
   DEF Deliver, Overrun, CountOut, Handle, EntersAtBegin, HTypeOK, ResumesAt

\* The invariant that is inductive.
HInv == HTypeOK /\ StackBalanced /\ CountedBound /\ EntersAtBegin

\* Under any testcase task the handlers keep their stacks and stop at the tenth
\* #10 or #11.
THEOREM HandlersCorrect == HSpec => [](HTypeOK /\ StackBalanced /\ CountedBound)
<1>1. HInit => HInv
  <2> SUFFICES ASSUME HInit PROVE HInv
    OBVIOUS
  <2>1. HTypeOK
    BY TableTypes DEF HInit, HTypeOK
  <2>2. StackBalanced /\ CountedBound /\ EntersAtBegin
    BY HandlersAssumption DEF HInit, StackBalanced, CountedBound, EntersAtBegin, CounterInit
  <2> QED
    BY <2>1, <2>2 DEF HInv
<1>2. HInv /\ [HNext]_hvars => HInv'
  <2> SUFFICES ASSUME HInv, [HNext]_hvars PROVE HInv'
    OBVIOUS
  <2> USE DEF HInv
  <2>1. CASE UNCHANGED hvars
    BY <2>1 DEF hvars, HTypeOK, StackBalanced, CountedBound, EntersAtBegin
  <2>2. ASSUME NEW p \in Points, NEW r \in Points, TaskStep(p, r) PROVE HInv'
    BY <2>2 DEF TaskStep, HTypeOK, StackBalanced, CountedBound, EntersAtBegin
  <2>3. ASSUME NEW v \in Vectors, Exception(v) PROVE HInv'
    <3>1. v \in TaskVectors
      BY HandlersAssumption
    <3>2. Deliver(v, FALSE, eip) /\ cpu = "run" /\ eip \in Points
      BY Zenon, <2>3 DEF Exception, Deliver, HTypeOK
    <3> QED
      BY Zenon, <3>1, <3>2, DeliverType, DeliverStack, DeliverCounted, DeliverEntry
  <2>4. ASSUME NEW v \in SoftInts, NEW p \in Points, SoftInt(v, p) PROVE HInv'
    <3>1. v \in TaskVectors /\ v \notin ErrorCodeVectors
      BY HandlersAssumption
    <3>2. Deliver(v, TRUE, p) /\ cpu = "run"
      BY Zenon, <2>4 DEF SoftInt, Deliver
    <3> QED
      BY Zenon, <3>1, <3>2, DeliverType, DeliverStack, DeliverCounted, DeliverEntry
  <2> QED
    BY <2>1, <2>2, <2>3, <2>4 DEF HNext
<1> QED
  BY <1>1, <1>2, PTL DEF HSpec, HInv

\* However many exceptions and software interrupts the task meets and whichever
\* vectors push an error code, every handler task is left with the stack
\* pointer it was entered with (exception_handlers.S).
THEOREM StacksBalanced == HSpec => []StackBalanced
BY HandlersCorrect, PTL

HIDE DEF TaskVectors

-----------------------------------------------------------------------------
(* The program. *)


\* What the assumptions say of one gadget of the program.
LEMMA Gadget ==
    ASSUME NEW a \in 1..Last
    PROVE  /\ Image[a].op \in Ops
           /\ Image[a].tc \in Nat
           /\ Image[a].op \in Stores \cup {"jmp"} =>
                 /\ Image[a].to \in (a + 1)..Last
                 /\ Image[Image[a].to].op \in Stores \cup {"end"}
           /\ Image[a].op = "loop" => Image[a].to \in 1..a
           /\ Image[a].op \in {"param", "revert"} => Image[a].arg \in Params
           /\ Image[a].op # "hlt" => a + 1 \in 1..Last
           /\ Image[a].op = "end" => Image[a + 1].op = "hlt"
<1>1. Image[a] \in [op : Ops, seg : Segs, tc : Nat, to : Nat, arg : Params \cup {0}]
  <2> DEFINE S == [op : Ops, seg : Segs, tc : Nat, to : Nat, arg : Params \cup {0}]
  <2>1. Image \in Seq(S)
    BY TestcaseAssumption
  <2> HIDE DEF S
  <2>2. Image[a] \in S
    BY <2>1 DEF Last
  <2> QED
    BY <2>2 DEF S
<1>2. Last \in Nat
  BY TestcaseAssumption DEF Last
<1>3. Image[a].op \in Ops /\ Image[a].tc \in Nat
  BY <1>1
<1>4. Image[a].op \in Stores \cup {"jmp"} =>
         /\ Image[a].to \in (a + 1)..Last
         /\ Image[Image[a].to].op \in Stores \cup {"end"}
  BY TargetsAssumption, LabelsAssumption
<1>5. /\ Image[a].op = "loop" => Image[a].to \in 1..a
      /\ Image[a].op \in {"param", "revert"} => Image[a].arg \in Params
      /\ a = Last <=> Image[a].op = "hlt"
      /\ Image[a].op = "end" => a = Last - 1
  BY TargetsAssumption
<1>6. Image[a].op # "hlt" => a + 1 \in 1..Last
  BY <1>2, <1>5
<1>7. Image[a].op = "end" => Image[a + 1].op = "hlt"
  <2> SUFFICES ASSUME Image[a].op = "end" PROVE Image[a + 1].op = "hlt"
    OBVIOUS
  <2>1. a + 1 = Last /\ a + 1 \in 1..Last
    BY <1>2, <1>5
  <2> QED
    BY <2>1, TargetsAssumption
<1> QED
  BY <1>3, <1>4, <1>5, <1>6, <1>7

-----------------------------------------------------------------------------
(* Type correctness. *)

\* Whatever a gadget does to memory, it leaves it well typed.
LEMMA EffectType ==
    ASSUME DataTypeOK, NEW a \in 1..Last, Effect(Image[a])
    PROVE  DataTypeOK'
<1> DEFINE g == Image[a]
<1>0. g.tc \in Nat /\ (g.op \in {"param", "revert"} => g.arg \in Params)
  BY Gadget
<1>1. CASE set_count
  BY SMTT(60), <1>1, TestcaseAssumption DEF set_count, DataTypeOK
<1>2. ASSUME NEW t \in Nat, g.arg \in Params, set_param(g.arg, t) PROVE DataTypeOK'
  BY <1>2 DEF set_param, DataTypeOK
<1>3. CASE set_r
  BY Zenon, <1>3 DEF set_r, DataTypeOK
<1>4. CASE backup
  BY <1>4 DEF backup, DataTypeOK
<1>5. ASSUME NEW r \in Operands, set_regs(r) PROVE DataTypeOK'
  BY <1>5 DEF set_regs, DataTypeOK
<1>6. CASE copy_r
  BY <1>6 DEF copy_r, DataTypeOK
<1>7. CASE feistel
  <2>1. round' = round + 1 /\ round \in Nat
    BY <1>7 DEF feistel, DataTypeOK
  <2>2. 1..round \subseteq 1..round' /\ round + 1 \in 1..round'
    BY <2>1
  <2> QED
    BY <1>7, <2>1, <2>2 DEF feistel, DataTypeOK
<1>8. CASE update
  BY <1>8 DEF update, DataTypeOK
<1>9. CASE dec_count
  BY <1>9, TableTypes DEF dec_count, DataTypeOK
<1>10. CASE Skip
  BY <1>10 DEF Skip, data, DataTypeOK
<1> QED
  <2>1. "input" \in Operands /\ "outcome" \in Operands /\ bak \in Operands /\ 0 \in Nat
    BY DEF Operands, DataTypeOK
  <2> QED
    BY <1>0, <1>1, <1>2, <1>3, <1>4, <1>5, <1>6, <1>7, <1>8, <1>9, <1>10, <2>1 DEF Effect

\* While the program runs, the task is at one of its gadgets.
LEMMA AtGadget ==
    ASSUME TypeOK, cpu = "run"
    PROVE  eip \in 1..Last
BY TestcaseAssumption DEF TypeOK, HTypeOK, Last

\* Where an exception sends the task: nowhere known if nothing was stored yet,
\* nowhere if the machine halts, else to the return point (or, for a silent
\* handler, to the same gadget).
LEMMA Resume ==
    ASSUME TypeOK, EntersAtBegin, NEW v \in Vectors, Exception(v)
    PROVE  /\ v \in TaskVectors /\ Deliver(v, FALSE, eip)
           /\ heip'[32] = heip[32]
           /\ retp' = retp
           /\ \/ cpu' = "wild" /\ eip' = eip /\ retp = NoPoint
              \/ cpu' = "hlt" /\ eip' = eip
              \/ cpu' = "run" /\ (eip' = eip \/ (retp # NoPoint /\ eip' = retp))
<1>1. v \in TaskVectors /\ v # 32 /\ 32 \in TaskVectors
  BY HandlersAssumption DEF TaskVectors
<1>2. cpu = "run" /\ heip[v] # "end" /\ Deliver(v, FALSE, eip)
  BY Zenon DEF Exception, EntersAtBegin, Deliver
<1>3. CASE CountOut(v)
  BY Zenon, <1>1, <1>2, <1>3 DEF CountOut
<1>4. CASE Handle(v, FALSE, eip)
  <2>1. heip'[32] = heip[32] /\ retp' = retp
    BY <1>1, <1>4 DEF Handle, TypeOK, HTypeOK
  <2>2. CASE v \in SilentVectors
    BY Zenon, <1>1, <1>2, <1>4, <2>1, <2>2 DEF Handle
  <2>3. CASE v \notin SilentVectors
    BY Zenon, <1>1, <1>2, <1>4, <2>1, <2>3 DEF Handle
  <2> QED
    BY Zenon, <2>2, <2>3
<1> QED
  BY Zenon, <1>2, <1>3, <1>4 DEF Deliver, Overrun

\* What int $0x20 does: on to the hlt, unless its handler was used up.
LEMMA Finish ==
    ASSUME TypeOK, EndOfTest
    PROVE  /\ Deliver(32, TRUE, eip + 1) /\ eip + 1 \in 1..Last /\ cpu = "run"
           /\ Image[eip + 1].op = "hlt"
           /\ retp' = retp
           /\ \/ cpu' = "wild" /\ heip[32] = "end" /\ eip' = eip
              \/ cpu' = "run" /\ eip' = eip + 1
<1>1. cpu = "run" /\ eip \in 1..Last /\ op = "end"
  BY AtGadget DEF EndOfTest
<1>2. eip + 1 \in 1..Last /\ Image[eip + 1].op = "hlt"
  BY <1>1, Gadget DEF op
<1>3. Deliver(32, TRUE, eip + 1)
  BY Zenon DEF EndOfTest, SoftInt, Deliver
<1>4. ~ CountOut(32)
  BY DEF CountOut, CountedVectors
<1> QED
  BY Zenon, <1>1, <1>2, <1>3, <1>4 DEF Deliver, Overrun, Handle, SilentVectors

\* retp only ever holds a label of the program.
AtLabel ==
    retp # NoPoint => retp \in 1..Last /\ Image[retp].op \in Stores \cup {"end"}

\* The type invariant is inductive together with two others: the handlers are
\* not entered behind their iret and the return point is in the program.
LEMMA TypeStep ==
    ASSUME TypeOK, EntersAtBegin, AtLabel, [Next]_vars
    PROVE  TypeOK'
<1>1. CASE UNCHANGED vars
  BY <1>1 DEF vars, hvars, data, TypeOK, HTypeOK, DataTypeOK
<1>2. CASE switch_to_testcase_task
  <2>1. HTypeOK'
    <3>1. heip' \in [TaskVectors -> {"begin", "jmp", "end"}]
      BY Zenon, <1>2, TableTypes DEF switch_to_testcase_task, TypeOK, HTypeOK
    <3>2. eip' \in Points /\ counter' \in 0..WordMax
      BY <1>2, TestcaseAssumption, TableTypes DEF switch_to_testcase_task, Last
    <3> QED
      BY <1>2, <3>1, <3>2 DEF switch_to_testcase_task, TypeOK, HTypeOK
  <2>2. DataTypeOK'
    BY <1>2 DEF switch_to_testcase_task, data, TypeOK, DataTypeOK
  <2> QED
    BY <1>2, <2>1, <2>2 DEF switch_to_testcase_task, TypeOK
<1>3. CASE Execute
  <2>1. cpu = "run" /\ eip \in 1..Last /\ op \notin {"end", "hlt"} /\ Effect(Image[eip])
    BY <1>3, AtGadget DEF Execute
  <2>2. DataTypeOK'
    BY <2>1, EffectType DEF TypeOK
  <2>3. eip' \in 1..Last
    <3>1. eip' = Image[eip].to \/ eip' = eip + 1
      BY <1>3 DEF Execute, NextEip
    <3>2. eip' = Image[eip].to /\ eip' # eip + 1 => Image[eip].op \in {"jmp", "loop"}
      BY <1>3 DEF Execute, NextEip
    <3>3. eip + 1 \in 1..Last
      BY <2>1, Gadget DEF op
    <3>4. Image[eip].op \in {"jmp", "loop"} => Image[eip].to \in 1..Last
      <4>1. CASE Image[eip].op = "jmp"
        <5>1. Image[eip].to \in (eip + 1)..Last
          BY <2>1, <4>1, Gadget
        <5> QED
          BY <2>1, <5>1
      <4>2. CASE Image[eip].op = "loop"
        <5>1. Image[eip].to \in 1..eip
          BY <2>1, <4>2, Gadget
        <5>2. Last \in Nat
          BY TestcaseAssumption DEF Last
        <5> QED
          BY <2>1, <5>1, <5>2
      <4> QED
        BY <4>1, <4>2
    <3> QED
      BY <3>1, <3>2, <3>3, <3>4
  <2>4. retp' \in Points \cup {NoPoint}
    <3>1. CASE op \in Stores
      <4>1. retp' = Image[eip].to /\ Image[eip].to \in (eip + 1)..Last
        BY <1>3, <2>1, <3>1, Gadget DEF Execute, NextRetp, op
      <4> QED
        BY <2>1, <4>1, TestcaseAssumption DEF Last
    <3>2. CASE op \notin Stores
      BY <1>3, <3>2 DEF Execute, NextRetp, op, TypeOK, HTypeOK
    <3> QED
      BY <3>1, <3>2
  <2>5. eip' \in Points /\ eip' # 0
    BY <2>3, TestcaseAssumption DEF Last
  <2> QED
    BY <1>3, <2>1, <2>2, <2>4, <2>5 DEF Execute, TypeOK, HTypeOK
<1>4. ASSUME NEW v \in Vectors, Fault(v) PROVE TypeOK'
  <2>1. cpu = "run" /\ eip \in 1..Last /\ Exception(v) /\ eip \in Points
    BY <1>4, AtGadget DEF Fault, TypeOK, HTypeOK
  <2>2. DataTypeOK'
    <3>1. CASE Effect(Image[eip])
      BY <2>1, <3>1, EffectType DEF TypeOK
    <3>2. CASE Skip
      BY <3>2 DEF Skip, data, TypeOK, DataTypeOK
    <3> QED
      BY <1>4, <3>1, <3>2 DEF Fault
  <2>3. HTypeOK'
    BY Zenon, <2>1, Resume, DeliverType DEF TypeOK
  <2>4. cpu' # "boot" /\ eip' # 0
    <3>1. retp # NoPoint => retp \in 1..Last
      BY DEF AtLabel
    <3>2. \/ cpu' = "wild" /\ eip' = eip
          \/ cpu' = "hlt" /\ eip' = eip
          \/ cpu' = "run" /\ (eip' = eip \/ (retp # NoPoint /\ eip' = retp))
      BY Zenon, <2>1, Resume
    <3> QED
      BY <2>1, <3>1, <3>2
  <2> QED
    BY <2>2, <2>3, <2>4 DEF TypeOK
<1>5. CASE EndOfTest
  <2>1. DataTypeOK'
    BY <1>5 DEF EndOfTest, data, TypeOK, DataTypeOK
  <2>2. HTypeOK'
    <3>1. eip + 1 \in Points /\ 32 \in TaskVectors
      BY <1>5, Finish, TestcaseAssumption DEF Last, TaskVectors
    <3> QED
      BY ZenonT(60), <1>5, <3>1, Finish, DeliverType DEF TypeOK
  <2>3. cpu' # "boot" /\ eip' # 0
    <3>1. eip \in 1..Last /\ eip + 1 \in 1..Last
      BY <1>5, Finish, AtGadget
    <3>2. (cpu' = "wild" /\ eip' = eip) \/ (cpu' = "run" /\ eip' = eip + 1)
      BY <1>5, Finish
    <3> QED
      BY <3>1, <3>2
  <2> QED
    BY <2>1, <2>2, <2>3 DEF TypeOK
<1>6. CASE Halt
  BY <1>6 DEF Halt, data, TypeOK, HTypeOK, DataTypeOK
<1> QED
  BY <1>1, <1>2, <1>3, <1>4, <1>5, <1>6 DEF Next

-----------------------------------------------------------------------------
(* The flow of control. *)

\* Without a return point the task is still at the first prologue.
FirstStore == cpu = "run" /\ retp = NoPoint => eip = 1

\* Handler 32 has been used only when "int $0x20" is behind the task.
EndOnce == cpu \in {"boot", "run"} /\ heip[32] = "end" => cpu = "run" /\ op = "hlt"

\* The inductive invariant.
Control ==
    /\ TypeOK
    /\ EntersAtBegin
    /\ AtLabel
    /\ ReturnPointAhead
    /\ FirstStore
    /\ EndOnce
    /\ WildOnlyAtStart

LEMMA ControlInit == Init => Control
<1> SUFFICES ASSUME Init PROVE Control
  OBVIOUS
<1>1. HTypeOK
  <2>1. eip \in Points /\ counter \in 0..WordMax
    BY TestcaseAssumption, HandlersAssumption DEF Init, Last
  <2> QED
    BY <2>1 DEF Init, HTypeOK
<1>2. DataTypeOK
  BY HandlersAssumption DEF Init, DataTypeOK, Operands
<1>3. EntersAtBegin /\ heip[32] # "end"
  BY HandlersAssumption DEF Init, EntersAtBegin, TaskVectors
<1> QED
  BY <1>1, <1>2, <1>3 DEF Init, Control, TypeOK, AtLabel, ReturnPointAhead,
                          FirstStore, EndOnce, WildOnlyAtStart

\* A gadget executed to its end keeps the invariant: its successor is a label
\* or is still before the return point, which is a label itself.
LEMMA ExecuteControl ==
    ASSUME Control, Execute, TypeOK'
    PROVE  Control'
<1> DEFINE g == Image[eip]
<1>1. /\ cpu = "run" /\ cpu' = "run" /\ eip \in 1..Last /\ eip' \in 1..Last
      /\ g.op \notin {"end", "hlt"} /\ heip' = heip
  <2>1. cpu = "run" /\ cpu' = "run"
    BY DEF Execute
  <2>2. eip \in 1..Last
    BY <2>1, AtGadget DEF Control
  <2>3. eip' \in 1..Last
    BY <2>1, TestcaseAssumption DEF TypeOK, HTypeOK, Last
  <2> QED
    BY <2>1, <2>2, <2>3 DEF Execute, op
<1>2. /\ retp' \in 1..Last /\ retp' > eip /\ retp' # NoPoint
      /\ Image[retp'].op \in Stores \cup {"end"}
  <2>1. CASE g.op \in Stores
    <3>1. retp' = g.to
      BY <2>1 DEF Execute, NextRetp
    <3>2. g.to \in (eip + 1)..Last /\ Image[g.to].op \in Stores \cup {"end"}
      BY <1>1, <2>1, Gadget
    <3>3. g.to \in 1..Last /\ g.to > eip
      BY <1>1, <3>2
    <3>4. g.to \in Points
      BY SMTT(60), <3>3, TestcaseAssumption DEF Last
    <3> QED
      BY <3>1, <3>2, <3>3, <3>4, HandlersAssumption
  <2>2. CASE g.op \notin Stores
    BY <1>1, <2>2 DEF Execute, NextRetp, Control, ReturnPointAhead, AtLabel, op
  <2> QED
    BY <2>1, <2>2
<1>3. Image[eip'].op \in Stores \cup {"end"} \/ eip' < retp'
  <2>1. CASE g.op = "jmp"
    BY <1>1, <2>1, Gadget DEF Execute, NextEip
  <2>2. CASE g.op = "loop" /\ eip' = g.to
    <3>1. g.to \in 1..eip
      BY <1>1, <2>2, Gadget
    <3> QED
      BY <1>1, <1>2, <2>2, <3>1
  <2>3. CASE eip' = eip + 1
    <3>1. eip' = retp' \/ eip' < retp'
      BY <1>1, <1>2, <2>3
    <3> QED
      BY <1>2, <3>1
  <2> QED
    BY <2>1, <2>2, <2>3 DEF Execute, NextEip
<1>4. AtLabel' /\ FirstStore'
  BY <1>2 DEF AtLabel, FirstStore
<1>5. ReturnPointAhead'
  BY <1>1, <1>2, <1>3 DEF ReturnPointAhead, op
<1>6. EntersAtBegin' /\ EndOnce' /\ WildOnlyAtStart'
  BY <1>1 DEF Control, EntersAtBegin, EndOnce, WildOnlyAtStart, op
<1> QED
  BY <1>4, <1>5, <1>6 DEF Control

\* An exception keeps it: the handler goes to a label.
LEMMA FaultControl ==
    ASSUME Control, NEW v \in Vectors, Fault(v), TypeOK'
    PROVE  Control'
<1>1. /\ cpu = "run" /\ eip \in 1..Last /\ op \notin {"end", "hlt"}
      /\ Exception(v) /\ TypeOK /\ EntersAtBegin /\ AtLabel
  BY AtGadget, TestcaseAssumption DEF Fault, Control
<1>2. /\ v \in TaskVectors /\ Deliver(v, FALSE, eip)
      /\ heip'[32] = heip[32] /\ retp' = retp
  BY Zenon, <1>1, Resume
<1>3. \/ cpu' = "wild" /\ eip' = eip /\ retp = NoPoint
      \/ cpu' = "hlt" /\ eip' = eip
      \/ cpu' = "run" /\ (eip' = eip \/ (retp # NoPoint /\ eip' = retp))
  BY Zenon, <1>1, Resume
<1>4. EntersAtBegin'
  BY Zenon, <1>1, <1>2, DeliverEntry DEF TypeOK
<1>5. AtLabel'
  BY <1>1, <1>2 DEF AtLabel
<1>6. ReturnPointAhead'
  BY <1>1, <1>2, <1>3 DEF Control, ReturnPointAhead, AtLabel, op
<1>7. FirstStore' /\ WildOnlyAtStart'
  BY <1>1, <1>2, <1>3 DEF Control, FirstStore, WildOnlyAtStart
<1>8. EndOnce'
  BY <1>1, <1>2, <1>3 DEF Control, EndOnce
<1> QED
  BY <1>4, <1>5, <1>6, <1>7, <1>8 DEF Control

LEMMA ControlStep == Control /\ [Next]_vars => Control'
<1> SUFFICES ASSUME Control, [Next]_vars PROVE Control'
  OBVIOUS
<1>0. TypeOK'
  BY TypeStep DEF Control
<1>1. CASE UNCHANGED vars
  BY <1>0, <1>1 DEF vars, hvars, Control, EntersAtBegin, AtLabel, ReturnPointAhead,
                    FirstStore, EndOnce, WildOnlyAtStart, op
<1>2. CASE switch_to_testcase_task
  <2>1. cpu = "boot" /\ cpu' = "run" /\ eip' = 1 /\ Image[1].op = "prologue" /\ retp' = retp
    BY <1>2, LabelsAssumption DEF switch_to_testcase_task
  <2>2. EntersAtBegin' /\ heip'[32] = heip[32]
    BY <1>2 DEF switch_to_testcase_task, Control, EntersAtBegin, TypeOK, HTypeOK,
                ResumesAt, TaskVectors
  <2>3. AtLabel'
    BY <2>1 DEF Control, AtLabel
  <2>4. ReturnPointAhead' /\ FirstStore' /\ EndOnce' /\ WildOnlyAtStart'
    BY <2>1, <2>2 DEF Control, ReturnPointAhead, FirstStore, EndOnce, WildOnlyAtStart, op, Stores
  <2> QED
    BY <1>0, <2>2, <2>3, <2>4 DEF Control
<1>3. CASE Execute
  BY <1>0, <1>3, ExecuteControl
<1>4. ASSUME NEW v \in Vectors, Fault(v) PROVE Control'
  BY <1>0, <1>4, FaultControl
<1>5. CASE EndOfTest
  <2>1. /\ Deliver(32, TRUE, eip + 1) /\ cpu = "run" /\ op = "end" /\ retp' = retp
        /\ Image[eip + 1].op = "hlt"
        /\ \/ cpu' = "wild" /\ heip[32] = "end" /\ eip' = eip
           \/ cpu' = "run" /\ eip' = eip + 1
    BY Zenon, <1>5, Finish DEF Control, EndOfTest
  <2>2. cpu' = "run" /\ eip' = eip + 1
    BY <2>1 DEF Control, EndOnce
  <2>3. EntersAtBegin'
    BY ZenonT(60), <2>1, DeliverEntry DEF Control, TypeOK, TaskVectors
  <2>4. retp # NoPoint
    BY <2>1, LabelsAssumption DEF Control, FirstStore, op
  <2>5. AtLabel' /\ ReturnPointAhead' /\ FirstStore' /\ EndOnce' /\ WildOnlyAtStart'
    BY <2>1, <2>2, <2>4 DEF Control, AtLabel, ReturnPointAhead, FirstStore, EndOnce,
                            WildOnlyAtStart, op
  <2> QED
    BY <1>0, <2>3, <2>5 DEF Control
<1>6. CASE Halt
  BY <1>0, <1>6 DEF Halt, Control, EntersAtBegin, AtLabel, ReturnPointAhead,
                    FirstStore, EndOnce, WildOnlyAtStart
<1> QED
  BY <1>1, <1>2, <1>3, <1>4, <1>5, <1>6 DEF Next

\* The control invariant holds of every program of the assumed form, whichever
\* gadgets fault: on its own it is the basis of the theorems below.
THEOREM ControlHolds == Spec => []Control
BY ControlInit, ControlStep, PTL DEF Spec

\* Type correctness of the running program (generator, kernel and handlers
\* together).
THEOREM Typing == Spec => []TypeOK
<1>1. Control => TypeOK
  BY DEF Control
<1> QED
  BY <1>1, ControlHolds, PTL

\* Whichever gadgets fault, every gadget but the stores of return points runs
\* with its return point ahead (set by the "return to ..." gadgets of
\* gen_floppy_with_testcase, used by the handlers of interrupts-mod.c).
THEOREM AlwaysReturnPointAhead == Spec => []ReturnPointAhead
<1>1. Control => ReturnPointAhead
  BY DEF Control
<1> QED
  BY <1>1, ControlHolds, PTL

\* Whichever gadgets fault, the machine never runs away except on an exception
\* in the first prologue, before any return point was stored.
THEOREM NeverWild == Spec => []WildOnlyAtStart
<1>1. Control => WildOnlyAtStart
  BY DEF Control
<1> QED
  BY <1>1, ControlHolds, PTL

-----------------------------------------------------------------------------
(* The loop. *)

NoStoreFaults == FaultOps \cap Stores = {}

\* At the loop gadget the return point is behind it.
LoopReturn == cpu = "run" /\ op = "loop" => retp = eip + 1

\* The counter is not used up before the testcase is left.
CountLive ==
    cpu = "run" /\ MODE > 2 /\ op \notin {"prologue", "end", "hlt"} => count > 0

\* What the assumptions say of the loop gadget.
LEMMA LoopGadget ==
    ASSUME NEW a \in 1..Last, Image[a].op = "loop"
    PROVE  /\ MODE > 2 /\ a > 1 /\ Image[a - 1].op = "ret" /\ Image[a - 1].to = a + 1
           /\ a + 1 \in 1..Last /\ Image[a + 1].op \in {"prologue", "end"}
           /\ Image[a].to \in 1..a /\ Image[Image[a].to].op \notin {"loop", "prologue", "end"}
BY LoopAssumption, Gadget

\* Where a gadget executed to its end leads.
LEMMA Successor ==
    ASSUME Control, Execute
    PROVE  /\ cpu = "run" /\ cpu' = "run" /\ eip \in 1..Last /\ eip' \in 1..Last
           /\ op \notin {"end", "hlt"} /\ Effect(Image[eip])
           /\ \/ op = "jmp" /\ eip' = Image[eip].to
              \/ op = "loop" /\ count' # 0 /\ eip' = Image[eip].to
              \/ op # "jmp" /\ (op = "loop" => count' = 0) /\ eip' = eip + 1
<1>1. cpu = "run" /\ cpu' = "run" /\ op \notin {"end", "hlt"} /\ Effect(Image[eip])
  BY DEF Execute
<1>2. eip \in 1..Last
  BY <1>1, AtGadget DEF Control
<1>3. TypeOK'
  BY TypeStep DEF Control, Next
<1>4. eip' \in 1..Last
  BY SMTT(60), <1>1, <1>3, TestcaseAssumption DEF TypeOK, HTypeOK, Last
<1> QED
  BY <1>1, <1>2, <1>4 DEF Execute, NextEip, op

\* Only the prologue and the loop gadget touch the counter.
LEMMA CountEffect ==
    ASSUME NEW a \in 1..Last, Effect(Image[a])
    PROVE  /\ Image[a].op = "prologue" => count' = IF MODE > 2 THEN LOOP ELSE count
           /\ Image[a].op = "loop" => count' = Dec(count)
           /\ Image[a].op \notin {"prologue", "loop"} => count' = count
BY DEF Effect, set_count, set_param, set_r, backup, set_regs, copy_r, feistel, update,
   dec_count, Skip, data

\* Where a faulting gadget leads: to the return point, or back to itself with
\* nothing changed if the handler is silent.
LEMMA Faulting ==
    ASSUME Control, NEW v \in Vectors, Fault(v)
    PROVE  /\ cpu = "run" /\ eip \in 1..Last /\ op \notin {"end", "hlt"}
           /\ Faultable(eip) /\ retp' = retp
           /\ \/ cpu' # "run"
              \/ eip' = eip /\ Skip
              \/ eip' = retp /\ retp # NoPoint /\ (Effect(Image[eip]) \/ Skip)
<1>1. /\ cpu = "run" /\ eip \in 1..Last /\ op \notin {"end", "hlt"} /\ Faultable(eip)
      /\ Exception(v) /\ ((v \notin SilentVectors /\ Effect(Image[eip])) \/ Skip)
  BY AtGadget, TestcaseAssumption DEF Control, Fault, Faultable, op
<1>2. v \in TaskVectors /\ retp' = retp /\ Deliver(v, FALSE, eip)
  BY ZenonT(60), <1>1, Resume DEF Control
<1>3. CASE Overrun(v)
  BY <1>1, <1>2, <1>3 DEF Overrun
<1>4. CASE CountOut(v)
  BY <1>1, <1>2, <1>4 DEF CountOut
<1>5. CASE Handle(v, FALSE, eip)
  <2>1. CASE v \in SilentVectors
    BY <1>1, <1>2, <1>5, <2>1 DEF Handle
  <2>2. CASE v \notin SilentVectors
    BY <1>1, <1>2, <1>5, <2>2 DEF Handle
  <2> QED
    BY <2>1, <2>2
<1> QED
  BY Zenon, <1>2, <1>3, <1>4, <1>5 DEF Deliver

LEMMA LoopReturnStep ==
    ASSUME Control, LoopReturn, [Next]_vars
    PROVE  LoopReturn'
<1>0. TypeOK
  BY DEF Control
<1>1. CASE UNCHANGED vars
  BY <1>1 DEF vars, hvars, LoopReturn, op
<1>2. CASE switch_to_testcase_task
  BY <1>2, LabelsAssumption DEF switch_to_testcase_task, LoopReturn, op
<1>3. CASE Execute
  <2>1. eip \in 1..Last /\ eip' \in 1..Last
    BY <1>3, Successor
  <2>2. CASE op \in {"jmp", "loop"} /\ eip' = Image[eip].to
    BY <2>1, <2>2, Gadget, LoopGadget DEF LoopReturn, op, Stores
  <2>3. CASE eip' = eip + 1
    <3> SUFFICES ASSUME Image[eip'].op = "loop" PROVE retp' = eip' + 1
      BY DEF LoopReturn, op
    <3>1. Image[eip' - 1].op = "ret" /\ Image[eip' - 1].to = eip' + 1
      BY <2>1, LoopGadget
    <3>2. eip' - 1 = eip
      BY <2>1, <2>3
    <3> QED
      BY <1>3, <3>1, <3>2 DEF Execute, NextRetp, Stores
  <2> QED
    BY <1>3, <2>2, <2>3, Successor
<1>4. ASSUME NEW v \in Vectors, Fault(v) PROVE LoopReturn'
  <2>1. retp # NoPoint => Image[retp].op \in Stores \cup {"end"}
    BY DEF Control, AtLabel
  <2>2. /\ retp' = retp /\ cpu = "run"
        /\ cpu' # "run" \/ eip' = eip \/ (eip' = retp /\ retp # NoPoint)
    BY <1>4, Faulting
  <2> QED
    BY <2>1, <2>2 DEF LoopReturn, op, Stores
<1>5. CASE EndOfTest
  <2>1. Image[eip + 1].op = "hlt" /\ (cpu' = "run" => eip' = eip + 1)
    BY <1>0, <1>5, Finish
  <2> QED
    BY <2>1 DEF LoopReturn, op
<1>6. CASE Halt
  BY <1>6 DEF Halt, LoopReturn
<1> QED
  BY <1>1, <1>2, <1>3, <1>4, <1>5, <1>6 DEF Next

LEMMA LoopReturnHolds == Spec => []LoopReturn
<1>1. Init => LoopReturn
  BY DEF Init, LoopReturn
<1>2. Control /\ LoopReturn /\ [Next]_vars => LoopReturn'
  BY LoopReturnStep
<1> QED
  BY <1>1, <1>2, ControlHolds, PTL DEF Spec

LEMMA CountStep ==
    ASSUME NoStoreFaults, Control, LoopReturn, CountLive, [Next]_vars
    PROVE  CountLive'
<1>0. TypeOK /\ count \in Nat /\ LOOP > 0
  BY TestcaseAssumption, HandlersAssumption DEF Control, TypeOK, DataTypeOK
<1>1. CASE UNCHANGED vars
  BY <1>1 DEF vars, hvars, data, CountLive, op
<1>2. CASE switch_to_testcase_task
  BY <1>2, LabelsAssumption DEF switch_to_testcase_task, CountLive, op
<1>3. CASE Execute
  <2>1. /\ eip \in 1..Last /\ eip' \in 1..Last
        /\ cpu = "run" /\ op \notin {"end", "hlt"} /\ Effect(Image[eip])
    BY <1>3, Successor
  <2>2. CASE op = "loop" /\ count' # 0
    BY <1>0, <2>1, <2>2, LoopGadget, CountEffect DEF CountLive, op, Dec
  <2>3. CASE op = "loop" /\ eip' = eip + 1
    BY <2>1, <2>3, LoopGadget DEF CountLive, op
  <2>4. CASE op # "loop"
    BY <1>0, <2>1, <2>4, CountEffect DEF CountLive, op
  <2> QED
    BY <1>3, <2>2, <2>3, <2>4, Successor
<1>4. ASSUME NEW v \in Vectors, Fault(v) PROVE CountLive'
  <2>1. cpu = "run" /\ eip \in 1..Last /\ op \notin Stores \cup {"end", "hlt"}
    BY <1>4, Faulting DEF NoStoreFaults, Faultable, op
  <2>2. CASE cpu' # "run"
    BY <2>2 DEF CountLive
  <2>3. CASE eip' = eip /\ Skip
    BY <2>1, <2>3 DEF CountLive, op, Skip, data
  <2>4. CASE op = "loop" /\ eip' = retp
    BY <2>1, <2>4, LoopGadget DEF LoopReturn, CountLive, op
  <2>5. CASE op # "loop" /\ (Effect(Image[eip]) \/ Skip)
    <3>1. count' = count
      BY <2>1, <2>5, CountEffect DEF op, Stores, Skip, data
    <3> QED
      BY <2>1, <3>1 DEF CountLive, op, Stores
  <2> QED
    BY <1>4, <2>2, <2>3, <2>4, <2>5, Faulting
<1>5. CASE EndOfTest
  <2>1. Image[eip + 1].op = "hlt" /\ (cpu' = "run" => eip' = eip + 1)
    BY <1>0, <1>5, Finish
  <2> QED
    BY <2>1 DEF CountLive, op
<1>6. CASE Halt
  BY <1>6 DEF Halt, CountLive
<1> QED
  BY <1>1, <1>2, <1>3, <1>4, <1>5, <1>6 DEF Next

LEMMA CountLiveHolds == NoStoreFaults => (Spec => []CountLive)
<1> SUFFICES ASSUME NoStoreFaults PROVE Spec => []CountLive
  OBVIOUS
<1>1. Init => CountLive
  BY DEF Init, CountLive
<1>2. Control /\ LoopReturn /\ CountLive /\ [Next]_vars => CountLive'
  BY CountStep
<1> QED
  BY <1>1, <1>2, ControlHolds, LoopReturnHolds, PTL DEF Spec

\* One step of the program: exceptions go forward, and so does everything but
\* the loop gadget with the counter not used up.
LEMMA BackStep ==
    ASSUME NoStoreFaults, Control, CountLive, [Next]_vars, eip' < eip
    PROVE  op = "loop" /\ count' < count
<1>0. TypeOK /\ EntersAtBegin /\ eip \in Nat /\ count \in Nat
  BY TestcaseAssumption, HandlersAssumption DEF Control, TypeOK, HTypeOK, DataTypeOK
<1>1. CASE UNCHANGED vars
  BY <1>0, <1>1 DEF vars, hvars
<1>2. CASE switch_to_testcase_task
  BY <1>0, <1>2 DEF switch_to_testcase_task, TypeOK
<1>3. CASE Execute
  <2>1. /\ eip \in 1..Last /\ eip' \in 1..Last
        /\ cpu = "run" /\ op \notin {"end", "hlt"} /\ Effect(Image[eip])
    BY <1>3, Successor
  <2>2. CASE op = "jmp" /\ eip' = Image[eip].to
    BY <2>1, <2>2, Gadget DEF op
  <2>3. CASE op = "loop"
    BY <1>0, <2>1, <2>3, LoopGadget, CountEffect DEF CountLive, op, Dec
  <2> QED
    BY <1>3, <2>1, <2>2, <2>3, Successor
<1>4. ASSUME NEW v \in Vectors, Fault(v) PROVE FALSE
  <2>1. /\ cpu = "run" /\ eip \in 1..Last /\ op \notin Stores \cup {"end", "hlt"}
        /\ Exception(v)
    BY <1>4, Faulting DEF Fault, NoStoreFaults, Faultable, op
  <2>2. retp # NoPoint => retp > eip
    BY <2>1 DEF Control, ReturnPointAhead
  <2>3. eip' = eip \/ (retp # NoPoint /\ eip' = retp)
    BY Zenon, <1>0, <2>1, Resume
  <2>4. retp # NoPoint => retp \in Nat
    BY <1>0, TestcaseAssumption DEF TypeOK, HTypeOK
  <2> QED
    BY <1>0, <2>2, <2>3, <2>4
<1>5. CASE EndOfTest
  BY <1>0, <1>5, Finish
<1>6. CASE Halt
  BY <1>0, <1>6 DEF Halt
<1> QED
  BY <1>1, <1>2, <1>3, <1>4, <1>5, <1>6 DEF Next

\* Whichever gadgets other than the stores of return points fault, in any order
\* and number, the task goes backwards only in the loop gadget and then with a
\* smaller counter (gen_loop, and "jmp to next" of the handlers): no sequence of
\* exceptions makes the program run a gadget twice in one iteration.
THEOREM BackOnlyInLoop == NoStoreFaults => (Spec => OnlyLoopGoesBack)
<1> SUFFICES ASSUME NoStoreFaults PROVE Spec => OnlyLoopGoesBack
  OBVIOUS
<1>1. Control /\ CountLive /\ [Next]_vars => [eip' < eip => op = "loop" /\ count' < count]_vars
  BY BackStep
<1> QED
  BY <1>1, ControlHolds, CountLiveHolds, PTL DEF Spec, OnlyLoopGoesBack

-----------------------------------------------------------------------------
(* Where exceptions lead. *)

\* retp holds a label that some gadget stores, and at a gadget that stores none
\* it is one that the program's text says may be in force there.
LabelOf(s, r) == Image[s].op \in Stores /\ r = Image[s].to
Labelled ==
    /\ retp # NoPoint => \E s \in 1..Last : LabelOf(s, retp)
    /\ cpu = "run" /\ op \notin Stores \cup {"end", "hlt"}
          => \E s \in 1..Last : LabelOf(s, retp) /\ InForce(s, eip)

LEMMA LastIsNat == Last \in Nat
BY TestcaseAssumption DEF Last

LEMMA InForceOn ==
    ASSUME NEW s \in 1..Last, NEW a \in 1..Last, InForce(s, a), Image[a].op \notin Stores
    PROVE  InForce(s, a + 1)
<1>1. ASSUME NEW b \in Int, NoStore(b, a) PROVE NoStore(b, a + 1)
  BY <1>1 DEF NoStore
<1>2. CASE s < a /\ NoStore(s + 1, a)
  BY <1>1, <1>2 DEF InForce
<1>3. CASE /\ s < Last /\ Image[s + 1].op = "loop"
           /\ Image[s + 1].to <= a /\ NoStore(Image[s + 1].to, a)
  <2>1. s + 1 \in 1..Last
    BY <1>3, LastIsNat
  <2>2. Image[s + 1].to \in Int
    BY <1>3, <2>1, LoopGadget
  <2> QED
    BY <1>1, <1>3, <2>2 DEF InForce
<1> QED
  BY <1>2, <1>3 DEF InForce

LEMMA LabelledStep ==
    ASSUME Control, LoopReturn, Labelled, [Next]_vars
    PROVE  Labelled'
<1>0. TypeOK /\ Last \in Nat
  BY Zenon, LastIsNat DEF Control
<1>1. CASE UNCHANGED vars
  BY <1>1 DEF vars, hvars, Labelled, LabelOf, op
<1>2. CASE switch_to_testcase_task
  BY <1>2, LabelsAssumption DEF switch_to_testcase_task, Labelled, LabelOf, op, Stores
<1>3. CASE Execute
  <2>1. /\ cpu = "run" /\ eip \in 1..Last /\ eip' \in 1..Last /\ op \notin {"end", "hlt"}
        /\ retp' = NextRetp(Image[eip])
    BY <1>3, Successor DEF Execute
  <2>2. CASE op \in Stores
    <3>1. LabelOf(eip, retp') /\ eip' = eip + 1
      BY <1>3, <2>1, <2>2, Successor DEF LabelOf, NextRetp, op, Stores
    <3>2. InForce(eip, eip + 1)
      BY <2>1 DEF InForce, NoStore
    <3> QED
      BY <2>1, <3>1, <3>2 DEF Labelled, LabelOf
  <2>3. CASE op \notin Stores
    <3>1. retp' = retp
      BY <2>1, <2>3 DEF NextRetp, op
    <3>2. PICK s \in 1..Last : LabelOf(s, retp) /\ InForce(s, eip)
      BY <2>1, <2>3 DEF Labelled
    <3>3. LabelOf(s, retp')
      BY Zenon, <3>1, <3>2 DEF LabelOf
    <3>4. CASE op = "jmp" /\ eip' = Image[eip].to
      BY SMTT(60), <2>1, <3>3, <3>4, Gadget DEF Labelled, op
    <3>5. CASE op = "loop" /\ eip' = Image[eip].to
      <4>0. eip > 1 /\ Image[eip - 1].op = "ret" /\ Image[eip - 1].to = eip + 1
        BY <2>1, <3>5, LoopGadget DEF op
      <4>1. /\ eip - 1 \in 1..Last /\ Image[eip - 1].op \in Stores
            /\ Image[eip - 1].to = eip + 1 /\ retp = eip + 1
        BY <1>0, <2>1, <3>5, <4>0 DEF LoopReturn, Stores
      <4>2. LabelOf(eip - 1, retp')
        BY <3>1, <4>1 DEF LabelOf
      <4>3. NoStore(eip', eip')
        <5>1. eip' \in Int
          BY <1>0, <2>1
        <5>2. \A a \in Int : NoStore(a, a)
          BY DEF NoStore
        <5> QED
          BY <5>1, <5>2
      <4>4. InForce(eip - 1, eip')
        <5>1. eip - 1 < Last /\ (eip - 1) + 1 = eip /\ eip' <= eip'
          BY <1>0, <2>1
        <5> QED
          BY <3>5, <4>3, <5>1 DEF InForce, op
      <4> QED
        BY <4>1, <4>2, <4>4 DEF Labelled, LabelOf
    <3>6. CASE eip' = eip + 1
      <4>1. InForce(s, eip')
        BY <2>1, <2>3, <3>2, <3>6, InForceOn DEF op
      <4> QED
        BY <3>3, <4>1 DEF Labelled, LabelOf
    <3> QED
      BY <1>3, <3>4, <3>5, <3>6, Successor
  <2> QED
    BY <2>2, <2>3
<1>4. ASSUME NEW v \in Vectors, Fault(v) PROVE Labelled'
  <2>1. retp # NoPoint => Image[retp].op \in Stores \cup {"end"}
    BY DEF Control, AtLabel
  <2>2. /\ retp' = retp /\ cpu = "run"
        /\ cpu' # "run" \/ eip' = eip \/ (eip' = retp /\ retp # NoPoint)
    BY <1>4, Faulting
  <2> QED
    BY <2>1, <2>2 DEF Labelled, LabelOf, op
<1>5. CASE EndOfTest
  <2>1. Image[eip + 1].op = "hlt" /\ (cpu' = "run" => eip' = eip + 1) /\ retp' = retp
    BY Zenon, <1>0, <1>5, Finish
  <2> QED
    BY <2>1 DEF Labelled, LabelOf, op
<1>6. CASE Halt
  BY <1>6 DEF Halt, Labelled, LabelOf
<1> QED
  BY <1>1, <1>2, <1>3, <1>4, <1>5, <1>6 DEF Next

\* A fault that does not leave the task where it is leads to an entry.
LEMMA FaultEnters ==
    ASSUME Control, Labelled, NEW v \in Vectors, Fault(v), cpu' = "run"
    PROVE  (eip' = eip /\ Skip) \/ (eip' \in Entries /\ eip' > 1)
<1>1. /\ cpu = "run" /\ eip \in 1..Last /\ op \notin {"end", "hlt"} /\ Faultable(eip)
      /\ (eip' = eip /\ Skip) \/ (eip' = retp /\ retp # NoPoint)
  BY Faulting
<1> SUFFICES ASSUME eip' = retp, retp # NoPoint PROVE eip' \in Entries /\ eip' > 1
  BY <1>1
<1>2. PICK s \in 1..Last : LabelOf(s, retp) /\ (op \in Stores \/ InForce(s, eip))
  BY <1>1 DEF Labelled
<1>3. Catches(s)
  BY <1>1, <1>2 DEF Catches, LabelOf, op
<1>4. Image[s].to > 1
  BY <1>2, Gadget DEF LabelOf
<1> QED
  BY <1>2, <1>3, <1>4 DEF Entries, LabelOf

LEMMA LabelledHolds == Spec => []Labelled
<1>1. Init => Labelled
  BY DEF Init, Labelled
<1>2. Control /\ LoopReturn /\ Labelled /\ [Next]_vars => Labelled'
  BY LabelledStep
<1> QED
  BY <1>1, <1>2, ControlHolds, LoopReturnHolds, PTL DEF Spec

-----------------------------------------------------------------------------
(* What the text guarantees on a way without entries. *)

\* What gadget b did is still in force at a if b was the last to do it.
Wrote(b, a) ==
    /\ \A p \in Params : LatestOf(b, a, p) =>
          state[p] = IF Image[b].op = "param" THEN Image[b].tc ELSE 0
    /\ Image[b].op = "setinput" /\ Latest(b, a, {"setinput", "insn", "restore"})
          => regs = "input"
    /\ Image[b].op = "copyr" /\ Latest(b, a, {"copyr", "setr", "feistel"}) => Rbak = R
    /\ Image[b].op = "loop" /\ Latest(b, a, {"loop", "prologue"}) => count = 0

LastWrites == cpu = "run" => \A b \in 1..Last : Wrote(b, eip)

LEMMA StraightBack ==
    ASSUME NEW a \in 1..Last, NEW b \in 1..Last
    PROVE  /\ Straight(b, a) => a \notin Entries
           /\ Straight(b, a + 1) => a + 1 \notin Entries
           /\ Straight(b, a + 1) /\ b # a => Straight(b, a)
           /\ \A ops : Latest(b, a + 1, ops) /\ b # a =>
                 Latest(b, a, ops) /\ Image[a].op \notin ops
           /\ \A p : LatestOf(b, a + 1, p) /\ b # a => LatestOf(b, a, p) /\ ~Sets(a, p)
<1>0. Last \in Nat
  BY LastIsNat
<1>1. Straight(b, a) => a \notin Entries
  BY <1>0 DEF Straight
<1>2. Straight(b, a + 1) => a + 1 \notin Entries
  BY <1>0 DEF Straight
<1>3. Straight(b, a + 1) /\ b # a => Straight(b, a) /\ b < a
  BY <1>0 DEF Straight
<1>4. ASSUME NEW ops, Latest(b, a + 1, ops), b # a
      PROVE  Latest(b, a, ops) /\ Image[a].op \notin ops
  BY <1>0, <1>3, <1>4 DEF Latest
<1>5. ASSUME NEW p, LatestOf(b, a + 1, p), b # a
      PROVE  LatestOf(b, a, p) /\ ~Sets(a, p)
  BY SMTT(60), <1>0, <1>3, <1>5 DEF LatestOf
<1> QED
  BY <1>1, <1>2, <1>3, <1>4, <1>5

\* A gadget followed by the next one keeps what is in force.
LEMMA WroteOn ==
    ASSUME TypeOK, LastWrites, cpu = "run", eip \in 1..Last, eip' = eip + 1,
           Effect(Image[eip]) \/ (op = "end" /\ Skip), op = "loop" => count' = 0,
           NEW b \in 1..Last
    PROVE  Wrote(b, eip)'
<1> USE DEF set_count, set_param, set_r, backup, set_regs, copy_r, feistel, update,
        dec_count, Skip, data
<1>0. Wrote(b, eip) /\ state \in [Params -> Nat]
  BY DEF LastWrites, TypeOK, DataTypeOK
<1>1. ASSUME NEW p \in Params, LatestOf(b, eip + 1, p)
      PROVE  state'[p] = IF Image[b].op = "param" THEN Image[b].tc ELSE 0
  <2>1. CASE b = eip
    <3>1. Image[eip].op \in {"param", "revert"} /\ Image[eip].arg = p
      BY SMTT(60), <1>1, <2>1 DEF LatestOf, Sets
    <3> QED
      BY ZenonT(60), <1>0, <2>1, <3>1 DEF Effect, op
  <2>2. CASE b # eip
    <3>1. LatestOf(b, eip, p) /\ ~Sets(eip, p)
      BY Zenon, <1>1, <2>2, StraightBack
    <3>2. state'[p] = state[p]
      BY <1>0, <3>1 DEF Effect, Sets
    <3> QED
      BY ZenonT(60), <1>0, <3>1, <3>2 DEF Wrote
  <2> QED
    BY SMTT(60), <2>1, <2>2
<1>2. ASSUME Image[b].op = "setinput", Latest(b, eip + 1, {"setinput", "insn", "restore"})
      PROVE  regs' = "input"
  <2>1. CASE b = eip
    BY SMTT(60), <1>2, <2>1 DEF Effect, op
  <2>2. CASE b # eip
    <3>1. Latest(b, eip, {"setinput", "insn", "restore"})
             /\ Image[eip].op \notin {"setinput", "insn", "restore"}
      BY ZenonT(60), <1>2, <2>2, StraightBack
    <3>2. regs' = regs
      BY <3>1 DEF Effect
    <3> QED
      BY ZenonT(60), <1>0, <1>2, <3>1, <3>2 DEF Wrote
  <2> QED
    BY Zenon, <2>1, <2>2
<1>3. ASSUME Image[b].op = "copyr", Latest(b, eip + 1, {"copyr", "setr", "feistel"})
      PROVE  Rbak' = R'
  <2>1. CASE b = eip
    BY SMTT(60), <1>3, <2>1 DEF Effect, op
  <2>2. CASE b # eip
    <3>1. Latest(b, eip, {"copyr", "setr", "feistel"})
             /\ Image[eip].op \notin {"copyr", "setr", "feistel"}
      BY ZenonT(60), <1>3, <2>2, StraightBack
    <3>2. Rbak' = Rbak /\ R' = R
      BY <3>1 DEF Effect
    <3> QED
      BY ZenonT(60), <1>0, <1>3, <3>1, <3>2 DEF Wrote
  <2> QED
    BY Zenon, <2>1, <2>2
<1>4. ASSUME Image[b].op = "loop", Latest(b, eip + 1, {"loop", "prologue"})
      PROVE  count' = 0
  <2>1. CASE b = eip
    BY Zenon, <1>4, <2>1 DEF op
  <2>2. CASE b # eip
    <3>1. Latest(b, eip, {"loop", "prologue"}) /\ Image[eip].op \notin {"loop", "prologue"}
      BY Zenon, <1>4, <2>2, StraightBack
    <3>2. count' = count
      BY Zenon, <3>1 DEF Effect
    <3> QED
      BY SMTT(60), <1>0, <1>4, <3>1, <3>2 DEF Wrote
  <2> QED
    BY <2>1, <2>2
<1> QED
  BY <1>1, <1>2, <1>3, <1>4 DEF Wrote

\* Nothing is claimed at an entry.
LEMMA WroteAtEntry ==
    ASSUME NEW b \in 1..Last, NEW a \in 1..Last, a \in Entries
    PROVE  ~Straight(b, a)
BY StraightBack

LEMMA LastWritesStep ==
    ASSUME Control, Labelled, LastWrites, [Next]_vars
    PROVE  LastWrites'
<1>0. TypeOK
  BY DEF Control
<1> SUFFICES ASSUME cpu' = "run", NEW b \in 1..Last PROVE Wrote(b, eip)'
  BY DEF LastWrites
<1>a. TypeOK' /\ eip' \in 1..Last
  <2>1. TypeOK'
    BY TypeStep DEF Control
  <2> QED
    BY SMTT(60), <2>1, TestcaseAssumption DEF TypeOK, HTypeOK
<1>b. CASE eip' \in Entries
  <2>1. ~Straight(b, eip')
    BY Zenon, <1>a, <1>b, WroteAtEntry
  <2> QED
    BY <2>1 DEF Wrote, Latest, LatestOf
<1>c. CASE cpu = "run" /\ eip' = eip /\ Skip
  BY <1>c DEF LastWrites, Wrote, Skip, data
<1>1. CASE UNCHANGED vars
  BY <1>1, <1>c DEF vars, hvars, Skip
<1>2. CASE switch_to_testcase_task
  BY <1>2, <1>b DEF switch_to_testcase_task, Entries
<1>3. CASE Execute
  <2>1. CASE op \in {"jmp", "loop"} /\ eip' = Image[eip].to
    <3>1. eip' \in Entries
      BY <1>3, <2>1, Successor DEF Entries, op
    <3> QED
      BY <3>1, <1>b
  <2>2. CASE (op = "loop" => count' = 0) /\ eip' = eip + 1
    BY <1>0, <1>3, <2>2, Successor, WroteOn
  <2> QED
    BY <1>3, <2>1, <2>2, Successor
<1>4. ASSUME NEW v \in Vectors, Fault(v) PROVE Wrote(b, eip)'
  <2>1. cpu = "run" /\ ((eip' = eip /\ Skip) \/ eip' \in Entries)
    BY <1>4, FaultEnters, Faulting
  <2> QED
    BY <2>1, <1>b, <1>c
<1>5. CASE EndOfTest
  <2>1. cpu = "run" /\ eip \in 1..Last /\ op = "end" /\ Skip /\ eip' = eip + 1
    BY <1>0, <1>5, Finish, AtGadget DEF EndOfTest, Skip
  <2> QED
    BY <1>0, <2>1, WroteOn
<1>6. CASE Halt
  BY <1>6 DEF Halt
<1> QED
  BY <1>1, <1>2, <1>3, <1>4, <1>5, <1>6 DEF Next

LEMMA LastWritesHold == Spec => []LastWrites
<1>1. Init => LastWrites
  BY DEF Init, LastWrites
<1>2. Control /\ Labelled /\ LastWrites /\ [Next]_vars => LastWrites'
  BY LastWritesStep
<1> QED
  BY <1>1, <1>2, ControlHolds, LabelledHolds, PTL DEF Spec

\* The first gadget is not come back to: whenever the task is there, nothing has
\* been executed yet.
Fresh ==
    cpu = "boot" \/ (cpu = "run" /\ eip = 1) =>
        /\ \A p \in Params : state[p] = 0
        /\ regs = "orig" /\ round = 0

LEMMA FreshStep ==
    ASSUME Control, Labelled, Fresh, [Next]_vars
    PROVE  Fresh'
<1>0. TypeOK
  BY DEF Control
<1>1. CASE UNCHANGED vars
  BY <1>1 DEF vars, hvars, data, Fresh
<1>2. CASE switch_to_testcase_task
  BY <1>2 DEF switch_to_testcase_task, data, Fresh
<1>3. CASE Execute
  <2>1. /\ cpu' = "run" /\ eip \in 1..Last
        /\ \/ op \in {"jmp", "loop"} /\ eip' = Image[eip].to
           \/ eip' = eip + 1
    BY Zenon, <1>3, Successor
  <2>2. eip' # 1
    BY <2>1, Gadget, LoopGadget, LabelsAssumption DEF op
  <2> QED
    BY <2>1, <2>2 DEF Fresh
<1>4. ASSUME NEW v \in Vectors, Fault(v) PROVE Fresh'
  <2>1. cpu = "run" /\ cpu' # "boot"
    BY ZenonT(60), <1>0, <1>4, Faulting, Resume DEF Fault, Control
  <2>2. cpu' = "run" => (eip' = eip /\ Skip) \/ eip' > 1
    BY <1>4, FaultEnters
  <2> QED
    BY <2>1, <2>2 DEF Fresh, Skip, data
<1>5. CASE EndOfTest
  <2>1. cpu' # "boot" /\ eip \in 1..Last /\ (cpu' = "run" => eip' = eip + 1)
    BY <1>0, <1>5, Finish, AtGadget
  <2> QED
    BY <2>1 DEF Fresh
<1>6. CASE Halt
  BY <1>6 DEF Halt, Fresh
<1> QED
  BY <1>1, <1>2, <1>3, <1>4, <1>5, <1>6 DEF Next

LEMMA FreshHolds == Spec => []Fresh
<1>1. Init => Fresh
  BY DEF Init, Fresh
<1>2. Control /\ Labelled /\ Fresh /\ [Next]_vars => Fresh'
  BY FreshStep
<1> QED
  BY <1>1, <1>2, ControlHolds, LabelledHolds, PTL DEF Spec

\* Whichever gadgets fault, the tested instruction runs only with all the
\* parameters of its own testcase set and on inputs taken from a saved R: no
\* exception leads into the gadgets that prepare it (pre and code of gen_root,
\* the return points of compile_gadgets).
THEOREM AlwaysPrepared == Spec => []InsnPrepared
<1>1. Control /\ LastWrites => InsnPrepared
  <2> SUFFICES ASSUME Control, LastWrites, cpu = "run", op = "insn"
               PROVE  /\ \A p \in Params : state[p] = Image[eip].tc
                      /\ MODE > 1 => regs = "input" /\ Rbak = R
    BY DEF InsnPrepared
  <2>1. eip \in 1..Last /\ Image[eip].op = "insn"
    BY AtGadget DEF Control, op
  <2>2. \A b \in 1..Last : Wrote(b, eip)
    BY SMTT(60) DEF LastWrites
  <2>3. ASSUME NEW p \in Params PROVE state[p] = Image[eip].tc
    <3>1. PICK b \in 1..Last :
             LatestOf(b, eip, p) /\ Image[b].op = "param" /\ Image[b].tc = Image[eip].tc
      BY SMTT(60), <2>1, PreparedAssumption
    <3> QED
      BY SMTT(60), <2>2, <3>1 DEF Wrote
  <2>4. ASSUME MODE > 1 PROVE regs = "input" /\ Rbak = R
    <3>1. PICK b, c \in 1..Last :
             /\ Image[b].op = "setinput" /\ Latest(b, eip, {"setinput", "insn", "restore"})
             /\ Image[c].op = "copyr" /\ Latest(c, eip, {"copyr", "setr", "feistel"})
      BY <2>1, <2>4, PreparedAssumption
    <3> QED
      BY <2>2, <3>1 DEF Wrote
  <2> QED
    BY <2>3, <2>4
<1> QED
  BY <1>1, ControlHolds, LastWritesHold, PTL

\* If no exception leads past a gadget that undoes a parameter, then between two
\* testcases every parameter is back at its value in the snapshot (revert and
\* revert_ of compile_gadgets), whatever else faults.
THEOREM AlwaysUndone == Undoes => (Spec => []ParamsUndone)
<1> SUFFICES ASSUME Undoes PROVE Spec => []ParamsUndone
  OBVIOUS
<1>1. Control /\ LastWrites /\ Fresh => ParamsUndone
  <2> SUFFICES ASSUME Control, LastWrites, Fresh, AtBoundary, NEW p \in Params
               PROVE  state[p] = 0
    BY DEF ParamsUndone
  <2>1. cpu = "run" /\ eip \in 1..Last /\ Boundary(eip)
    BY AtGadget DEF Control, AtBoundary, Boundary, op
  <2>2. CASE eip = 1
    BY <2>1, <2>2 DEF Fresh
  <2>3. CASE eip # 1
    <3>1. eip \in 2..Last
      BY <2>1, <2>3, LastIsNat
    <3>2. PICK b \in 1..Last : LatestOf(b, eip, p) /\ Image[b].op = "revert"
      BY <2>1, <3>1 DEF Undoes
    <3> QED
      BY <2>1, <3>2 DEF LastWrites, Wrote
  <2> QED
    BY <2>2, <2>3
<1> QED
  BY <1>1, ControlHolds, LastWritesHold, FreshHolds, PTL

\* If no exception leads past the loop gadget, then in mode 3 a testcase is only
\* left with its counter used up (gen_loop).
THEOREM AlwaysExhausted == Exhausts => (Spec => []LoopExhausted)
<1> SUFFICES ASSUME Exhausts PROVE Spec => []LoopExhausted
  OBVIOUS
<1>1. Control /\ LastWrites => LoopExhausted
  <2> SUFFICES ASSUME Control, LastWrites, AtBoundary, eip # 1 PROVE count = 0
    BY DEF LoopExhausted
  <2>1. cpu = "run" /\ eip \in 1..Last /\ Boundary(eip) /\ Last \in Nat
    BY AtGadget, LastIsNat DEF Control, AtBoundary, Boundary, op
  <2>2. eip \in 2..Last /\ eip - 1 \in 1..Last
    BY <2>1
  <2>3. Image[eip - 1].op = "loop" /\ eip \notin Entries
    BY <2>1, <2>2 DEF Exhausts
  <2>4. Latest(eip - 1, eip, {"loop", "prologue"})
    BY <2>1, <2>2, <2>3 DEF Latest, Straight
  <2> QED
    BY <2>1, <2>2, <2>3, <2>4 DEF LastWrites, Wrote
<1> QED
  BY <1>1, ControlHolds, LastWritesHold, PTL
=============================================================================
