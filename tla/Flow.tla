-------------------------------- MODULE Flow --------------------------------
(***************************************************************************)
(* Where the control of a test program may come from, exceptions included, *)
(* and what the program therefore guarantees by its text alone: between    *)
(* two places where control may enter, gadgets run one after the other.    *)
(***************************************************************************)
EXTENDS Testcase

\* The gadgets that may raise an exception.
Faultable(a) == Image[a].seg \in FaultSegs /\ Image[a].op \in FaultOps

\* The return point stored at s may be in force at a: no other is stored on the
\* way, which may lead through the loop gadget behind s.
NoStore(b, a) == \A c \in b..(a - 1) : Image[c].op \notin Stores
InForce(s, a) ==
    \/ s < a /\ NoStore(s + 1, a)
    \/ /\ s < Last /\ Image[s + 1].op = "loop"
       /\ Image[s + 1].to <= a /\ NoStore(Image[s + 1].to, a)

\* Handlers may return to the label stored at s.  (A gadget that stores a label
\* may be reached with any label in force.)
Catches(s) ==
    /\ Image[s].op \in Stores
    /\ \E a \in 1..Last : Faultable(a) /\ (Image[a].op \in Stores \/ InForce(s, a))

\* Where control may come from elsewhere than from the gadget before.
Entries ==
    {1} \cup {Image[a].to : a \in {b \in 1..Last :
                                     Image[b].op \in {"jmp", "loop"} \/ Catches(b)}}

\* Control at a has just come past b.
Straight(b, a) == b < a /\ \A c \in (b + 1)..a : c \notin Entries

\* The last gadget on the way to a that does one of ops was b.
Latest(b, a, ops) == Straight(b, a) /\ \A c \in (b + 1)..(a - 1) : Image[c].op \notin ops

\* The last gadget on the way to a that sets parameter p was b.
Sets(b, p) == Image[b].op \in {"param", "revert"} /\ Image[b].arg = p
LatestOf(b, a, p) ==
    Sets(b, p) /\ Straight(b, a) /\ \A c \in (b + 1)..(a - 1) : ~Sets(c, p)

Boundary(a) == Image[a].op \in {"prologue", "end"}

\* Every tested instruction comes right behind gadgets that set all its
\* parameters and, in the Feistel modes, its inputs and the copy of R.
ASSUME PreparedAssumption ==
    \A a \in 1..Last : Image[a].op = "insn" =>
        /\ \A p \in Params : \E b \in 1..Last :
              LatestOf(b, a, p) /\ Image[b].op = "param" /\ Image[b].tc = Image[a].tc
        /\ MODE > 1 => \E b, c \in 1..Last :
              /\ Image[b].op = "setinput" /\ Latest(b, a, {"setinput", "insn", "restore"})
              /\ Image[c].op = "copyr" /\ Latest(c, a, {"copyr", "setr", "feistel"})

\* Every testcase but the first comes right behind gadgets that undo all
\* parameters: no exception leads past one of them.
Undoes ==
    \A a \in 2..Last : Boundary(a) =>
        \A p \in Params : \E b \in 1..Last : LatestOf(b, a, p) /\ Image[b].op = "revert"

\* Every testcase but the first comes right behind a loop gadget: no exception
\* leads past it.
Exhausts ==
    \A a \in 2..Last : Boundary(a) => Image[a - 1].op = "loop" /\ a \notin Entries
=============================================================================
