--------------------------- MODULE FeistelProofs ---------------------------
(***************************************************************************)
(* Proofs about FeistelPair, that a difference of the outputs stays in the *)
(* blocks, and lemmas about FeistelBlocks: sums, the lists of addresses,   *)
(* and what an instruction needs (for OperandProofs and BlocksProofs).     *)
(***************************************************************************)
EXTENDS FeistelPair, FeistelBlocks, TLAPS, WellFoundedInduction

-----------------------------------------------------------------------------
(* The pair. *)

\* R stays a state of blocks (gen_feistel_cipher and the copies of gen_root).
LEMMA OutputType ==
    ASSUME NEW i \in Insns, NEW l \in State, NEW r \in State, NEW out \in State
    PROVE  output(i, l, r, out) \in State
BY XorAssumption DEF output, State

\* The pair's type invariant holds for every word type, number of blocks and
\* set of instructions.
THEOREM Typing == Spec => []TypeOK
<1>1. Init => TypeOK
  BY Zenon DEF Init, TypeOK
<1>2. TypeOK /\ [Next]_vars => TypeOK'
  <2> SUFFICES ASSUME TypeOK, [Next]_vars PROVE TypeOK'
    OBVIOUS
  <2>1. CASE UNCHANGED vars
    BY <2>1 DEF vars, TypeOK
  <2>2. ASSUME NEW i \in Insns, NEW f \in [State -> State], Agree(i, f)
        PROVE  TypeOK'
    <3>1. f[ra] \in State /\ f[rb] \in State
      BY DEF TypeOK
    <3> QED
      BY <2>2, <3>1, OutputType DEF Agree, Execute, TypeOK, update
  <2>3. ASSUME NEW i \in Insns, NEW outa \in State, NEW outb \in State,
               Deviate(i, outa, outb)
        PROVE  TypeOK'
    <3>1. ra' \in State /\ rb' \in State /\ la' \in State /\ lb' \in State
      BY <2>3, OutputType DEF Deviate, Execute, TypeOK, update
    <3>2. differed' \in BOOLEAN
      BY <2>3 DEF Deviate, Differ
    <3> QED
      BY <3>1, <3>2 DEF TypeOK
  <2> QED
    BY <2>1, <2>2, <2>3 DEF Next
<1> QED
  BY <1>1, <1>2, PTL DEF Spec

\* With equal outcomes, equal blocks after an execution were equal before it:
\* an execution is injective in L, and update keeps R.
LEMMA OutputInjective ==
    ASSUME NEW i \in Insns, NEW l \in State, NEW m \in State,
           NEW r \in State, NEW out \in State,
           output(i, l, r, out) = output(i, m, r, out)
    PROVE  l = m
<1>1. ASSUME NEW b \in Blocks PROVE l[b] = m[b]
  <2>1. output(i, l, r, out)[b] = output(i, m, r, out)[b]
    OBVIOUS
  <2>2. i.cl \in 0..NBlocks /\ i.cr \in 0..NBlocks
    BY PairAssumption
  <2>3. CASE b <= i.cl
    <3>1. Xor(l[b], out[b]) = Xor(m[b], out[b])
      BY <2>1, <2>3 DEF output
    <3>2. l[b] \in Word /\ m[b] \in Word /\ out[b] \in Word
      BY DEF State
    <3> QED
      BY <3>1, <3>2, XorAssumption
  <2>4. CASE ~ (b <= i.cl)
    <3>1. b <= i.cr
      BY <2>2, <2>4, CoverAssumption, PairAssumption DEF Blocks
    <3> QED
      BY <2>1, <2>4, <3>1 DEF output
  <2> QED
    BY <2>3, <2>4
<1> QED
  BY <1>1 DEF State

\* Executions on which the machines agree keep a difference and make none:
\* DifferenceKept holds for every word type with a cancelling exclusive or,
\* every number of blocks and every outcome function.
THEOREM KeepsDifference == Spec => []DifferenceKept
<1>1. Init => DifferenceKept
  BY DEF Init, DifferenceKept, Differ
<1>2. TypeOK /\ DifferenceKept /\ [Next]_vars => DifferenceKept'
  <2> SUFFICES ASSUME TypeOK, DifferenceKept, [Next]_vars PROVE DifferenceKept'
    OBVIOUS
  <2>1. CASE UNCHANGED vars
    BY <2>1 DEF vars, DifferenceKept, Differ
  <2>2. ASSUME NEW i \in Insns, NEW f \in [State -> State], Agree(i, f)
        PROVE  DifferenceKept'
    <3>1. la' = ra /\ lb' = rb
      BY <2>2 DEF Agree, Execute, update
    <3>2. ra' = output(i, la, ra, f[ra]) /\ rb' = output(i, lb, rb, f[rb])
      BY <2>2 DEF Agree, Execute
    <3>3. Differ' => Differ
      BY <3>1, <3>2 DEF Differ
    <3>4. Differ => Differ'
      <4> SUFFICES ASSUME la' = lb', ra' = rb' PROVE la = lb /\ ra = rb
        BY DEF Differ
      <4>1. ra = rb
        BY Zenon, <3>1
      <4>2. f[ra] \in State
        BY DEF TypeOK
      <4>3. output(i, la, ra, f[ra]) = output(i, lb, ra, f[ra])
        BY Zenon, <3>2, <4>1
      <4>4. la = lb
        BY <4>2, <4>3, OutputInjective DEF TypeOK
      <4> QED
        BY <4>1, <4>4
    <3>5. differed' = differed
      BY <2>2 DEF Agree
    <3> QED
      BY Zenon, <3>3, <3>4, <3>5, Zenon DEF DifferenceKept
  <2>3. ASSUME NEW i \in Insns, NEW outa \in State, NEW outb \in State,
               Deviate(i, outa, outb)
        PROVE  DifferenceKept'
    BY Zenon, <2>3 DEF Deviate, DifferenceKept, Differ
  <2> QED
    BY <2>1, <2>2, <2>3 DEF Next
<1> QED
  BY <1>1, <1>2, Typing, PTL DEF Spec

-----------------------------------------------------------------------------
(* Induction and sums. *)

\* A set that has 0 and with every number the next one has all of them.
LEMMA SetInduction ==
    ASSUME NEW S, 0 \in S, \A n \in Nat : n \in S => n + 1 \in S
    PROVE  Nat \subseteq S
<1> DEFINE T == Nat \ S
           R == OpToRel(<, Nat)
<1> SUFFICES ASSUME T # {} PROVE FALSE
  OBVIOUS
<1>1. IsWellFoundedOn(R, Nat)
  BY Zenon, NatLessThanWellFounded
<1>2. PICK x \in T : \A y \in T : <<y, x>> \notin R
  <2> HIDE DEF R
  <2> QED BY Zenon, <1>1, WFMin
<1>3. x - 1 \in Nat
  OBVIOUS
<1>4. <<x - 1, x>> \in R
  BY <1>3 DEF OpToRel
<1>5. x - 1 \in S
  BY Zenon, <1>2, <1>3, <1>4
<1> QED BY <1>3, <1>5

\* The sums of the first n members.
SumsTo(f, n, ns) == f = [k \in 0..n |-> IF k = 0 THEN 0 ELSE f[k - 1] + ns[k]]

\* There are such sums of any length.
LEMMA SumsExist ==
    ASSUME NEW ns
    PROVE  \A n \in Nat : \E f : SumsTo(f, n, ns)
<1> DEFINE S == {n \in Nat : \E f : SumsTo(f, n, ns)}
<1>1. 0 \in S
  <2> DEFINE f == [k \in 0..0 |-> 0]
  <2>1. SumsTo(f, 0, ns)
    BY DEF SumsTo
  <2> QED BY <2>1
<1>2. ASSUME NEW n \in Nat, n \in S
      PROVE  n + 1 \in S
  <2>1. PICK f : SumsTo(f, n, ns)
    BY <1>2
  <2> DEFINE g == [k \in 0..(n + 1) |-> IF k = n + 1 THEN f[n] + ns[n + 1] ELSE f[k]]
  <2>2. ASSUME NEW k \in 0..(n + 1)
        PROVE  g[k] = IF k = 0 THEN 0 ELSE g[k - 1] + ns[k]
    <3>1. CASE k = n + 1
      <4>1. k - 1 = n /\ g[n] = f[n] /\ k # 0
        BY <3>1
      <4> QED BY <3>1, <4>1
    <3>2. CASE k \in 1..n
      <4>1. g[k] = f[k] /\ g[k - 1] = f[k - 1] /\ k \in 0..n
        BY <3>2
      <4> QED BY <2>1, <3>2, <4>1 DEF SumsTo
    <3>3. CASE k = 0
      BY <2>1, <3>3 DEF SumsTo
    <3> QED BY <3>1, <3>2, <3>3
  <2>3. SumsTo(g, n + 1, ns)
    BY <2>2 DEF SumsTo
  <2> QED BY <2>3
<1> HIDE DEF S
<1>3. Nat \subseteq S
  BY <1>1, <1>2, SetInduction
<1> QED BY <1>3 DEF S

\* What Sums computes: numbers that grow by the members.
LEMMA SumsGrow ==
    ASSUME NEW ns \in Seq(Nat)
    PROVE  /\ Sums(ns)[0] = 0
           /\ \A k \in 1..Len(ns) : Sums(ns)[k] = Sums(ns)[k - 1] + ns[k]
           /\ \A k \in 0..Len(ns) : Sums(ns)[k] \in Nat
<1> DEFINE f == CHOOSE g : SumsTo(g, Len(ns), ns)
<1>1. Len(ns) \in Nat
  OBVIOUS
<1>2. SumsTo(f, Len(ns), ns)
  BY Zenon, <1>1, SumsExist
<1>3. Sums(ns) = f
  BY DEF Sums, SumsTo
<1> HIDE DEF f
<1>4. f[0] = 0 /\ \A k \in 1..Len(ns) : f[k] = f[k - 1] + ns[k]
  BY SMTT(60), <1>1, <1>2 DEF SumsTo
<1> DEFINE S == {n \in Nat : n <= Len(ns) => f[n] \in Nat}
<1>5. 0 \in S
  BY <1>4
<1>6. ASSUME NEW n \in Nat, n \in S
      PROVE  n + 1 \in S
  <2> SUFFICES ASSUME n + 1 <= Len(ns) PROVE f[n + 1] \in Nat
    OBVIOUS
  <2>1. f[n] \in Nat /\ n + 1 \in 1..Len(ns) /\ ns[n + 1] \in Nat
    BY <1>1, <1>6
  <2>2. f[n + 1] = f[n] + ns[n + 1]
    BY <1>4, <2>1
  <2> QED BY <2>1, <2>2
<1> HIDE DEF S
<1>7. Nat \subseteq S
  BY Zenon, <1>5, <1>6, SetInduction
<1>8. \A k \in 0..Len(ns) : f[k] \in Nat
  BY <1>1, <1>7 DEF S
<1> QED BY <1>3, <1>4, <1>8

\* No sum exceeds the total.
LEMMA SumsBelow ==
    ASSUME NEW ns \in Seq(Nat)
    PROVE  /\ Total(ns) \in Nat
           /\ \A k \in 0..Len(ns) : Sums(ns)[k] <= Total(ns)
<1> DEFINE f == Sums(ns)
           S == {n \in Nat : n <= Len(ns) => f[Len(ns) - n] <= f[Len(ns)]}
<1>1. /\ Len(ns) \in Nat
      /\ \A k \in 1..Len(ns) : f[k] = f[k - 1] + ns[k] /\ ns[k] \in Nat
      /\ \A k \in 0..Len(ns) : f[k] \in Nat
  BY SumsGrow
<1> HIDE DEF f
<1>2. 0 \in S
  BY <1>1
<1>3. ASSUME NEW n \in Nat, n \in S
      PROVE  n + 1 \in S
  <2> SUFFICES ASSUME n + 1 <= Len(ns) PROVE f[Len(ns) - (n + 1)] <= f[Len(ns)]
    OBVIOUS
  <2> DEFINE k == Len(ns) - n
  <2>1. f[k] <= f[Len(ns)] /\ k \in 1..Len(ns) /\ k - 1 \in 0..Len(ns) /\ k - 1 = Len(ns) - (n + 1)
    BY <1>1, <1>3
  <2> HIDE DEF k
  <2>2. f[k] = f[k - 1] + ns[k] /\ ns[k] \in Nat /\ f[k - 1] \in Nat /\ f[k] \in Nat
        /\ f[Len(ns)] \in Nat
    BY <1>1, <2>1
  <2>3. f[k - 1] <= f[Len(ns)]
    BY SMTT(60), <2>1, <2>2
  <2> QED BY <2>1, <2>3
<1> HIDE DEF S
<1>4. Nat \subseteq S
  BY Zenon, <1>2, <1>3, SetInduction
<1>5. ASSUME NEW k \in 0..Len(ns)
      PROVE  f[k] <= f[Len(ns)]
  <2>1. Len(ns) - k \in S /\ Len(ns) - k \in Nat /\ Len(ns) - (Len(ns) - k) = k
    BY <1>1, <1>4
  <2> QED BY <1>1, <2>1 DEF S
<1> QED BY <1>1, <1>5 DEF Total, f

-----------------------------------------------------------------------------
(* The lists of addresses. *)

BlocksT ==
    [r : Seq(Int), rbak : Seq(Int), l : Seq(Int), in : Seq(Int), out : Seq(Int), next : Int]

\* The addresses are below next, and none is in two places.
Fresh(b) ==
    /\ b \in BlocksT
    /\ Apart(b)
    /\ \A x \in Lists : \A k \in 1..Len(b[x]) : b[x][k] \in (High + 1)..(b.next - 1)
    /\ b.next > High

\* The lists of a record by name.
LEMMA Named ==
    ASSUME NEW b \in BlocksT
    PROVE  /\ b["r"] = b.r /\ b["rbak"] = b.rbak /\ b["l"] = b.l
           /\ b["in"] = b.in /\ b["out"] = b.out
           /\ b.r \in Seq(Int) /\ b.rbak \in Seq(Int) /\ b.l \in Seq(Int)
           /\ b.in \in Seq(Int) /\ b.out \in Seq(Int) /\ b.next \in Int
           /\ \A x \in Lists : b[x] \in Seq(Int)
  BY DEF BlocksT, Lists

\* The list u is s and then addresses from lo on, below hi; the new addresses of two
\* lists are different, those of one list too.
Longer(u, s, lo, hi) ==
    /\ Len(u) >= Len(s)
    /\ \A k \in 1..Len(s) : u[k] = s[k]
    /\ \A k \in (Len(s) + 1)..Len(u) : u[k] \in lo..(hi - 1)
NewOnce(u, s) ==
    \A k, m \in (Len(s) + 1)..Len(u) : u[k] = u[m] => k = m
NewApart(u, s, v, t) ==
    \A k \in (Len(s) + 1)..Len(u), m \in (Len(t) + 1)..Len(v) : u[k] # v[m]

\* Lists that grow by new addresses, all different, are as before.
LEMMA Grow ==
    ASSUME NEW b, Fresh(b), NEW c \in BlocksT, c.next >= b.next,
           \A x \in Lists : Longer(c[x], b[x], b.next, c.next) /\ NewOnce(c[x], b[x]),
           \A x, y \in Lists : x # y => NewApart(c[x], b[x], c[y], b[y])
    PROVE  Fresh(c)
<1>1. /\ b.next \in Int /\ c.next \in Int /\ b.next > High /\ High \in Int
      /\ \A x \in Lists : Len(b[x]) \in Nat /\ Len(c[x]) \in Nat
  BY Named, WordsAssumption DEF Fresh
<1>2. ASSUME NEW x \in Lists, NEW k \in 1..Len(c[x])
      PROVE  \/ k \in 1..Len(b[x]) /\ c[x][k] = b[x][k] /\ c[x][k] \in (High + 1)..(b.next - 1)
             \/ k \in (Len(b[x]) + 1)..Len(c[x]) /\ c[x][k] \in b.next..(c.next - 1)
  <2>1. CASE k <= Len(b[x])
    BY <1>1, <2>1 DEF Fresh, Longer
  <2>2. CASE k > Len(b[x])
    BY <1>1, <2>2 DEF Longer
  <2> QED BY <1>1, <2>1, <2>2
<1>3. \A x \in Lists : \A k \in 1..Len(c[x]) : c[x][k] \in (High + 1)..(c.next - 1)
  BY <1>1, <1>2
<1>4. Apart(c)
  <2> SUFFICES ASSUME NEW x \in Lists, NEW y \in Lists, NEW k \in 1..Len(c[x]),
                      NEW m \in 1..Len(c[y]), c[x][k] = c[y][m]
               PROVE  x = y /\ k = m
    BY DEF Apart
  <2>1. CASE k \in 1..Len(b[x]) /\ m \in 1..Len(b[y])
    BY <2>1 DEF Fresh, Apart, Longer
  <2>2. CASE k \in (Len(b[x]) + 1)..Len(c[x]) /\ m \in (Len(b[y]) + 1)..Len(c[y])
    BY <2>2 DEF NewOnce, NewApart
  <2>3. CASE k \in 1..Len(b[x]) /\ m \in (Len(b[y]) + 1)..Len(c[y])
    <3>1. c[x][k] \in (High + 1)..(b.next - 1) /\ c[y][m] \in b.next..(c.next - 1)
      BY <2>3 DEF Fresh, Longer
    <3> QED BY <1>1, <3>1
  <2>4. CASE k \in (Len(b[x]) + 1)..Len(c[x]) /\ m \in 1..Len(b[y])
    <3>1. c[y][m] \in (High + 1)..(b.next - 1) /\ c[x][k] \in b.next..(c.next - 1)
      BY <2>4 DEF Fresh, Longer
    <3> QED BY <1>1, <3>1
  <2> QED BY <1>2, <2>1, <2>2, <2>3, <2>4
<1> QED BY <1>1, <1>3, <1>4 DEF Fresh

\* A list that stays as it is.
LEMMA Same ==
    ASSUME NEW s \in Seq(Int), NEW lo, NEW hi
    PROVE  /\ Longer(s, s, lo, hi) /\ NewOnce(s, s)
           /\ \A v, t : NewApart(s, s, v, t) /\ NewApart(v, t, s, s)
<1>1. Len(s) \in Nat /\ (Len(s) + 1)..Len(s) = {}
  OBVIOUS
<1> QED BY <1>1 DEF Longer, NewOnce, NewApart

\* The list u is s and n addresses from a on, at a distance of d.
Joined(u, s, a, n, d) ==
    /\ u \in Seq(Int) /\ Len(s) \in Nat
    /\ Len(u) = Len(s) + n
    /\ \A k \in 1..Len(s) : u[k] = s[k]
    /\ \A k \in (Len(s) + 1)..Len(u) : u[k] = a + d * (k - Len(s) - 1)

\* What get_addr and a stride add to a list.
LEMMA StrideJoins ==
    ASSUME NEW s \in Seq(Int), NEW a \in Int, NEW n \in Nat
    PROVE  /\ Joined(s \o get_addr(a, n), s, a, n, 1)
           /\ Joined(s \o Stride(a, n, 2), s, a, n, 2)
           /\ Joined(s \o Stride(a, n, 3), s, a, n, 3)
<1>1. Joined(s \o get_addr(a, n), s, a, n, 1)
  BY DEF Joined, get_addr
<1>2. Joined(s \o Stride(a, n, 2), s, a, n, 2)
  BY DEF Joined, Stride
<1>3. Joined(s \o Stride(a, n, 3), s, a, n, 3)
  BY DEF Joined, Stride
<1> QED BY <1>1, <1>2, <1>3

\* Addresses at a distance of d are new ones, all different.
LEMMA JoinedLonger ==
    ASSUME NEW u, NEW s, NEW a \in Int, NEW n \in Nat, NEW d \in {1, 2, 3}, Joined(u, s, a, n, d),
           NEW lo \in Int, NEW hi \in Int, lo <= a, n > 0 => a + d * n - d < hi
    PROVE  Longer(u, s, lo, hi) /\ NewOnce(u, s)
<1>1. Len(u) = Len(s) + n /\ Len(s) \in Nat
  BY DEF Joined
<1>2. ASSUME NEW k \in (Len(s) + 1)..Len(u)
      PROVE  /\ u[k] = a + d * (k - Len(s) - 1)
             /\ u[k] \in lo..(hi - 1)
  <2>1. u[k] = a + d * (k - Len(s) - 1) /\ n > 0
    BY <1>1 DEF Joined
  <2>2. CASE d = 1
    BY <1>1, <2>1, <2>2
  <2>3. CASE d = 2
    BY <1>1, <2>1, <2>3
  <2>4. CASE d = 3
    BY <1>1, <2>1, <2>4
  <2> QED BY <2>1, <2>2, <2>3, <2>4
<1>3. Longer(u, s, lo, hi)
  BY <1>1, <1>2 DEF Longer, Joined
<1>4. NewOnce(u, s)
  <2> SUFFICES ASSUME NEW k \in (Len(s) + 1)..Len(u), NEW m \in (Len(s) + 1)..Len(u), u[k] = u[m]
               PROVE  k = m
    BY DEF NewOnce
  <2>1. a + d * (k - Len(s) - 1) = a + d * (m - Len(s) - 1)
    BY <1>2
  <2>2. k \in Int /\ m \in Int
    BY <1>1
  <2>3. CASE d = 1
    BY <1>1, <2>1, <2>2, <2>3
  <2>4. CASE d = 2
    BY <1>1, <2>1, <2>2, <2>4
  <2>5. CASE d = 3
    BY <1>1, <2>1, <2>2, <2>5
  <2> QED BY <2>3, <2>4, <2>5
<1> QED BY <1>3, <1>4

\* Addresses below a bound and addresses from it on.
LEMMA NewBelow ==
    ASSUME NEW u, NEW s, NEW v, NEW t, NEW lo \in Int, NEW mid \in Int, NEW hi \in Int,
           Longer(u, s, lo, mid), Longer(v, t, mid, hi)
    PROVE  NewApart(u, s, v, t) /\ NewApart(v, t, u, s)
<1>1. ASSUME NEW k \in (Len(s) + 1)..Len(u), NEW m \in (Len(t) + 1)..Len(v)
      PROVE  u[k] # v[m]
  <2>1. u[k] \in lo..(mid - 1) /\ v[m] \in mid..(hi - 1)
    BY DEF Longer
  <2> QED BY <2>1
<1> QED BY <1>1 DEF NewApart

\* The addresses of two lists that take turns.
LEMMA NewBetween ==
    ASSUME NEW u, NEW s, NEW v, NEW t, NEW a \in Int, NEW e \in Int, NEW n, NEW d \in {2, 3},
           Joined(u, s, a, n, d), Joined(v, t, e, n, d), a < e, e < a + d
    PROVE  NewApart(u, s, v, t) /\ NewApart(v, t, u, s)
<1>1. ASSUME NEW k \in (Len(s) + 1)..Len(u), NEW m \in (Len(t) + 1)..Len(v)
      PROVE  u[k] # v[m]
  <2>1. /\ u[k] = a + d * (k - Len(s) - 1) /\ v[m] = e + d * (m - Len(t) - 1)
        /\ k \in Int /\ m \in Int /\ Len(s) \in Int /\ Len(t) \in Int
    BY DEF Joined
  <2>2. CASE d = 2
    BY <2>1, <2>2
  <2>3. CASE d = 3
    BY SMTT(60), <2>1, <2>3
  <2> QED BY <2>2, <2>3
<1> QED BY <1>1 DEF NewApart

\* The blocks of an input (handle_reg_read, handle_mem_read) keep the addresses
\* apart and make the lists longer.
LEMMA InputFresh ==
    ASSUME NEW b, Fresh(b), NEW n \in Nat, NEW c, c = InputBlocks(b, n)
    PROVE  /\ Fresh(c)
           /\ Len(c.r) = Len(b.r) + n
           /\ Len(c.rbak) = Len(b.rbak) + n
           /\ Len(c.l) = Len(b.l)
           /\ Len(c.in) = Len(b.in) + n
           /\ Len(c.out) = Len(b.out)
           /\ c.next = b.next + 3 * n
<1> DEFINE a == b.next
           a1 == b.next + n
           a2 == b.next + 2 * n
           z == b.next + 3 * n
<1>1. b \in BlocksT /\ b.next \in Int
  BY Named DEF Fresh
<1>2. /\ b.r \in Seq(Int) /\ b.rbak \in Seq(Int) /\ b.l \in Seq(Int)
      /\ b.in \in Seq(Int) /\ b.out \in Seq(Int)
  BY <1>1, Named
<1>3. /\ c.l = b.l /\ c.out = b.out /\ c.next = z
      /\ c.r = b.r \o get_addr(a, n)
      /\ c.rbak = b.rbak \o get_addr(a1, n)
      /\ c.in = b.in \o get_addr(a2, n)
  BY Zenon DEF InputBlocks
<1>4. /\ a = b.next
      /\ a1 = a + n
      /\ a2 = a + 2 * n
      /\ z = a + 3 * n
      /\ a \in Int /\ a1 \in Int /\ a2 \in Int /\ z \in Int
  BY <1>1
<1> HIDE DEF a, a1, a2, z
<1>5. /\ Joined(c.r, b.r, a, n, 1)
      /\ Joined(c.rbak, b.rbak, a1, n, 1)
      /\ Joined(c.in, b.in, a2, n, 1)
  BY ZenonT(60), <1>2, <1>3, <1>4, StrideJoins
<1>6. /\ c.r \in Seq(Int) /\ c.rbak \in Seq(Int) /\ c.l \in Seq(Int)
      /\ c.in \in Seq(Int) /\ c.out \in Seq(Int) /\ c.next \in Int
  BY <1>2, <1>3, <1>4, <1>5 DEF Joined
<1>7. c \in BlocksT
  BY <1>6 DEF BlocksT, InputBlocks
<1>8. /\ c["r"] = c.r /\ c["rbak"] = c.rbak /\ c["l"] = c.l /\ c["in"] = c.in /\ c["out"] = c.out
      /\ b["r"] = b.r /\ b["rbak"] = b.rbak /\ b["l"] = b.l /\ b["in"] = b.in /\ b["out"] = b.out
  BY <1>1, <1>7, Named
<1>9. /\ Longer(c.r, b.r, a, z) /\ NewOnce(c.r, b.r)
      /\ Longer(c.rbak, b.rbak, a, z) /\ NewOnce(c.rbak, b.rbak)
      /\ Longer(c.in, b.in, a, z) /\ NewOnce(c.in, b.in)
  <2>1. Longer(c.r, b.r, a, z) /\ NewOnce(c.r, b.r)
    <3>1. a <= a /\ (n > 0 => a + 1 * n - 1 < z)
      BY <1>4
    <3> QED BY <1>4, <1>5, <3>1, JoinedLonger
  <2>2. Longer(c.rbak, b.rbak, a, z) /\ NewOnce(c.rbak, b.rbak)
    <3>1. a <= a1 /\ (n > 0 => a1 + 1 * n - 1 < z)
      BY <1>4
    <3> QED BY <1>4, <1>5, <3>1, JoinedLonger
  <2>3. Longer(c.in, b.in, a, z) /\ NewOnce(c.in, b.in)
    <3>1. a <= a2 /\ (n > 0 => a2 + 1 * n - 1 < z)
      BY <1>4
    <3> QED BY Zenon, <1>4, <1>5, <3>1, JoinedLonger
  <2> QED BY <2>1, <2>2, <2>3
<1>10. /\ NewApart(c.r, b.r, c.rbak, b.rbak) /\ NewApart(c.rbak, b.rbak, c.r, b.r)
       /\ NewApart(c.r, b.r, c.in, b.in) /\ NewApart(c.in, b.in, c.r, b.r)
       /\ NewApart(c.rbak, b.rbak, c.in, b.in) /\ NewApart(c.in, b.in, c.rbak, b.rbak)
  <2>1. NewApart(c.r, b.r, c.rbak, b.rbak) /\ NewApart(c.rbak, b.rbak, c.r, b.r)
    <3>1. Longer(c.r, b.r, a, a1)
      <4>1. a <= a /\ (n > 0 => a + 1 * n - 1 < a1)
        BY <1>4
      <4> QED BY Zenon, <1>4, <1>5, <4>1, JoinedLonger
    <3>2. Longer(c.rbak, b.rbak, a1, z)
      <4>1. a1 <= a1 /\ (n > 0 => a1 + 1 * n - 1 < z)
        BY <1>4
      <4> QED BY Zenon, <1>4, <1>5, <4>1, JoinedLonger
    <3> QED BY Zenon, <1>4, <3>1, <3>2, NewBelow
  <2>2. NewApart(c.r, b.r, c.in, b.in) /\ NewApart(c.in, b.in, c.r, b.r)
    <3>1. Longer(c.r, b.r, a, a2)
      <4>1. a <= a /\ (n > 0 => a + 1 * n - 1 < a2)
        BY <1>4
      <4> QED BY Zenon, <1>4, <1>5, <4>1, JoinedLonger
    <3>2. Longer(c.in, b.in, a2, z)
      <4>1. a2 <= a2 /\ (n > 0 => a2 + 1 * n - 1 < z)
        BY <1>4
      <4> QED BY <1>4, <1>5, <4>1, JoinedLonger
    <3> QED BY Zenon, <1>4, <3>1, <3>2, NewBelow
  <2>3. NewApart(c.rbak, b.rbak, c.in, b.in) /\ NewApart(c.in, b.in, c.rbak, b.rbak)
    <3>1. Longer(c.rbak, b.rbak, a, a2)
      <4>1. a <= a1 /\ (n > 0 => a1 + 1 * n - 1 < a2)
        BY SMTT(60), <1>4
      <4> QED BY <1>4, <1>5, <4>1, JoinedLonger
    <3>2. Longer(c.in, b.in, a2, z)
      <4>1. a2 <= a2 /\ (n > 0 => a2 + 1 * n - 1 < z)
        BY <1>4
      <4> QED BY <1>4, <1>5, <4>1, JoinedLonger
    <3> QED BY <1>4, <3>1, <3>2, NewBelow
  <2> QED BY <2>1, <2>2, <2>3
<1>11. \A x \in Lists : Longer(c[x], b[x], b.next, c.next) /\ NewOnce(c[x], b[x])
  BY ZenonT(60), <1>2, <1>3, <1>4, <1>8, <1>9, Same DEF Lists
<1>12. \A x, y \in Lists : x # y => NewApart(c[x], b[x], c[y], b[y])
  BY ZenonT(60), <1>2, <1>3, <1>8, <1>10, Same DEF Lists
<1>13. c.next >= b.next
  BY <1>3, <1>4
<1>14. Fresh(c)
  BY <1>7, <1>11, <1>12, <1>13, Grow
<1> QED BY Zenon, <1>3, <1>4, <1>5, <1>14 DEF Joined

\* The same for the blocks of an output (handle_reg_write, handle_mem_write).
LEMMA OutputFresh ==
    ASSUME NEW b, Fresh(b), NEW n \in Nat, NEW c, c = OutputBlocks(b, n)
    PROVE  /\ Fresh(c)
           /\ Len(c.r) = Len(b.r)
           /\ Len(c.rbak) = Len(b.rbak)
           /\ Len(c.l) = Len(b.l) + n
           /\ Len(c.in) = Len(b.in)
           /\ Len(c.out) = Len(b.out) + n
           /\ c.next = b.next + 2 * n
<1> DEFINE a == b.next
           a1 == b.next + n
           z == b.next + 2 * n
<1>1. b \in BlocksT /\ b.next \in Int
  BY Named DEF Fresh
<1>2. /\ b.r \in Seq(Int) /\ b.rbak \in Seq(Int) /\ b.l \in Seq(Int)
      /\ b.in \in Seq(Int) /\ b.out \in Seq(Int)
  BY <1>1, Named
<1>3. /\ c.r = b.r /\ c.rbak = b.rbak /\ c.in = b.in /\ c.next = z
      /\ c.l = b.l \o get_addr(a, n)
      /\ c.out = b.out \o get_addr(a1, n)
  BY Zenon DEF OutputBlocks
<1>4. /\ a = b.next
      /\ a1 = a + n
      /\ z = a + 2 * n
      /\ a \in Int /\ a1 \in Int /\ z \in Int
  BY <1>1
<1> HIDE DEF a, a1, z
<1>5. /\ Joined(c.l, b.l, a, n, 1)
      /\ Joined(c.out, b.out, a1, n, 1)
  BY ZenonT(60), <1>2, <1>3, <1>4, StrideJoins
<1>6. /\ c.r \in Seq(Int) /\ c.rbak \in Seq(Int) /\ c.l \in Seq(Int)
      /\ c.in \in Seq(Int) /\ c.out \in Seq(Int) /\ c.next \in Int
  BY <1>2, <1>3, <1>4, <1>5 DEF Joined
<1>7. c \in BlocksT
  BY <1>6 DEF BlocksT, OutputBlocks
<1>8. /\ c["r"] = c.r /\ c["rbak"] = c.rbak /\ c["l"] = c.l /\ c["in"] = c.in /\ c["out"] = c.out
      /\ b["r"] = b.r /\ b["rbak"] = b.rbak /\ b["l"] = b.l /\ b["in"] = b.in /\ b["out"] = b.out
  BY <1>1, <1>7, Named
<1>9. /\ Longer(c.l, b.l, a, z) /\ NewOnce(c.l, b.l)
      /\ Longer(c.out, b.out, a, z) /\ NewOnce(c.out, b.out)
  <2>1. Longer(c.l, b.l, a, z) /\ NewOnce(c.l, b.l)
    <3>1. a <= a /\ (n > 0 => a + 1 * n - 1 < z)
      BY <1>4
    <3> QED BY <1>4, <1>5, <3>1, JoinedLonger
  <2>2. Longer(c.out, b.out, a, z) /\ NewOnce(c.out, b.out)
    <3>1. a <= a1 /\ (n > 0 => a1 + 1 * n - 1 < z)
      BY <1>4
    <3> QED BY <1>4, <1>5, <3>1, JoinedLonger
  <2> QED BY <2>1, <2>2
<1>10. /\ NewApart(c.l, b.l, c.out, b.out) /\ NewApart(c.out, b.out, c.l, b.l)
  <2>1. NewApart(c.l, b.l, c.out, b.out) /\ NewApart(c.out, b.out, c.l, b.l)
    <3>1. Longer(c.l, b.l, a, a1)
      <4>1. a <= a /\ (n > 0 => a + 1 * n - 1 < a1)
        BY <1>4
      <4> QED BY <1>4, <1>5, <4>1, JoinedLonger
    <3>2. Longer(c.out, b.out, a1, z)
      <4>1. a1 <= a1 /\ (n > 0 => a1 + 1 * n - 1 < z)
        BY SMTT(60), <1>4
      <4> QED BY <1>4, <1>5, <4>1, JoinedLonger
    <3> QED BY <1>4, <3>1, <3>2, NewBelow
  <2> QED BY <2>1
<1>11. \A x \in Lists : Longer(c[x], b[x], b.next, c.next) /\ NewOnce(c[x], b[x])
  BY ZenonT(60), <1>2, <1>3, <1>4, <1>8, <1>9, Same DEF Lists
<1>12. \A x, y \in Lists : x # y => NewApart(c[x], b[x], c[y], b[y])
  BY ZenonT(60), <1>2, <1>3, <1>8, <1>10, Same DEF Lists
<1>13. c.next >= b.next
  BY <1>3, <1>4
<1>14. Fresh(c)
  BY <1>7, <1>11, <1>12, <1>13, Grow
<1> QED BY Zenon, <1>3, <1>4, <1>5, <1>14 DEF Joined

\* The same for the blocks of R under an output (while count_l + r > len(feistel_r)).
LEMMA MoreRFresh ==
    ASSUME NEW b, Fresh(b), NEW n \in Nat, NEW q, q = Missing(b.r, n), NEW c, c = MoreR(b, n)
    PROVE  /\ Fresh(c)
           /\ Len(c.r) = Len(b.r) + q
           /\ Len(c.rbak) = Len(b.rbak) + q
           /\ Len(c.l) = Len(b.l)
           /\ Len(c.in) = Len(b.in) + q
           /\ Len(c.out) = Len(b.out)
           /\ c.next = b.next + 3 * q
<1> DEFINE a == b.next
           a1 == b.next + 1
           a2 == b.next + 2
           z == b.next + 3 * q
<1>0. q \in Nat
  BY Named DEF Fresh, Missing
<1>1. b \in BlocksT /\ b.next \in Int
  BY Named DEF Fresh
<1>2. /\ b.r \in Seq(Int) /\ b.rbak \in Seq(Int) /\ b.l \in Seq(Int)
      /\ b.in \in Seq(Int) /\ b.out \in Seq(Int)
  BY <1>1, Named
<1>3. /\ c.l = b.l /\ c.out = b.out /\ c.next = z
      /\ c.r = b.r \o Stride(a, q, 3)
      /\ c.rbak = b.rbak \o Stride(a1, q, 3)
      /\ c.in = b.in \o Stride(a2, q, 3)
  BY Zenon DEF MoreR
<1>4. /\ a = b.next
      /\ a1 = a + 1
      /\ a2 = a + 2
      /\ z = a + 3 * q
      /\ a \in Int /\ a1 \in Int /\ a2 \in Int /\ z \in Int
  BY <1>0, <1>1
<1> HIDE DEF a, a1, a2, z
<1>5. /\ Joined(c.r, b.r, a, q, 3)
      /\ Joined(c.rbak, b.rbak, a1, q, 3)
      /\ Joined(c.in, b.in, a2, q, 3)
  BY ZenonT(60), <1>0, <1>2, <1>3, <1>4, StrideJoins
<1>6. /\ c.r \in Seq(Int) /\ c.rbak \in Seq(Int) /\ c.l \in Seq(Int)
      /\ c.in \in Seq(Int) /\ c.out \in Seq(Int) /\ c.next \in Int
  BY <1>2, <1>3, <1>4, <1>5 DEF Joined
<1>7. c \in BlocksT
  BY <1>6 DEF BlocksT, MoreR
<1>8. /\ c["r"] = c.r /\ c["rbak"] = c.rbak /\ c["l"] = c.l /\ c["in"] = c.in /\ c["out"] = c.out
      /\ b["r"] = b.r /\ b["rbak"] = b.rbak /\ b["l"] = b.l /\ b["in"] = b.in /\ b["out"] = b.out
  BY <1>1, <1>7, Named
<1>9. /\ Longer(c.r, b.r, a, z) /\ NewOnce(c.r, b.r)
      /\ Longer(c.rbak, b.rbak, a, z) /\ NewOnce(c.rbak, b.rbak)
      /\ Longer(c.in, b.in, a, z) /\ NewOnce(c.in, b.in)
  <2>1. Longer(c.r, b.r, a, z) /\ NewOnce(c.r, b.r)
    <3>1. a <= a /\ (q > 0 => a + 3 * q - 3 < z)
      BY <1>0, <1>4
    <3> QED BY Zenon, <1>0, <1>4, <1>5, <3>1, JoinedLonger
  <2>2. Longer(c.rbak, b.rbak, a, z) /\ NewOnce(c.rbak, b.rbak)
    <3>1. a <= a1 /\ (q > 0 => a1 + 3 * q - 3 < z)
      BY <1>0, <1>4
    <3> QED BY Zenon, <1>0, <1>4, <1>5, <3>1, JoinedLonger
  <2>3. Longer(c.in, b.in, a, z) /\ NewOnce(c.in, b.in)
    <3>1. a <= a2 /\ (q > 0 => a2 + 3 * q - 3 < z)
      BY <1>0, <1>4
    <3> QED BY Zenon, <1>0, <1>4, <1>5, <3>1, JoinedLonger
  <2> QED BY <2>1, <2>2, <2>3
<1>10. /\ NewApart(c.r, b.r, c.rbak, b.rbak) /\ NewApart(c.rbak, b.rbak, c.r, b.r)
       /\ NewApart(c.r, b.r, c.in, b.in) /\ NewApart(c.in, b.in, c.r, b.r)
       /\ NewApart(c.rbak, b.rbak, c.in, b.in) /\ NewApart(c.in, b.in, c.rbak, b.rbak)
  <2>1. NewApart(c.r, b.r, c.rbak, b.rbak) /\ NewApart(c.rbak, b.rbak, c.r, b.r)
    <3>1. a < a1 /\ a1 < a + 3
      BY <1>4
    <3> QED BY Zenon, <1>4, <1>5, <3>1, NewBetween
  <2>2. NewApart(c.r, b.r, c.in, b.in) /\ NewApart(c.in, b.in, c.r, b.r)
    <3>1. a < a2 /\ a2 < a + 3
      BY <1>4
    <3> QED BY Zenon, <1>4, <1>5, <3>1, NewBetween
  <2>3. NewApart(c.rbak, b.rbak, c.in, b.in) /\ NewApart(c.in, b.in, c.rbak, b.rbak)
    <3>1. a1 < a2 /\ a2 < a1 + 3
      BY <1>4
    <3> QED BY Zenon, <1>4, <1>5, <3>1, NewBetween
  <2> QED BY <2>1, <2>2, <2>3
<1>11. \A x \in Lists : Longer(c[x], b[x], b.next, c.next) /\ NewOnce(c[x], b[x])
  BY ZenonT(60), <1>2, <1>3, <1>4, <1>8, <1>9, Same DEF Lists
<1>12. \A x, y \in Lists : x # y => NewApart(c[x], b[x], c[y], b[y])
  BY ZenonT(60), <1>2, <1>3, <1>8, <1>10, Same DEF Lists
<1>13. c.next >= b.next
  BY SMTT(60), <1>0, <1>3, <1>4
<1>14. Fresh(c)
  BY SMTT(60), <1>7, <1>11, <1>12, <1>13, Grow
<1> QED BY Zenon, <1>3, <1>4, <1>5, <1>14 DEF Joined

\* The same for the exception's words in gen_root.
LEMMA EcptFresh ==
    ASSUME NEW b, Fresh(b), NEW c, c = EcptBlocks(b)
    PROVE  /\ Fresh(c)
           /\ Len(c.r) = Len(b.r) + Missing(b.r, Len(b.l) + 2)
           /\ Len(c.rbak) = Len(b.rbak) + Missing(b.r, Len(b.l) + 2)
           /\ Len(c.l) = Len(b.l) + 2
           /\ Len(c.in) = Len(b.in)
           /\ Len(c.out) = Len(b.out)
           /\ c.next = b.next + 2 + 2 * Missing(b.r, Len(b.l) + 2)
<1> DEFINE q == Missing(b.r, Len(b.l) + 2)
           a == b.next
           a1 == b.next + 2
           a2 == b.next + 3
           z == b.next + 2 + 2 * q
<1>0. q \in Nat
  BY Named DEF Fresh, Missing
<1>1. b \in BlocksT /\ b.next \in Int
  BY Named DEF Fresh
<1>2. /\ b.r \in Seq(Int) /\ b.rbak \in Seq(Int) /\ b.l \in Seq(Int)
      /\ b.in \in Seq(Int) /\ b.out \in Seq(Int)
  BY <1>1, Named
<1>3. /\ c.in = b.in /\ c.out = b.out /\ c.next = z
      /\ c.l = b.l \o get_addr(a, 2)
      /\ c.r = b.r \o Stride(a1, q, 2)
      /\ c.rbak = b.rbak \o Stride(a2, q, 2)
  BY Zenon DEF EcptBlocks
<1>4. /\ a = b.next
      /\ a1 = a + 2
      /\ a2 = a + 3
      /\ z = a + 2 + 2 * q
      /\ a \in Int /\ a1 \in Int /\ a2 \in Int /\ z \in Int
  BY <1>0, <1>1
<1> HIDE DEF q, a, a1, a2, z
<1>5. /\ Joined(c.l, b.l, a, 2, 1)
      /\ Joined(c.r, b.r, a1, q, 2)
      /\ Joined(c.rbak, b.rbak, a2, q, 2)
  BY ZenonT(60), <1>0, <1>2, <1>3, <1>4, StrideJoins
<1>6. /\ c.r \in Seq(Int) /\ c.rbak \in Seq(Int) /\ c.l \in Seq(Int)
      /\ c.in \in Seq(Int) /\ c.out \in Seq(Int) /\ c.next \in Int
  BY <1>2, <1>3, <1>4, <1>5 DEF Joined
<1>7. c \in BlocksT
  BY <1>6 DEF BlocksT, EcptBlocks
<1>8. /\ c["r"] = c.r /\ c["rbak"] = c.rbak /\ c["l"] = c.l /\ c["in"] = c.in /\ c["out"] = c.out
      /\ b["r"] = b.r /\ b["rbak"] = b.rbak /\ b["l"] = b.l /\ b["in"] = b.in /\ b["out"] = b.out
  BY <1>1, <1>7, Named
<1>9. /\ Longer(c.l, b.l, a, z) /\ NewOnce(c.l, b.l)
      /\ Longer(c.r, b.r, a, z) /\ NewOnce(c.r, b.r)
      /\ Longer(c.rbak, b.rbak, a, z) /\ NewOnce(c.rbak, b.rbak)
  <2>1. Longer(c.l, b.l, a, z) /\ NewOnce(c.l, b.l)
    <3>1. a <= a /\ (2 > 0 => a + 1 * 2 - 1 < z)
      BY <1>0, <1>4
    <3> QED BY ZenonT(60), <1>0, <1>4, <1>5, <3>1, JoinedLonger
  <2>2. Longer(c.r, b.r, a, z) /\ NewOnce(c.r, b.r)
    <3>1. a <= a1 /\ (q > 0 => a1 + 2 * q - 2 < z)
      BY <1>0, <1>4
    <3> QED BY Zenon, <1>0, <1>4, <1>5, <3>1, JoinedLonger
  <2>3. Longer(c.rbak, b.rbak, a, z) /\ NewOnce(c.rbak, b.rbak)
    <3>1. a <= a2 /\ (q > 0 => a2 + 2 * q - 2 < z)
      BY <1>0, <1>4
    <3> QED BY Zenon, <1>0, <1>4, <1>5, <3>1, JoinedLonger
  <2> QED BY <2>1, <2>2, <2>3
<1>10. /\ NewApart(c.l, b.l, c.r, b.r) /\ NewApart(c.r, b.r, c.l, b.l)
       /\ NewApart(c.l, b.l, c.rbak, b.rbak) /\ NewApart(c.rbak, b.rbak, c.l, b.l)
       /\ NewApart(c.r, b.r, c.rbak, b.rbak) /\ NewApart(c.rbak, b.rbak, c.r, b.r)
  <2>1. NewApart(c.l, b.l, c.r, b.r) /\ NewApart(c.r, b.r, c.l, b.l)
    <3>1. Longer(c.l, b.l, a, a1)
      <4>1. a <= a /\ (2 > 0 => a + 1 * 2 - 1 < a1)
        BY <1>0, <1>4
      <4> QED BY Zenon, <1>0, <1>4, <1>5, <4>1, JoinedLonger
    <3>2. Longer(c.r, b.r, a1, z)
      <4>1. a1 <= a1 /\ (q > 0 => a1 + 2 * q - 2 < z)
        BY <1>0, <1>4
      <4> QED BY Zenon, <1>0, <1>4, <1>5, <4>1, JoinedLonger
    <3> QED BY ZenonT(60), <1>4, <3>1, <3>2, NewBelow
  <2>2. NewApart(c.l, b.l, c.rbak, b.rbak) /\ NewApart(c.rbak, b.rbak, c.l, b.l)
    <3>1. Longer(c.l, b.l, a, a2)
      <4>1. a <= a /\ (2 > 0 => a + 1 * 2 - 1 < a2)
        BY <1>0, <1>4
      <4> QED BY <1>0, <1>4, <1>5, <4>1, JoinedLonger
    <3>2. Longer(c.rbak, b.rbak, a2, z)
      <4>1. a2 <= a2 /\ (q > 0 => a2 + 2 * q - 2 < z)
        BY <1>0, <1>4
      <4> QED BY <1>0, <1>4, <1>5, <4>1, JoinedLonger
    <3> QED BY Zenon, <1>4, <3>1, <3>2, NewBelow
  <2>3. NewApart(c.r, b.r, c.rbak, b.rbak) /\ NewApart(c.rbak, b.rbak, c.r, b.r)
    <3>1. a1 < a2 /\ a2 < a1 + 2
      BY <1>4
    <3> QED BY Zenon, <1>4, <1>5, <3>1, NewBetween
  <2> QED BY <2>1, <2>2, <2>3
<1>11. \A x \in Lists : Longer(c[x], b[x], b.next, c.next) /\ NewOnce(c[x], b[x])
  BY ZenonT(60), <1>2, <1>3, <1>4, <1>8, <1>9, Same DEF Lists
<1>12. \A x, y \in Lists : x # y => NewApart(c[x], b[x], c[y], b[y])
  BY ZenonT(60), <1>2, <1>3, <1>8, <1>10, Same DEF Lists
<1>13. c.next >= b.next
  BY <1>0, <1>3, <1>4
<1>14. Fresh(c)
  BY <1>7, <1>11, <1>12, <1>13, Grow
<1> QED BY Zenon, <1>3, <1>4, <1>5, <1>14 DEF Joined, q

\* The same for L (while len(feistel_l) < len(feistel_r)).
LEMMA MoreLFresh ==
    ASSUME NEW b, Fresh(b), NEW q, q = Missing(b.l, Len(b.r)), NEW c, c = MoreL(b)
    PROVE  /\ Fresh(c)
           /\ Len(c.r) = Len(b.r)
           /\ Len(c.rbak) = Len(b.rbak)
           /\ Len(c.l) = Len(b.l) + q
           /\ Len(c.in) = Len(b.in)
           /\ Len(c.out) = Len(b.out)
           /\ c.next = b.next + q
<1> DEFINE a == b.next
           z == b.next + q
<1>0. q \in Nat
  BY Named DEF Fresh, Missing
<1>1. b \in BlocksT /\ b.next \in Int
  BY Named DEF Fresh
<1>2. /\ b.r \in Seq(Int) /\ b.rbak \in Seq(Int) /\ b.l \in Seq(Int)
      /\ b.in \in Seq(Int) /\ b.out \in Seq(Int)
  BY <1>1, Named
<1>3. /\ c.r = b.r /\ c.rbak = b.rbak /\ c.in = b.in /\ c.out = b.out /\ c.next = z
      /\ c.l = b.l \o get_addr(a, q)
  BY ZenonT(60) DEF MoreL
<1>4. /\ a = b.next
      /\ z = a + q
      /\ a \in Int /\ z \in Int
  BY <1>0, <1>1
<1> HIDE DEF a, z
<1>5. /\ Joined(c.l, b.l, a, q, 1)
  BY <1>0, <1>2, <1>3, <1>4, StrideJoins
<1>6. /\ c.r \in Seq(Int) /\ c.rbak \in Seq(Int) /\ c.l \in Seq(Int)
      /\ c.in \in Seq(Int) /\ c.out \in Seq(Int) /\ c.next \in Int
  BY <1>2, <1>3, <1>4, <1>5 DEF Joined
<1>7. c \in BlocksT
  BY <1>6 DEF BlocksT, MoreL
<1>8. /\ c["r"] = c.r /\ c["rbak"] = c.rbak /\ c["l"] = c.l /\ c["in"] = c.in /\ c["out"] = c.out
      /\ b["r"] = b.r /\ b["rbak"] = b.rbak /\ b["l"] = b.l /\ b["in"] = b.in /\ b["out"] = b.out
  BY <1>1, <1>7, Named
<1>9. /\ Longer(c.l, b.l, a, z) /\ NewOnce(c.l, b.l)
  <2>1. Longer(c.l, b.l, a, z) /\ NewOnce(c.l, b.l)
    <3>1. a <= a /\ (q > 0 => a + 1 * q - 1 < z)
      BY <1>0, <1>4
    <3> QED BY <1>0, <1>4, <1>5, <3>1, JoinedLonger
  <2> QED BY <2>1
<1>11. \A x \in Lists : Longer(c[x], b[x], b.next, c.next) /\ NewOnce(c[x], b[x])
  BY ZenonT(60), <1>2, <1>3, <1>4, <1>8, <1>9, Same DEF Lists
<1>12. \A x, y \in Lists : x # y => NewApart(c[x], b[x], c[y], b[y])
  BY ZenonT(60), <1>2, <1>3, <1>8, Same DEF Lists
<1>13. c.next >= b.next
  BY <1>0, <1>3, <1>4
<1>14. Fresh(c)
  BY <1>7, <1>11, <1>12, <1>13, Grow
<1> QED BY Zenon, <1>3, <1>4, <1>5, <1>14 DEF Joined

-----------------------------------------------------------------------------
(* What the instructions need. *)

\* The operands of an instruction are operands.
LEMMA OperandsTyped ==
    ASSUME NEW i \in Insn
    PROVE  operands(i) \in Seq(Operand)
<1>1. i.regs \in Seq(Operand)
  <2>1. i.regs \in Seq({o \in Operand : o.cls # "mem"})
    BY DEF Insn
  <2> QED BY <2>1
<1>2. /\ i.mems \in Seq(Nat \ {0})
      /\ i.rd \in BOOLEAN /\ i.wr \in BOOLEAN /\ i.disp \in BOOLEAN
  BY DEF Insn
<1> DEFINE f == [k \in 1..Len(i.mems) |->
        [cls |-> "mem", loc |-> "mem", n |-> i.mems[k], rd |-> i.rd, wr |-> i.wr,
         disp |-> i.disp]]
<1>3. ASSUME NEW k \in 1..Len(i.mems)
      PROVE  f[k] \in Operand
  <2>1. i.mems[k] \in Nat \ {0}
    BY <1>2
  <2>2. f[k] = [cls |-> "mem", loc |-> "mem", n |-> i.mems[k], rd |-> i.rd, wr |-> i.wr,
                disp |-> i.disp]
    OBVIOUS
  <2>3. ASSUME NEW m \in Nat \ {0}, NEW x \in BOOLEAN, NEW y \in BOOLEAN, NEW z \in BOOLEAN
        PROVE  [cls |-> "mem", loc |-> "mem", n |-> m, rd |-> x, wr |-> y, disp |-> z]
                   \in Operand
    BY DEF Operand
  <2> HIDE DEF f
  <2> QED BY <1>2, <2>1, <2>2, <2>3
<1>4. Len(i.mems) \in Nat /\ DOMAIN f = 1..Len(i.mems) /\ f = [k \in DOMAIN f |-> f[k]]
  BY <1>2
<1>5. operands(i) = i.regs \o f
  BY DEF operands
<1> HIDE DEF f
<1>6. f \in Seq(Operand)
  BY <1>3, <1>4
<1> QED BY <1>1, <1>5, <1>6

\* Each operand has a size, and is read and written or not.
LEMMA OperandFields ==
    ASSUME NEW i \in Insn, NEW k \in 1..Len(operands(i))
    PROVE  /\ operands(i)[k] \in Operand /\ operands(i)[k].n \in Nat \ {0}
           /\ operands(i)[k].rd \in BOOLEAN /\ operands(i)[k].wr \in BOOLEAN
<1>1. operands(i)[k] \in Operand
  BY OperandsTyped
<1> QED BY <1>1 DEF Operand

\* The sums over a sequence ns of numbers, one for each operand.
Summed(ns, i) ==
    /\ Sums(ns)[0] = 0
    /\ \A k \in 1..Len(operands(i)) : Sums(ns)[k] = Sums(ns)[k - 1] + ns[k] /\ ns[k] \in Nat
    /\ \A k \in 0..Len(operands(i)) : Sums(ns)[k] \in Nat /\ Sums(ns)[k] <= Total(ns)
    /\ Sums(ns)[Len(operands(i))] = Total(ns)
    /\ Total(ns) \in Nat

\* Every sequence of numbers has these sums.
LEMMA SequenceSums ==
    ASSUME NEW i, NEW ns \in Seq(Nat), Len(ns) = Len(operands(i))
    PROVE  Summed(ns, i)
  BY SumsGrow, SumsBelow DEF Summed, Total

\* The words read, written and fetched have sums, operand by operand.
LEMMA OperandSums ==
    ASSUME NEW i \in Insn
    PROVE  /\ Len(operands(i)) \in Nat
           /\ Summed(Reads(i), i) /\ Summed(Writes(i), i) /\ Summed(Fetches(i), i)
<1>1. Len(operands(i)) \in Nat
  BY OperandsTyped
<1>2. Reads(i) \in Seq(Nat) /\ Len(Reads(i)) = Len(operands(i))
  BY <1>1, OperandFields DEF Reads
<1>3. Writes(i) \in Seq(Nat) /\ Len(Writes(i)) = Len(operands(i))
  BY <1>1, OperandFields DEF Writes
<1>4. Fetches(i) \in Seq(Nat) /\ Len(Fetches(i)) = Len(operands(i))
  BY <1>1, OperandFields DEF Fetches
<1> QED BY <1>1, <1>2, <1>3, <1>4, SequenceSums

\* The numbers of blocks an instruction makes.
LEMMA BlockCounts ==
    ASSUME NEW i \in Insn
    PROVE  /\ Ins(i) \in Nat /\ Pairs(i) \in Nat /\ Made(i) \in Nat
           /\ Ins(i) = Greater(Total(Reads(i)), Total(Writes(i)))
           /\ Pairs(i) = Greater(Total(Reads(i)), Total(Writes(i)) + 2)
           /\ Made(i) = 1 + 3 * Pairs(i) + Ins(i) + Total(Writes(i))
<1>1. Total(Reads(i)) \in Nat /\ Total(Writes(i)) \in Nat
  BY OperandSums DEF Summed
<1> QED BY <1>1 DEF Ins, Pairs, Made, Greater

\* The conditions of Fits, operand by operand.
ReadFits(i, k, first) ==
    operands(i)[k].rd => LastAt(i, k, Sums(Reads(i))[k - 1]) < Ins(first)
WriteFits(i, k, first) ==
    operands(i)[k].wr => LastAt(i, k, Sums(Writes(i))[k - 1]) < Total(Writes(first))

\* An instruction finds its operands among its own blocks.
LEMMA FitsItself ==
    ASSUME NEW i \in Insn
    PROVE  /\ Fits(i, i)
           /\ \A k \in 1..Len(operands(i)) : ReadFits(i, k, i) /\ WriteFits(i, k, i)
<1>1. ASSUME NEW k \in 1..Len(operands(i)), operands(i)[k].rd
      PROVE  LastAt(i, k, Sums(Reads(i))[k - 1]) < Ins(i)
  <2>1. Reads(i)[k] = operands(i)[k].n
    BY <1>1 DEF Reads
  <2>2. k - 1 \in 0..Len(operands(i)) /\ k \in 0..Len(operands(i))
    BY SMTT(60), OperandSums
  <2>3. Sums(Reads(i))[k - 1] + operands(i)[k].n <= Total(Reads(i))
    BY <2>1, <2>2, OperandSums DEF Summed
  <2>4. Sums(Reads(i))[k - 1] \in Nat /\ Total(Reads(i)) \in Nat /\ Total(Writes(i)) \in Nat
    BY <2>2, OperandSums DEF Summed
  <2>5. /\ LastAt(i, k, Sums(Reads(i))[k - 1]) < Sums(Reads(i))[k - 1] + operands(i)[k].n
        /\ LastAt(i, k, Sums(Reads(i))[k - 1]) \in Int /\ operands(i)[k].n \in Nat
    BY <2>4, OperandFields DEF LastAt
  <2>6. Total(Reads(i)) <= Ins(i) /\ Ins(i) \in Nat
    <3>1. Ins(i) = Greater(Total(Reads(i)), Total(Writes(i)))
      BY BlockCounts
    <3> QED BY <2>4, <3>1 DEF Greater
  <2> QED BY <2>3, <2>4, <2>5, <2>6
<1>2. ASSUME NEW k \in 1..Len(operands(i)), operands(i)[k].wr
      PROVE  LastAt(i, k, Sums(Writes(i))[k - 1]) < Total(Writes(i))
  <2>1. Writes(i)[k] = operands(i)[k].n
    BY Zenon, <1>2 DEF Writes
  <2>2. k - 1 \in 0..Len(operands(i)) /\ k \in 0..Len(operands(i))
    BY OperandSums
  <2>3. Sums(Writes(i))[k - 1] + operands(i)[k].n <= Total(Writes(i))
    BY <2>1, <2>2, OperandSums DEF Summed
  <2>4. Sums(Writes(i))[k - 1] \in Nat /\ Total(Writes(i)) \in Nat
    BY SMTT(60), <2>2, OperandSums DEF Summed
  <2>5. /\ LastAt(i, k, Sums(Writes(i))[k - 1]) < Sums(Writes(i))[k - 1] + operands(i)[k].n
        /\ LastAt(i, k, Sums(Writes(i))[k - 1]) \in Int /\ operands(i)[k].n \in Nat
    BY SMTT(60), <2>4, OperandFields DEF LastAt
  <2> QED BY <2>3, <2>4, <2>5
<1>3. Total(Writes(i)) + 2 <= Pairs(i) /\ Total(Reads(i)) <= Pairs(i)
  <2>1. Total(Reads(i)) \in Nat /\ Total(Writes(i)) \in Nat
    BY OperandSums DEF Summed
  <2> QED BY <2>1, BlockCounts DEF Greater
<1> QED BY <1>1, <1>2, <1>3 DEF Fits, ReadFits, WriteFits

\* The words later testcases take.
LEMMA AgainSums ==
    ASSUME NEW im \in Images
    PROVE  /\ Len(im) \in Nat /\ Len(im) >= 1 /\ \A t \in 1..Len(im) : im[t] \in Insn
           /\ Total(Again(im)) \in Nat
           /\ Sums(Again(im))[1] = 0
           /\ Sums(Again(im))[Len(im)] = Total(Again(im))
           /\ \A t \in 1..Len(im) : /\ Sums(Again(im))[t] \in Nat
                                    /\ Sums(Again(im))[t] <= Total(Again(im))
           /\ \A t \in 2..Len(im) :
                 Sums(Again(im))[t] = Sums(Again(im))[t - 1] + 3 * Total(Fetches(im[t]))
<1>1. im \in Seq(Insn) /\ im # <<>>
  BY ImagesAssumption
<1>2. Len(im) \in Nat /\ Len(im) >= 1 /\ \A t \in 1..Len(im) : im[t] \in Insn
  BY <1>1
<1>3. \A t \in 1..Len(im) : Total(Fetches(im[t])) \in Nat
  BY <1>2, OperandSums DEF Summed
<1> DEFINE ns == Again(im)
<1>4. ns \in Seq(Nat) /\ Len(ns) = Len(im) /\ ns[1] = 0
      /\ \A t \in 2..Len(im) : ns[t] = 3 * Total(Fetches(im[t]))
  BY <1>2, <1>3 DEF Again
<1> HIDE DEF ns
<1>5. /\ Sums(ns)[0] = 0 /\ Sums(ns)[1] = Sums(ns)[0] + ns[1]
      /\ \A t \in 2..Len(im) : Sums(ns)[t] = Sums(ns)[t - 1] + ns[t]
      /\ \A t \in 1..Len(im) : Sums(ns)[t] \in Nat /\ Sums(ns)[t] <= Total(ns)
      /\ Total(ns) \in Nat
  BY <1>2, <1>4, SumsGrow, SumsBelow
<1>6. Sums(ns)[Len(im)] = Total(ns)
  BY <1>4 DEF Total
<1> QED BY <1>2, <1>4, <1>5, <1>6 DEF ns

-----------------------------------------------------------------------------
(* Paging. *)

\* Flipping twice changes nothing, as long as the addresses are in range.
LEMMA FlipTwice ==
    ASSUME NEW b, Fresh(b), b.next <= High + Words
    PROVE  flip_addrs(flip_addrs(b)) = b
<1>1. b \in BlocksT /\ b.next \in Int /\ b.next > High
  BY Named DEF Fresh
<1>2. High \in Nat /\ Words \in Nat /\ Words < High
  BY WordsAssumption
<1>3. ASSUME NEW a \in Int, a > High, a <= High + Words
      PROVE  flip_addr(flip_addr(a)) = a
  BY <1>2, <1>3 DEF flip_addr
<1>4. ASSUME NEW s \in Seq(Int), \A k \in 1..Len(s) : s[k] \in (High + 1)..(b.next - 1)
      PROVE  flip_list(flip_list(s)) = s
  <2>1. \A k \in 1..Len(s) : flip_addr(flip_addr(s[k])) = s[k]
    BY <1>1, <1>2, <1>3, <1>4
  <2>2. Len(flip_list(s)) = Len(s) /\ \A k \in 1..Len(s) : flip_list(s)[k] = flip_addr(s[k])
    BY DEF flip_list
  <2>3. flip_list(flip_list(s)) = [k \in 1..Len(s) |-> s[k]]
    BY <2>1, <2>2 DEF flip_list
  <2> QED BY <2>3
<1>5. /\ flip_list(flip_list(b.r)) = b.r /\ flip_list(flip_list(b.rbak)) = b.rbak
      /\ flip_list(flip_list(b.l)) = b.l /\ flip_list(flip_list(b.in)) = b.in
  BY Zenon, <1>1, <1>4, Named DEF Fresh, Lists
<1>6. flip_addr(flip_addr(b.next)) = b.next
  BY <1>1, <1>3, WordsAssumption
<1>7. flip_addrs(flip_addrs(b)) =
          [r |-> b.r, rbak |-> b.rbak, l |-> b.l, in |-> b.in, out |-> b.out, next |-> b.next]
  BY <1>5, <1>6 DEF flip_addrs
<1> QED BY <1>1, <1>7 DEF BlocksT
=============================================================================
