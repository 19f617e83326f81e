----------------------------- MODULE ToolsProofs -----------------------------
(***************************************************************************)
(* The exploration and the lock files of the tools.                        *)
(*                                                                         *)
(* The tests of an exploration, for any program, any options, any answers  *)
(* of the solver and of its caches, and any number and width of variables: *)
(* no value of a test leaves the conditions recorded after the mark, which *)
(* are those the refinement checks.  The loop over the bits is a recursive *)
(* function.  That it is defined, and what it returns, follows by          *)
(* induction, stated for sets of numbers.                                  *)
(*                                                                         *)
(* The two lock files protect what they should: that of the floppy         *)
(* template, for any number of generators, rebuilt kernels, kills and      *)
(* failing commands; and that of the cache of memoizable_disk, for any     *)
(* number of calls, arguments and edits, any size of the cache, any kill   *)
(* and any error of the function.                                          *)
(***************************************************************************)
EXTENDS Exploration, Template, DiskCache, TLAPS, WellFoundedInduction

-----------------------------------------------------------------------------
(* Induction. *)

\* A set that has 0 and with every number the next one has all of them.
LEMMA SetInduction ==
    ASSUME NEW S, 0 \in S, \A n \in Nat : n \in S => n + 1 \in S
    PROVE  Nat \subseteq S
<1> DEFINE T == Nat \ S
           R == OpToRel(<, Nat)
<1> SUFFICES ASSUME T # {} PROVE FALSE
  OBVIOUS
<1>1. IsWellFoundedOn(R, Nat)
  BY Zenon, NatLessThanWellFounded
<1>2. PICK x \in T : \A y \in T : <<y, x>> \notin R
  <2> HIDE DEF R
  <2> QED BY Zenon, <1>1, WFMin
<1>3. x - 1 \in Nat
  OBVIOUS
<1>4. <<x - 1, x>> \in R
  BY <1>3 DEF OpToRel
<1>5. x - 1 \in S
  BY Zenon, <1>2, <1>3, <1>4
<1> QED BY <1>3, <1>5

-----------------------------------------------------------------------------
(* The bits of a variable. *)

\* The first n bits of x refined.
Refines(f, n, conds, ctx, x) ==
    f = [k \in 0..n |-> IF k = 0 THEN ctx ELSE refine_bit(conds, f[k - 1], x, k - 1)]

\* The loop over the bits is defined: by induction over their number.
LEMMA RefinementExists ==
    ASSUME NEW conds, NEW ctx, NEW x
    PROVE  \A n \in Nat : \E f : Refines(f, n, conds, ctx, x)
<1> DEFINE S == {n \in Nat : \E f : Refines(f, n, conds, ctx, x)}
<1>1. 0 \in S
  <2> DEFINE f == [k \in 0..0 |-> ctx]
  <2>1. Refines(f, 0, conds, ctx, x)
    BY DEF Refines
  <2> QED BY <2>1
<1>2. ASSUME NEW n \in Nat, n \in S
      PROVE  n + 1 \in S
  <2>1. PICK f : Refines(f, n, conds, ctx, x)
    BY <1>2
  <2> DEFINE g == [k \in 0..(n + 1) |->
                      IF k = n + 1 THEN refine_bit(conds, f[n], x, n) ELSE f[k]]
  <2>2. ASSUME NEW k \in 0..(n + 1)
        PROVE  g[k] = IF k = 0 THEN ctx ELSE refine_bit(conds, g[k - 1], x, k - 1)
    <3>1. CASE k = n + 1
      <4>1. k - 1 = n /\ g[n] = f[n] /\ k # 0
        BY <3>1
      <4> QED BY <3>1, <4>1
    <3>2. CASE k \in 1..n
      <4>1. g[k] = f[k] /\ g[k - 1] = f[k - 1] /\ k \in 0..n
        BY <3>2
      <4> QED BY <2>1, <3>2, <4>1 DEF Refines
    <3>3. CASE k = 0
      BY <2>1, <3>3 DEF Refines
    <3> QED BY <3>1, <3>2, <3>3
  <2>3. Refines(g, n + 1, conds, ctx, x)
    BY <2>2 DEF Refines
  <2> QED BY <2>3
<1> HIDE DEF S
<1>3. Nat \subseteq S
  BY <1>1, <1>2, SetInduction
<1> QED BY <1>3 DEF S

\* The counterexample with the refined value satisfies the conditions.
LEMMA RefinementFollows ==
    ASSUME NEW conds, NEW ctx \in conds, NEW x \in DOMAIN ctx, ctx = [y \in DOMAIN ctx |-> ctx[y]]
    PROVE  [ctx EXCEPT ![x] = refine_bits(conds, ctx, x)] \in conds
<1> DEFINE f == CHOOSE g : Refines(g, Bits, conds, ctx, x)
           S == {n \in Nat : n <= Bits => /\ f[n] \in conds
                                          /\ f[n] = [ctx EXCEPT ![x] = f[n][x]]}
<1>1. Refines(f, Bits, conds, ctx, x)
  BY RefinementExists, BitsAssumption
<1>2. refine_bits(conds, ctx, x) = f[Bits][x]
  BY DEF refine_bits, Refines
<1> HIDE DEF f
<1>3. 0 \in S
  BY <1>1, BitsAssumption DEF Refines
<1>4. ASSUME NEW n \in Nat, n \in S
      PROVE  n + 1 \in S
  <2> SUFFICES ASSUME n + 1 <= Bits
               PROVE  f[n + 1] \in conds /\ f[n + 1] = [ctx EXCEPT ![x] = f[n + 1][x]]
    OBVIOUS
  <2>1. f[n] \in conds /\ f[n] = [ctx EXCEPT ![x] = f[n][x]]
    BY <1>4, BitsAssumption
  <2>2. f[n + 1] = refine_bit(conds, f[n], x, n)
    BY <1>1, BitsAssumption DEF Refines
  <2> DEFINE c == [f[n] EXCEPT ![x] = flip(@, n)]
  <2>3. f[n + 1] = f[n] \/ (f[n + 1] = c /\ c \in conds)
    BY <2>2 DEF refine_bit
  <2>4. c = [ctx EXCEPT ![x] = c[x]]
    <3> DEFINE v == f[n][x]
    <3>1. f[n] = [ctx EXCEPT ![x] = v]
      BY <2>1
    <3> HIDE DEF v
    <3> QED BY Zenon, <3>1
  <2> HIDE DEF c
  <2> QED BY Zenon, <2>1, <2>3, <2>4
<1> HIDE DEF S
<1>5. Nat \subseteq S
  BY <1>3, <1>4, SetInduction
<1>6. Bits \in S
  BY <1>5, BitsAssumption
<1> QED BY <1>2, <1>6, BitsAssumption DEF S

\* What compute_preferred_value returns.
LEMMA PreferredFollows ==
    ASSUME NEW conds, NEW ctx \in conds, NEW x \in DOMAIN ctx, ctx = [y \in DOMAIN ctx |-> ctx[y]]
    PROVE  LET v == compute_preferred_value(conds, ctx, x)
           IN  /\ [ctx EXCEPT ![x] = v] \in conds
               /\ [ctx EXCEPT ![x] = Snapshot[x]] \in conds => v = Snapshot[x]
  BY Zenon, RefinementFollows DEF compute_preferred_value

-----------------------------------------------------------------------------
(* The machine. *)

\* The solver and the cache of the path answer with inputs of the query.
LEMMA AnswersFollow ==
    ASSUME NEW C, C # {}
    PROVE  answers(C) \subseteq C
<1>1. solver(C) \in C
  BY DEF solver
<1> QED BY <1>1 DEF answers

\* What EachValueFollows says of a value of a test.
Follows(kept, ce, x, v) ==
    /\ [ce EXCEPT ![x] = v] \in kept
    /\ (x \in Preferred /\ [ce EXCEPT ![x] = Snapshot[x]] \in kept) => v = Snapshot[x]

\* A counterexample of the path condition satisfies the conditions that
\* prune_pathcond keeps.
LEMMA PruningKeepsAnswers ==
    ASSUME possible # {}, NEW ce \in answers(possible)
    PROVE  ce \in Inputs /\ ce \in Sat(prune_pathcond)
<1>1. ce \in possible
  BY AnswersFollow
<1> QED BY <1>1 DEF possible, Sat, prune_pathcond

\* The three ways in which assemble_testcase gives a variable its value.
LEMMA AssembledFollows ==
    ASSUME NEW P, NEW ce \in Sat(P), NEW x \in Vars
    PROVE  Follows(Sat(P), ce, x, assemble_testcase(P, ce)[x])
<1> DEFINE v == assemble_testcase(P, ce)[x]
<1>1. ce \in Inputs /\ \A c \in P : ce \in c
  BY DEF Sat
<1>2. DOMAIN ce = Vars /\ ce = [y \in DOMAIN ce |-> ce[y]]
  BY <1>1 DEF Inputs
<1>3. v = IF ~occurs(P, x) THEN Snapshot[x]
          ELSE IF x \in Preferred THEN compute_preferred_value(Sat(P), ce, x)
          ELSE ce[x]
  BY DEF assemble_testcase
<1> SUFFICES Follows(Sat(P), ce, x, v)
  OBVIOUS
<1> HIDE DEF v
<1>4. CASE ~occurs(P, x)
  <2>1. v = Snapshot[x] /\ v \in 0..(2^Bits - 1)
    BY <1>3, <1>4, SnapshotAssumption DEF Inputs
  <2>2. [ce EXCEPT ![x] = v] \in Inputs
    BY <1>1, <2>1 DEF Inputs
  <2>3. \A c \in P : [ce EXCEPT ![x] = v] \in c
    BY <1>1, <1>4, <2>1 DEF occurs
  <2>4. [ce EXCEPT ![x] = v] \in Sat(P)
    BY <2>2, <2>3 DEF Sat
  <2> QED BY <2>1, <2>4 DEF Follows
<1>5. CASE occurs(P, x) /\ x \in Preferred
  <2>1. v = compute_preferred_value(Sat(P), ce, x)
    BY <1>3, <1>5
  <2> QED BY Zenon, <1>2, <2>1, PreferredFollows DEF Follows
<1>6. CASE occurs(P, x) /\ x \notin Preferred
  <2>1. v = ce[x]
    BY <1>3, <1>6
  <2>2. [ce EXCEPT ![x] = v] = ce
    BY <1>2, <2>1
  <2> QED BY <1>6, <2>2 DEF Follows
<1> QED BY <1>4, <1>5, <1>6

\* The hook at the end of a path adds a test that is right.
LEMMA HookKeeps ==
    ASSUME EachValueFollows, hook
    PROVE  EachValueFollows'
<1>1. CASE mode = "ignore" /\ UNCHANGED <<tests, iteration, global>>
  BY Zenon, <1>1 DEF EachValueFollows
<1>2. CASE mode \in {"finish", "cut"}
  <2>1. possible # {}
    BY <1>2 DEF hook
  <2> DEFINE P == prune_pathcond
             input(ce) == assemble_testcase(P, ce)
             test(ce) == [pc |-> possible, kept |-> Sat(P), ce |-> ce, input |-> input(ce)]
  <2>2. PICK ce \in answers(possible) : tests' = tests \cup {test(ce)}
    BY <1>2 DEF hook
  <2>3. ce \in Sat(P)
    BY <2>1, PruningKeepsAnswers
  <2>4. ASSUME NEW x \in Vars
        PROVE  Follows(Sat(P), ce, x, input(ce)[x])
    BY <2>3, AssembledFollows
  <2>5. /\ test(ce).kept = Sat(P)
        /\ test(ce).ce = ce
        /\ test(ce).input = input(ce)
    OBVIOUS
  <2> HIDE DEF P, input, test
  <2>6. ASSUME NEW t \in tests', NEW x \in Vars
        PROVE  Follows(t.kept, t.ce, x, t.input[x])
    <3>1. CASE t \in tests
      BY Zenon, <3>1 DEF EachValueFollows, Follows
    <3>2. CASE t = test(ce)
      BY Zenon, <2>4, <2>5, <3>2
    <3> QED BY Zenon, <2>2, <3>1, <3>2
  <2> QED BY Zenon, <2>6 DEF EachValueFollows, Follows
<1> QED BY <1>1, <1>2 DEF hook

\* Every step keeps the tests right: only the hook writes one.
LEMMA NextFollows ==
    ASSUME EachValueFollows, [Next]_vars
    PROVE  EachValueFollows'
<1>1. CASE finish_path
  BY <1>1, HookKeeps DEF finish_path, end_path
<1>2. ASSUME UNCHANGED tests
      PROVE  EachValueFollows'
  BY Zenon, <1>2 DEF EachValueFollows
<1>3. CASE eval_cjmp
  BY <1>2, <1>3 DEF eval_cjmp, decide
<1>4. CASE eval_addr_exp
  <2>1. CASE choose_base
    BY <1>2, <2>1 DEF choose_base, decide
  <2>2. CASE choose_conc_offset_uniform
    BY <1>2, <2>2 DEF choose_conc_offset_uniform, decide
  <2>3. CASE reuse_offset
    BY <1>2, <2>3 DEF reuse_offset
  <2>4. CASE null_dereference
    BY <1>2, <2>4 DEF null_dereference
  <2> QED BY <1>4, <2>1, <2>2, <2>3, <2>4 DEF eval_addr_exp
<1>5. CASE concretize
  BY <1>2, <1>5 DEF concretize
<1>6. CASE mark_ignored
  BY <1>2, <1>6 DEF mark_ignored
<1>7. CASE finish_path_fails
  BY <1>2, <1>7 DEF finish_path_fails
<1>8. CASE \E usr1 \in BOOLEAN : signal(usr1)
  BY <1>2, <1>8 DEF signal
<1>9. CASE UNCHANGED vars
  BY <1>2, <1>9 DEF vars
<1> QED BY <1>1, <1>3, <1>4, <1>5, <1>6, <1>7, <1>8, <1>9 DEF Next, Explore

\* Every value that a test gives a variable, put alone into the counterexample,
\* satisfies the conditions recorded after the mark of -ignore-pc-till, and a
\* variable that can have its preferred value there has it (assemble_testcase
\* and compute_preferred_value in emu_fuzzball.ml).  The conditions before the
\* mark, which prune_pathcond drops, may be left.
THEOREM TestValuesFollow == Spec => []EachValueFollows
<1>1. Init => EachValueFollows
  BY DEF Init, EachValueFollows
<1>2. EachValueFollows /\ [Next]_vars => EachValueFollows'
  BY NextFollows
<1> QED BY <1>1, <1>2, PTL DEF Spec

-----------------------------------------------------------------------------
(* The template. *)

GeneratorPlaces == {"start", "check", "build", "building", "release", "read", "mcopy"} \cup Done

\* The ranges of the variables, and clocks that do not run ahead.
TemplateTypes ==
    /\ pc \in [Generators -> GeneratorPlaces]
    /\ owner \in Generators \cup {NoOwner}
    /\ stage \in 0..Complete
    /\ mtime \in Nat /\ kmtime \in Nat /\ now \in Nat /\ builds \in Nat
    /\ kmtime <= now
    /\ floppy \in [Generators -> 0..Complete]

\* Who is between acquire and release has the lock; a build has begun and not
\* ended exactly in "building"; and whoever is about to build has a reason.
Locked ==
    /\ \A g \in Generators : pc[g] \in {"check", "build", "building", "release"} => owner = g
    /\ \A g \in Generators : pc[g] = "building" => stage \in 1..(Complete - 1)
    /\ \A g \in Generators : pc[g] = "build" => outdated
    /\ stage \in 1..(Complete - 1) =>
          owner \in Generators /\ pc[owner] \in {"building", "failed", "killed"}

\* A generator that was not overtaken finds a complete template until it has
\* read it, and has copied a complete one afterwards.
Quiet ==
    \A g \in Generators : g \notin overtaken =>
        /\ pc[g] \in {"release", "read"} => stage = Complete /\ mtime >= kmtime
        /\ pc[g] \in {"mcopy", "done"} => floppy[g] = Complete

TInv == TemplateTypes /\ Locked /\ Quiet

\* Initially no generator has begun, and the template is absent or complete.
LEMMA InitTInv == TInit => TInv
BY DEF TInit, TInv, TemplateTypes, Locked, Quiet, GeneratorPlaces, Done, Complete

\* Every command of a generator keeps the ranges.
LEMMA GeneratorTypes ==
    ASSUME TInv, NEW g \in Generators, gen_floppy(g) \/ kill(g)
    PROVE  TemplateTypes'
<1> USE DEF TInv, TemplateTypes, GeneratorPlaces, Done, Complete, goto
<1>1. CASE acquire(g) BY <1>1 DEF acquire
<1>2. CASE lock_timeout(g) BY <1>2 DEF lock_timeout
<1>3. CASE check_mtime(g) BY <1>3 DEF check_mtime
<1>4. CASE build(g) BY <1>4 DEF build, Locked
<1>5. CASE command_fails(g) BY <1>5 DEF command_fails
<1>6. CASE release(g) BY <1>6 DEF release
<1>7. CASE read_template(g) BY <1>7 DEF read_template
<1>8. CASE mcopy(g) BY <1>8 DEF mcopy
<1>9. CASE kill(g) BY Zenon, <1>9 DEF kill
<1> QED BY <1>1, <1>2, <1>3, <1>4, <1>5, <1>6, <1>7, <1>8, <1>9 DEF gen_floppy

\* Every command of a generator keeps the lock's invariant.
LEMMA GeneratorLocked ==
    ASSUME NoOwner \notin Generators, TInv, NEW g \in Generators, gen_floppy(g) \/ kill(g)
    PROVE  Locked'
<1> USE DEF TInv, TemplateTypes, Locked, GeneratorPlaces, Done, Complete, goto, outdated
<1>1. CASE acquire(g) BY <1>1 DEF acquire
<1>2. CASE lock_timeout(g) BY <1>2 DEF lock_timeout
<1>3. CASE check_mtime(g) BY <1>3 DEF check_mtime
<1>4. CASE build(g) BY <1>4 DEF build
<1>5. CASE command_fails(g) BY <1>5 DEF command_fails
<1>6. CASE release(g) BY <1>6 DEF release
<1>7. CASE read_template(g) BY <1>7 DEF read_template
<1>8. CASE mcopy(g) BY <1>8 DEF mcopy
<1>9. CASE kill(g) BY Zenon, <1>9 DEF kill
<1> QED BY <1>1, <1>2, <1>3, <1>4, <1>5, <1>6, <1>7, <1>8, <1>9 DEF gen_floppy

\* Every command of a generator keeps what the others rely on.
LEMMA GeneratorQuiet ==
    ASSUME NoOwner \notin Generators, TInv, NEW g \in Generators, gen_floppy(g) \/ kill(g)
    PROVE  Quiet'
<1> USE DEF TInv, TemplateTypes, Quiet, GeneratorPlaces, Done, Complete, goto
<1>1. CASE acquire(g) BY <1>1 DEF acquire
<1>2. CASE lock_timeout(g) BY <1>2 DEF lock_timeout
<1>3. CASE check_mtime(g) BY <1>3 DEF check_mtime, outdated, Locked
<1>4. CASE build(g)
  \* Somebody who builds has found the template outdated, so that nobody else
  \* can be about to read a complete one.
  <2>1. \A h \in Generators : h \notin overtaken /\ h # g => pc[h] \notin {"release", "read"}
    BY <1>4 DEF build, Locked, outdated
  <2> QED BY <1>4, <2>1 DEF build
<1>5. CASE command_fails(g) BY <1>5 DEF command_fails
<1>6. CASE release(g) BY <1>6 DEF release
<1>7. CASE read_template(g) BY <1>7 DEF read_template
<1>8. CASE mcopy(g) BY <1>8 DEF mcopy
<1>9. CASE kill(g) BY <1>9 DEF kill
<1> QED BY <1>1, <1>2, <1>3, <1>4, <1>5, <1>6, <1>7, <1>8, <1>9 DEF gen_floppy

\* Every step, of a generator or of its environment, keeps the invariant.
LEMMA NextTInv ==
    ASSUME NoOwner \notin Generators, TInv, [TNext]_tvars
    PROVE  TInv'
<1>1. CASE \E g \in Generators : gen_floppy(g) \/ kill(g)
  BY <1>1, GeneratorTypes, GeneratorLocked, GeneratorQuiet DEF TInv
<1>2. CASE build_kernel
  BY <1>2 DEF build_kernel, TInv, TemplateTypes, Locked, Quiet, outdated, GeneratorPlaces,
              Done, Complete
<1>3. CASE tick
  BY <1>3 DEF tick, TInv, TemplateTypes, Locked, Quiet, outdated, GeneratorPlaces, Done, Complete
<1>4. CASE UNCHANGED tvars
  BY <1>4 DEF tvars, TInv, TemplateTypes, Locked, Quiet, outdated
<1> QED BY <1>1, <1>2, <1>3, <1>4 DEF TNext, Finished

\* An incomplete template (gen_floppy_template builds it in place) is locked,
\* if need be for good, whoever was killed and whatever command failed.
THEOREM IncompleteIsLocked ==
    ASSUME NoOwner \notin Generators
    PROVE  TSpec => []IncompleteLocked
<1>1. TInit => TInv BY InitTInv
<1>2. TInv /\ [TNext]_tvars => TInv' BY NextTInv
<1>3. TInv => IncompleteLocked BY DEF TInv, Locked, IncompleteLocked
<1> QED BY <1>1, <1>2, <1>3, PTL DEF TSpec

\* An image that gen_floppy returns was copied from a complete template, unless
\* the kernel was rebuilt since its generator looked at the template.
THEOREM ImagesBootable ==
    ASSUME NoOwner \notin Generators
    PROVE  TSpec => []ImagesBootableIfQuiet
<1>1. TInit => TInv BY InitTInv
<1>2. TInv /\ [TNext]_tvars => TInv' BY NextTInv
<1>3. TInv => ImagesBootableIfQuiet BY DEF TInv, Quiet, ImagesBootableIfQuiet
<1> QED BY <1>1, <1>2, <1>3, PTL DEF TSpec

-----------------------------------------------------------------------------
(* The cache. *)

CallPlaces == {"new", "called", "open", "lookup", "close"} \cup Ended
Values == [of : Args \cup {NoProc}, by : Nat]

\* The ranges of the variables.
CacheTypes ==
    /\ dpc \in [Procs -> CallPlaces]
    /\ arg \in [Procs -> Args]
    /\ version \in Nat /\ version >= 1
    /\ code \in [Procs -> 1..version]
    /\ downer \in Procs \cup {NoProc}
    /\ retval \in [Procs -> Values]

\* The file holds, under the hash of some arguments, what some version of the
\* code computed for them.
CacheRight ==
    /\ DOMAIN disk \subseteq Args
    /\ \A a \in DOMAIN disk : disk[a] \in [of : {a}, by : 1..version]

\* A call that has found or computed its value holds one for its arguments.
ValueRight ==
    \A p \in Procs : dpc[p] \in {"close", "returned"} => retval[p] \in [of : {arg[p]}, by : 1..version]

DInv == CacheTypes /\ OneInCache /\ CacheRight /\ ValueRight

\* At first no call has begun and the file is empty.
LEMMA InitDInv == DInit => DInv
<1> SUFFICES ASSUME DInit PROVE DInv OBVIOUS
<1>1. CacheTypes BY DEF DInit, CacheTypes, CallPlaces, Values, Nothing
<1>2. OneInCache BY DEF DInit, OneInCache, InCall
<1>3. CacheRight BY DEF DInit, CacheRight, Empty
<1>4. ValueRight BY DEF DInit, ValueRight
<1> QED BY <1>1, <1>2, <1>3, <1>4 DEF DInv

\* Storing the value of a call (miss) keeps the file right.
LEMMA MissCache ==
    ASSUME DInv, NEW p \in Procs, miss(p)
    PROVE  CacheRight'
<1>1. disk' = [a \in {arg[p]} \cup DOMAIN disk |-> IF a = arg[p] THEN func(p) ELSE disk[a]]
  BY DEF miss, hash_args
<1>2. func(p) \in [of : {arg[p]}, by : 1..version] /\ arg[p] \in Args
  BY DEF func, DInv, CacheTypes
<1>3. version' = version BY DEF miss
<1> QED BY <1>1, <1>2, <1>3 DEF DInv, CacheRight

\* Every step of a call, and its end by a kill, keeps the ranges.
LEMMA CallTypes ==
    ASSUME DInv, NEW p \in Procs, memoizable_func(p) \/ kill_call(p)
    PROVE  CacheTypes'
<1> USE DEF DInv, CacheTypes, CallPlaces, Ended, dgoto
<1>1. CASE start(p) BY <1>1 DEF start
<1>2. CASE lock_cache(p) BY <1>2 DEF lock_cache
<1>3. CASE cache_timeout(p) BY <1>3 DEF cache_timeout
<1>4. CASE open_cache(p) BY <1>4 DEF open_cache
<1>5. CASE hit(p)
  <2>1. disk[arg[p]] \in Values BY <1>5 DEF hit, hash_args, CacheRight, Values
  <2> QED BY <1>5, <2>1 DEF hit, hash_args
<1>6. CASE miss(p)
  <2>1. func(p) \in Values BY DEF func, Values
  <2> QED BY <1>6, <2>1 DEF miss
<1>7. CASE miss_raises(p) BY <1>7 DEF miss_raises
<1>8. CASE close_release(p) BY <1>8 DEF close_release
<1>9. CASE kill_call(p) BY ZenonT(60), <1>9 DEF kill_call
<1> QED BY SMTT(60), <1>1, <1>2, <1>3, <1>4, <1>5, <1>6, <1>7, <1>8, <1>9 DEF memoizable_func

\* Every step of a call, and its end by a kill, leaves at most the owner of the
\* lock with the file.
LEMMA CallOne ==
    ASSUME NoProc \notin Procs, DInv, NEW p \in Procs, memoizable_func(p) \/ kill_call(p)
    PROVE  OneInCache'
<1> USE DEF DInv, CacheTypes, OneInCache, InCall, Ended, dgoto
<1>1. CASE start(p) BY <1>1 DEF start
<1>2. CASE lock_cache(p) BY <1>2 DEF lock_cache
<1>3. CASE cache_timeout(p) BY <1>3 DEF cache_timeout
<1>4. CASE open_cache(p) BY <1>4 DEF open_cache
<1>5. CASE hit(p) BY <1>5 DEF hit
<1>6. CASE miss(p) BY <1>6 DEF miss
<1>7. CASE miss_raises(p) BY <1>7 DEF miss_raises
<1>8. CASE close_release(p) BY <1>8 DEF close_release
<1>9. CASE kill_call(p) BY <1>9 DEF kill_call
<1> QED BY Zenon, <1>1, <1>2, <1>3, <1>4, <1>5, <1>6, <1>7, <1>8, <1>9 DEF memoizable_func

\* Every step of a call, and its end by a kill, keeps the file and the values
\* right.
LEMMA CallRight ==
    ASSUME DInv, NEW p \in Procs, memoizable_func(p) \/ kill_call(p)
    PROVE  CacheRight' /\ ValueRight'
<1> USE DEF DInv, CacheTypes, Ended, dgoto
<1>1. CASE start(p) BY <1>1 DEF start, CacheRight, ValueRight
<1>2. CASE lock_cache(p) BY SMTT(60), <1>2 DEF lock_cache, CacheRight, ValueRight
<1>3. CASE cache_timeout(p) BY <1>3 DEF cache_timeout, CacheRight, ValueRight
<1>4. CASE open_cache(p) BY <1>4 DEF open_cache, CacheRight, ValueRight, Empty
<1>5. CASE hit(p) BY <1>5 DEF hit, hash_args, CacheRight, ValueRight
<1>6. CASE miss(p)
  <2>1. CacheRight' BY Zenon, <1>6, MissCache
  <2>2. ValueRight' BY Zenon, <1>6 DEF miss, func, ValueRight
  <2> QED BY <2>1, <2>2
<1>7. CASE miss_raises(p) BY SMTT(60), <1>7 DEF miss_raises, CacheRight, ValueRight
<1>8. CASE close_release(p) BY SMTT(60), <1>8 DEF close_release, CacheRight, ValueRight
<1>9. CASE kill_call(p) BY <1>9 DEF kill_call, CacheRight, ValueRight
<1> QED BY Zenon, <1>1, <1>2, <1>3, <1>4, <1>5, <1>6, <1>7, <1>8, <1>9 DEF memoizable_func

\* Every step, an edit of the helpers included, keeps the invariant.
LEMMA NextDInv ==
    ASSUME NoProc \notin Procs, DInv, [DNext]_dvars
    PROVE  DInv'
<1>1. CASE \E p \in Procs : memoizable_func(p) \/ kill_call(p)
  BY Zenon, <1>1, CallTypes, CallOne, CallRight DEF DInv
<1>2. CASE edit_helpers
  BY SMTT(60), <1>2 DEF edit_helpers, DInv, CacheTypes, OneInCache, InCall, CacheRight, ValueRight
<1>3. CASE UNCHANGED dvars
  BY <1>3 DEF dvars, DInv, CacheTypes, OneInCache, InCall, CacheRight, ValueRight
<1> QED BY <1>1, <1>2, <1>3 DEF DNext, CallsFinished

\* The file of memoizable_disk is open in one process at a time.
THEOREM OneOpensCache ==
    ASSUME NoProc \notin Procs
    PROVE  DSpec => []OneInCache
<1>1. DInit => DInv BY InitDInv
<1>2. DInv /\ [DNext]_dvars => DInv' BY NextDInv
<1>3. DInv => OneInCache BY Zenon DEF DInv
<1> QED BY <1>1, <1>2, <1>3, PTL DEF DSpec

\* A call of a function that memoizable_disk wraps returns the value of its own
\* arguments, computed by the present code or by an earlier version.
THEOREM CallsReturnOwn ==
    ASSUME NoProc \notin Procs
    PROVE  DSpec => []ReturnsOwn
<1>1. DInit => DInv BY InitDInv
<1>2. DInv /\ [DNext]_dvars => DInv' BY NextDInv
<1>3. DInv => ReturnsOwn
  <2> SUFFICES ASSUME DInv, NEW p \in Procs, dpc[p] = "returned"
               PROVE  /\ retval[p].of = arg[p]
                      /\ retval[p].by \in 1..version
                      /\ version = 1 => retval[p] = func(p)
    BY DEF ReturnsOwn
  <2>1. retval[p] \in [of : {arg[p]}, by : 1..version] BY DEF DInv, ValueRight
  <2>2. code[p] \in 1..version /\ version \in Nat BY DEF DInv, CacheTypes
  <2> QED BY SMTT(60), <2>1, <2>2 DEF func
<1> QED BY <1>1, <1>2, <1>3, PTL DEF DSpec

\* After a call has died with the lock of memoizable_disk, nobody changes the
\* file or gets a value any more.
THEOREM DeadOwnerIsFinal ==
    ASSUME NoProc \notin Procs
    PROVE  DSpec => StuckForGood
<1>1. DInit => DInv BY InitDInv
<1>2. DInv /\ [DNext]_dvars => DInv' BY NextDInv
<1>3. DInv /\ [DNext]_dvars => [DeadOwner => UNCHANGED <<disk, downer, retval>>]_dvars
  <2> SUFFICES ASSUME DInv, DNext, DeadOwner PROVE UNCHANGED <<disk, downer, retval>>
    OBVIOUS
  <2>1. downer # NoProc /\ InCall = {}
    BY SMTT(60) DEF DeadOwner, DInv, OneInCache, InCall
  <2>2. ASSUME NEW p \in Procs, memoizable_func(p) \/ kill_call(p)
        PROVE  UNCHANGED <<disk, downer, retval>>
    BY <2>1, <2>2 DEF InCall, memoizable_func, start, lock_cache, cache_timeout, open_cache, hit,
                      miss, miss_raises, close_release, kill_call
  <2> QED BY <2>2 DEF DNext, edit_helpers, CallsFinished, dvars
<1> QED BY <1>1, <1>2, <1>3, PTL DEF DSpec, StuckForGood

=============================================================================
