------------------------------ MODULE Campaign ------------------------------
(***************************************************************************)
(* The tests of one instruction, run first on QEMU (batchRunTestcase,      *)
(* run_test_case.py, emu/run-testcase) and then on KVM (batchRunTestcase-  *)
(* kvm-offline, emu/kvm-run/run-testcase, kvm.cc), with the final states   *)
(* compared by diff_cpustate.py.  Every emulator runs under a deadline,    *)
(* and may be killed at any point by it.                                   *)
(*                                                                         *)
(* A file is Absent, Empty or a dump.  A dump of a final state has the     *)
(* part diff_cpustate.py compares and the part normalize_states blanks;    *)
(* the contents of a .pre file do not matter here, and a dummy has none.   *)
(* All temporary files and the output directory are under /tmp, so rename  *)
(* and mv are atomic.  The checksums of the headers are left out, KVM      *)
(* copies its own from the .pre file, and so are the files of running      *)
(* times.                                                                  *)
(***************************************************************************)
EXTENDS Naturals, Sequences

CONSTANTS
    TestList,        \* the testcases of the instruction, in order
    Kept, Ignored,   \* the two parts of a machine state
    Absent, Empty,   \* no file, and a file without contents
    TIMEOUT,         \* seconds a test may take, 0 for no limit
    Star             \* the pattern itself, what a shell's for gets without a match

VARIABLES
    phase,     \* "qemu", "kvm" or "report", then "done"
    todo,      \* the tests the current loop has still to visit
    pc,        \* where the script running the first of them is
    expired,   \* its deadline has passed
    pre, post, \* the temporary files $pre and $post of that script
    outdir,    \* OUTDIR: the .pre and .post files of the tests run so far
    dir,       \* the instruction's directory under OUT
    list,      \* the testcases selected for aggregation
    verdict,   \* what simpleTest.sh prints
    final,     \* history: the final states QEMU and KVM came to
    cut        \* history: the tests that failed or met their deadline

vars == <<phase, todo, pc, expired, pre, post, outdir, dir, list, verdict,
          final, cut>>

Tests == {TestList[i] : i \in DOMAIN TestList}

ASSUME CampaignAssumption ==
    /\ TestList \in Seq(Tests)
    /\ \A i, j \in DOMAIN TestList : TestList[i] = TestList[j] => i = j
    /\ TIMEOUT \in Nat
    /\ Star \notin Tests
    /\ Absent # Empty

States == [kept : Kept, ignored : Ignored]
Dump(type, s) == [type |-> type, state |-> s]
Dummy(type) == [type |-> type, state |-> Absent]
Dumps == {Dump("post", s) : s \in States}
Dummies == {Dummy(type) : type \in {"pre", "io", "crash"}}
Files == {Absent, Empty} \cup Dumps \cup Dummies

ASSUME FilesAssumption ==
    /\ \A f \in Dumps \cup Dummies : f # Absent /\ f # Empty
    /\ "report" # Absent /\ "report" # Empty

NoFiles == [t \in Tests |-> [pre |-> Absent, post |-> Absent,
                             kvm |-> Absent, diff |-> Absent]]

\* The lists match and mismatch have a line per test.
Logged(log) == {log[i] : i \in DOMAIN log}

\* What a for loop over a pattern visits: the files, or else the pattern.
Glob(S) == IF S = {} THEN {Star} ELSE S

\* The loops visit the tests in order.
test ==
    IF Star \in todo THEN Star
    ELSE TestList[CHOOSE i \in DOMAIN TestList :
                      /\ TestList[i] \in todo
                      /\ \A j \in 1..(i - 1) : TestList[j] \notin todo]

\* The loop goes on with its next test.
Next_test ==
    /\ todo' = todo \ {test}
    /\ pc' = "idle"
    /\ expired' = FALSE

\* The instruction may have been tested before: its directory then has the
\* lists and reports of that campaign.
Init ==
    /\ phase = "qemu" /\ todo = Tests /\ pc = "idle" /\ expired = FALSE
    /\ pre = Absent /\ post = Absent
    /\ outdir = NoFiles
    /\ \E old \in SUBSET Tests, rest \in {"match", "mismatch"} :
          LET log(l) == SelectSeq(TestList, LAMBDA t : t \in old /\ l = rest)
          IN  dir = [files |-> [t \in Tests |-> [NoFiles[t] EXCEPT
                                   !.diff = IF t \in old THEN "report" ELSE Absent]],
                     match |-> log("match"), mismatch |-> log("mismatch")]
    /\ list = {} /\ verdict = "none"
    /\ final = [t \in Tests |-> [qemu |-> Absent, kvm |-> Absent]]
    /\ cut = {}

-----------------------------------------------------------------------------
(* The QEMU phase.                                                         *)

\* run_test_case.py has made the floppy image and starts emu/run-testcase,
\* which makes the file $post.
start_qemu ==
    /\ phase = "qemu" /\ todo # {} /\ pc = "idle"
    /\ pc' = "qemu"
    /\ pre' = Absent /\ post' = Empty
    /\ UNCHANGED <<phase, todo, expired, outdir, dir, list, verdict, final, cut>>

\* gen_floppy_with_testcase raised an exception: there is no run.
gen_floppy_fails ==
    /\ phase = "qemu" /\ todo # {} /\ pc = "idle"
    /\ Next_test
    /\ cut' = cut \cup {test}
    /\ UNCHANGED <<phase, pre, post, outdir, dir, list, verdict, final>>

\* kemufuzzer_exception at the start of the testcase.
save_pre ==
    /\ pc = "qemu" /\ pre = Absent
    /\ pre' = Dummy("pre")
    /\ UNCHANGED <<phase, todo, pc, expired, post, outdir, dir, list, verdict,
                   final, cut>>

\* kemufuzzer_hlt, or kemufuzzer_exception after the start: the final state is
\* saved and QEMU exits with 0.
save_post ==
    /\ pc = "qemu" /\ pre # Absent
    /\ \E s \in States :
          /\ post' = Dump("post", s)
          /\ final' = [final EXCEPT ![test].qemu = Dump("post", s)]
    /\ pc' = "mv_pre"
    /\ UNCHANGED <<phase, todo, expired, pre, outdir, dir, list, verdict, cut>>

\* QEMU ends with another status: the script keeps nothing.
qemu_dies_Bug ==
    /\ pc = "qemu"
    /\ pc' = "mv_pre"
    /\ cut' = cut \cup {test}
    /\ UNCHANGED <<phase, todo, expired, pre, post, outdir, dir, list, verdict,
                   final>>
qemu_dies ==
    /\ pc = "qemu"
    /\ pc' = "exit"
    /\ cut' = cut \cup {test}
    /\ UNCHANGED <<phase, todo, expired, pre, post, outdir, dir, list, verdict,
                   final>>

mv_pre ==
    /\ pc = "mv_pre"
    /\ outdir' = [outdir EXCEPT ![test].pre = pre]
    /\ pre' = Absent
    /\ pc' = "mv_post"
    /\ UNCHANGED <<phase, todo, expired, post, dir, list, verdict, final, cut>>

mv_post ==
    /\ pc = "mv_post"
    /\ outdir' = [outdir EXCEPT ![test].post = post]
    /\ post' = Absent
    /\ pc' = "exit"
    /\ UNCHANGED <<phase, todo, expired, pre, dir, list, verdict, final, cut>>

\* "rm -f $post" and the end of the script.
script_exits ==
    /\ pc = "exit"
    /\ post' = Absent
    /\ pc' = "exited"
    /\ UNCHANGED <<phase, todo, expired, pre, outdir, dir, list, verdict, final, cut>>

\* exec_with_timeout sees that the child has ended in time.  Whatever its
\* status, the loop of batchRunTestcase goes on.
child_ended ==
    /\ phase = "qemu" /\ pc = "exited" /\ ~expired
    /\ Next_test
    /\ UNCHANGED <<phase, pre, post, outdir, dir, list, verdict, final, cut>>

\* exec_with_timeout finds the deadline passed: it kills the process group,
\* which may have ended by then, and gives the test up.
child_killed_Bug ==
    /\ phase = "qemu" /\ expired /\ pc = "exited"
    /\ Next_test
    /\ cut' = cut \cup {test}
    /\ UNCHANGED <<phase, pre, post, outdir, dir, list, verdict, final>>
child_killed ==
    /\ phase = "qemu" /\ expired
    /\ Next_test
    /\ cut' = cut \cup {test}
    /\ UNCHANGED <<phase, pre, post, outdir, dir, list, verdict, final>>

\* The loop is over: the directory of an earlier campaign is removed and OUTDIR
\* moved to its place, and "run-testcase-offline.sh -kvm" starts on it.
publish_Bug ==
    /\ phase = "qemu" /\ todo = {}
    /\ phase' = "kvm"
    /\ dir' = [dir EXCEPT !.files = outdir]
    /\ todo' = Glob({t \in Tests : outdir[t].pre # Absent})
    /\ outdir' = NoFiles
    /\ UNCHANGED <<pc, expired, pre, post, list, verdict, final, cut>>
publish ==
    /\ phase = "qemu" /\ todo = {}
    /\ phase' = "kvm"
    /\ dir' = [files |-> outdir, match |-> <<>>, mismatch |-> <<>>]
    /\ todo' = Glob({t \in Tests : outdir[t].pre # Absent})
    /\ outdir' = NoFiles
    /\ UNCHANGED <<pc, expired, pre, post, list, verdict, final, cut>>

\* Time passes while a script runs.
deadline ==
    /\ TIMEOUT > 0 /\ pc \notin {"idle", "diff"} /\ ~expired
    /\ expired' = TRUE
    /\ UNCHANGED <<phase, todo, pc, pre, post, outdir, dir, list, verdict, final, cut>>

-----------------------------------------------------------------------------
(* The KVM phase.                                                          *)

\* emu/kvm-run/run-testcase makes $post and starts kvm, which loads the .pre
\* file.  Without any .pre file there is nothing to load: kvm aborts.
start_kvm ==
    /\ phase = "kvm" /\ todo # {} /\ pc = "idle"
    /\ post' = Empty
    /\ pc' = IF test = Star THEN "exit" ELSE "kvm"
    /\ UNCHANGED <<phase, todo, expired, pre, outdir, dir, list, verdict, final, cut>>

\* KVM_EXIT_HLT and KVM_EXIT_EXCEPTION: the final state is saved, status 0.
kvm_halts ==
    /\ pc = "kvm"
    /\ \E s \in States :
          /\ post' = Dump("post", s)
          /\ final' = [final EXCEPT ![test].kvm = Dump("post", s)]
    /\ pc' = "mv_kvm"
    /\ UNCHANGED <<phase, todo, expired, pre, outdir, dir, list, verdict, cut>>

\* KVM_EXIT_IO: a dummy state, status 0.
kvm_io ==
    /\ pc = "kvm"
    /\ post' = Dummy("io")
    /\ final' = [final EXCEPT ![test].kvm = Dummy("io")]
    /\ pc' = "mv_kvm"
    /\ UNCHANGED <<phase, todo, expired, pre, outdir, dir, list, verdict, cut>>

\* KVM_EXIT_FAIL_ENTRY: no state, but status 0.
kvm_fail_entry ==
    /\ pc = "kvm"
    /\ pc' = "mv_kvm"
    /\ cut' = cut \cup {test}
    /\ UNCHANGED <<phase, todo, expired, pre, post, outdir, dir, list, verdict, final>>

\* KVM_EXIT_SHUTDOWN and KVM_EXIT_UNKNOWN leave no state, any other exit a
\* dummy; the status is 1.  (MMIO, and the INVD instruction, re-enter KVM.)
kvm_fails ==
    /\ pc = "kvm"
    /\ post' \in {post, Dummy("crash")}
    /\ pc' = "exit"
    /\ cut' = cut \cup {test}
    /\ UNCHANGED <<phase, todo, expired, pre, outdir, dir, list, verdict, final>>

mv_kvm ==
    /\ pc = "mv_kvm"
    /\ dir' = [dir EXCEPT !.files[test].kvm = post]
    /\ post' = Absent
    /\ pc' = "exit"
    /\ UNCHANGED <<phase, todo, expired, pre, outdir, list, verdict, final, cut>>

\* timeout(1) returns: the script has ended, or is killed at its deadline.
kvm_ended ==
    /\ phase = "kvm" /\ (pc = "exited" \/ (expired /\ pc # "diff"))
    /\ pc' = "diff"
    /\ expired' = FALSE
    /\ cut' = IF expired THEN cut \cup {test} ELSE cut
    /\ UNCHANGED <<phase, todo, pre, post, outdir, dir, list, verdict, final>>

\* normalize_states blanks the fields the emulators do not keep.
normalize_Bug(s) == s
normalize(s) == s.kept

\* The exit status of diff_cpustate.py: 1 if a file cannot be read or is from a
\* crash, 0 if there is no difference or a test stopped at I/O, and else 2.
status_IoBug(a, b) ==
    IF a \in {Absent, Empty} \/ b \in {Absent, Empty} THEN 1
    ELSE IF a.type # "post" \/ b.type # "post" THEN 1
    ELSE IF normalize(a.state) = normalize(b.state) THEN 0 ELSE 2
status(a, b) ==
    IF a \in {Absent, Empty} \/ b \in {Absent, Empty} THEN 1
    ELSE IF "io" \in {a.type, b.type} THEN 0
    ELSE IF "crash" \in {a.type, b.type} THEN 1
    ELSE IF normalize(a.state) = normalize(b.state) THEN 0 ELSE 2

\* What diff_cpustate.py prints: nothing if it stops at an I/O dummy.
report(a, b) ==
    IF "io" \in {a.type, b.type} THEN Empty ELSE "report"

\* diff_cpustate.py compares the states and the shell logs the result.  With
\* status 1 the report is removed; for the pattern that is every report.
compare ==
    /\ phase = "kvm" /\ pc = "diff"
    /\ Next_test
    /\ IF test = Star
       THEN dir' = [dir EXCEPT !.files =
                       [t \in Tests |-> [dir.files[t] EXCEPT !.diff = Absent]]]
       ELSE LET f == dir.files[test]
                err == status(f.post, f.kvm)
            IN  dir' = [files |-> [dir.files EXCEPT ![test].diff =
                                      IF err = 1 THEN Absent ELSE report(f.post, f.kvm)],
                        match |-> IF err = 0 THEN Append(dir.match, test) ELSE dir.match,
                        mismatch |-> IF err = 2 THEN Append(dir.mismatch, test)
                                                ELSE dir.mismatch]
    /\ UNCHANGED <<phase, pre, post, outdir, list, verdict, final, cut>>

\* "find -empty -delete", and the dumps are removed.
sweep_Bug ==
    /\ phase = "kvm" /\ todo = {}
    /\ phase' = "report"
    /\ dir' = [dir EXCEPT !.files =
                  [t \in Tests |-> [NoFiles[t] EXCEPT !.diff = dir.files[t].diff]]]
    /\ UNCHANGED <<todo, pc, expired, pre, post, outdir, list, verdict, final, cut>>
sweep ==
    /\ phase = "kvm" /\ todo = {}
    /\ phase' = "report"
    /\ dir' = [dir EXCEPT !.files =
                  [t \in Tests |-> [NoFiles[t] EXCEPT !.diff =
                      IF dir.files[t].diff = Empty THEN Absent ELSE dir.files[t].diff]]]
    /\ UNCHANGED <<todo, pc, expired, pre, post, outdir, list, verdict, final, cut>>

-----------------------------------------------------------------------------
(* simpleTest.sh: the tests with a report are listed for aggregation, and   *)
(* the verdict is that of the lists (the file of an empty list is missing). *)
Verdict_Bug ==
    IF dir.match # <<>> THEN "matches"
    ELSE IF dir.mismatch # <<>> THEN "mismatches" ELSE "fail"
Verdict ==
    IF dir.mismatch # <<>> THEN "mismatches"
    ELSE IF dir.match # <<>> THEN "matches" ELSE "fail"

simpleTest ==
    /\ phase = "report"
    /\ phase' = "done"
    /\ list' = Glob({t \in Tests : dir.files[t].diff # Absent})
    /\ verdict' = Verdict
    /\ UNCHANGED <<todo, pc, expired, pre, post, outdir, dir, final, cut>>

Done == phase = "done" /\ UNCHANGED vars

Next ==
    \/ start_qemu \/ gen_floppy_fails \/ save_pre \/ save_post \/ qemu_dies
    \/ mv_pre \/ mv_post \/ script_exits \/ child_ended \/ child_killed
    \/ publish \/ deadline
    \/ start_kvm \/ kvm_halts \/ kvm_io \/ kvm_fail_entry \/ kvm_fails \/ mv_kvm
    \/ kvm_ended \/ compare \/ sweep
    \/ simpleTest \/ Done

\* Scripts run on, and time passes.  An emulator need not come to an end, so
\* what it does has no fairness of its own.
Fairness ==
    /\ WF_vars(deadline)
    /\ WF_vars(start_qemu \/ gen_floppy_fails \/ child_ended \/ child_killed \/ publish)
    /\ WF_vars(mv_pre \/ mv_post \/ script_exits \/ mv_kvm)
    /\ WF_vars(start_kvm \/ kvm_ended \/ compare \/ sweep)
    /\ WF_vars(simpleTest)

Spec == Init /\ [][Next]_vars /\ Fairness

-----------------------------------------------------------------------------
Results == [pre : Files, post : Files, kvm : Files, diff : {Absent, Empty, "report"}]

\* Of the lists an earlier campaign left nothing is assumed.
TypeOK ==
    /\ phase \in {"qemu", "kvm", "report", "done"}
    /\ todo \subseteq Tests \cup {Star}
    /\ pc \in {"idle", "qemu", "mv_pre", "mv_post", "exit", "exited",
               "kvm", "mv_kvm", "diff"}
    /\ expired \in BOOLEAN
    /\ pre \in Files /\ post \in Files
    /\ outdir \in [Tests -> Results]
    /\ dir = [files |-> dir.files, match |-> dir.match, mismatch |-> dir.mismatch]
    /\ dir.files \in [Tests -> Results]
    /\ phase # "qemu" => dir.match \in Seq(Tests) /\ dir.mismatch \in Seq(Tests)
    /\ list \subseteq Tests \cup {Star}
    /\ verdict \in {"none", "matches", "mismatches", "fail"}
    /\ final \in [Tests -> [qemu : {Absent} \cup Dumps,
                           kvm : {Absent, Dummy("io")} \cup Dumps]]
    /\ cut \subseteq Tests \cup {Star}

\* Both emulators came to a final state, the same where it is compared.
Agree(t) ==
    /\ final[t].qemu \in Dumps /\ final[t].kvm \in Dumps
    /\ final[t].qemu.state.kept = final[t].kvm.state.kept

\* The lists tell what the emulators did: a test of this campaign is listed in
\* match only if both came to final states that agree or KVM stopped at I/O,
\* and in mismatch only if the final states differ where they are compared,
\* whatever was killed, failed or left half done
\* (batchRunTestcase-kvm-offline:17-26).
LogsSound ==
    phase # "qemu" =>
        /\ \A t \in Logged(dir.match) :
              /\ final[t].qemu \in Dumps
              /\ final[t].kvm = Dummy("io") \/ Agree(t)
        /\ \A t \in Logged(dir.mismatch) :
              /\ final[t].qemu \in Dumps /\ final[t].kvm \in Dumps
              /\ ~Agree(t)

\* A published final state of QEMU is a complete dump of the state QEMU came
\* to: neither the empty file of mktemp nor the file of a killed or failed run
\* gets there (emu/run-testcase:32-36).
PostComplete ==
    \A t \in Tests : LET p == outdir[t].post IN
        p # Absent => p \in Dumps /\ p = final[t].qemu

\* A campaign lists a test once, in one of the lists, so the counts
\* simpleTest.sh prints add up.
LoggedOnce ==
    phase # "qemu" =>
        /\ Logged(dir.match) \cap Logged(dir.mismatch) = {}
        /\ Len(dir.match) + Len(dir.mismatch) <= Len(TestList)
        /\ \A log \in {dir.match, dir.mismatch} :
              \A i, j \in DOMAIN log : log[i] = log[j] => i = j

\* No test gets lost: one that neither failed nor met its deadline is listed.
EveryTestListed ==
    phase \in {"report", "done"} =>
        \A t \in Tests \ cut : t \in Logged(dir.match) \cup Logged(dir.mismatch)

\* The tests listed for aggregation are those whose states were compared: all
\* of mismatch, and of match those that did not stop at I/O (simpleTest.sh:87).
\* Without any the list has the unexpanded pattern.
ListExact ==
    phase = "done" =>
        LET compared == Logged(dir.mismatch)
                        \cup {t \in Logged(dir.match) : final[t].kvm # Dummy("io")}
        IN  list = IF compared = {} THEN {Star} ELSE compared

\* The verdict: "matches" is printed only if no test ran to the end on both
\* emulators, within its deadlines, with states that differ.
VerdictRight ==
    verdict = "matches" =>
        /\ \E t \in Tests : Agree(t) \/ final[t].kvm = Dummy("io")
        /\ \A t \in Tests \ cut : final[t].kvm \in Dumps => Agree(t)

\* A test is pending until its results have been compared, or until publish
\* finds no .pre file of it.
Result ==
    [t \in Tests |->
        IF phase = "qemu" \/ t \in todo THEN "pending"
        ELSE IF t \in Logged(dir.match) THEN "match"
        ELSE IF t \in Logged(dir.mismatch) THEN "mismatch" ELSE "dropped"]

Pipe ==
    INSTANCE Pipeline WITH
        Finals <- Dumps, View <- [d \in Dumps |-> d.state.kept],
        Io <- Dummy("io"), None <- Absent,
        outcome <- final, failed <- cut \ {Star}, result <- Result,
        selected <- list \ {Star}

\* The scripts, with their files, deadlines and kills, give each test one
\* result, the right one, and never revise it.
ImplementsPipeline == Pipe!Spec

\* A campaign ends even if an emulator hangs in every test.
CampaignEnds == TIMEOUT > 0 => <>(phase = "done")
=============================================================================
