--------------------------- MODULE CampaignProofs ---------------------------
(***************************************************************************)
(* Proofs about Campaign, for any number of tests, any machine states and  *)
(* any deadline: what gets published, listed and printed is what the       *)
(* emulators did, wherever they or their scripts were killed.              *)
(***************************************************************************)
EXTENDS Campaign, FiniteSetTheorems, WellFoundedInduction, TLAPS

-----------------------------------------------------------------------------
(* The inductive invariant. *)

\* The states KVM can end a test with and status 0.
Ends == Dumps \cup {Dummy("io")}

Listed == Logged(dir.match) \cup Logged(dir.mismatch)

\* The tests whose final states diff_cpustate.py compared.
Compared ==
    Logged(dir.mismatch) \cup {t \in Logged(dir.match) : final[t].kvm # Dummy("io")}

\* Where the script can be in each phase, and that it runs for a test.
Scripts ==
    /\ phase = "qemu" => /\ Star \notin todo
                         /\ pc \in {"idle", "qemu", "mv_pre", "mv_post", "exit", "exited"}
    /\ phase = "kvm" => pc \in {"idle", "kvm", "mv_kvm", "exit", "exited", "diff"}
    /\ phase \in {"report", "done"} => todo = {}
    /\ pc # "idle" => todo # {}
    /\ expired => pc # "idle"

\* The .post file of a test is yet to be made.
Awaited(t) == t \in todo /\ (t = test => pc \in {"idle", "qemu", "mv_pre", "mv_post"})

\* QEMU's files: a final state is in $post before it is moved, no test has a
\* .post file before that, and a test that was not cut has both files after.
QemuFiles ==
    phase = "qemu" =>
        /\ pc = "mv_pre" => pre # Absent
        /\ pc = "mv_post" => outdir[test].pre # Absent
        /\ pc \in {"mv_pre", "mv_post"} => post \in Dumps /\ post = final[test].qemu
        /\ \A t \in Tests :
              /\ Awaited(t) => outdir[t].post = Absent
              /\ ~Awaited(t) /\ t \notin cut
                    => outdir[t].pre # Absent /\ outdir[t].post # Absent
              /\ outdir[t].kvm = Absent /\ outdir[t].diff = Absent

\* The .kvm file of a test is yet to be made.
Pending(t) == t \in todo /\ (t = test => pc \in {"idle", "kvm", "mv_kvm"})

\* KVM's files: what mv_kvm moves is KVM's final state or the empty file, and
\* the files of a test are the final states it came to.
KvmFiles ==
    phase = "kvm" =>
        /\ Star \in todo => todo = {Star} /\ Listed = {} /\ pc \notin {"kvm", "mv_kvm"}
        /\ pc = "kvm" => post = Empty
        /\ pc = "mv_kvm" => \/ post = Empty /\ test \in cut
                            \/ post \in Ends /\ post = final[test].kvm
        /\ \A t \in Tests : LET f == dir.files[t] IN
              /\ f.post # Absent => f.post \in Dumps /\ f.post = final[t].qemu
              /\ f.kvm \notin {Absent, Empty} => f.kvm \in Ends /\ f.kvm = final[t].kvm
              /\ Pending(t) => f.kvm = Absent
              /\ t \in todo \ cut => f.post # Absent
              /\ t \in todo \ cut /\ ~Pending(t) => f.kvm \in Ends

\* The lists: a test is in one of them once it has left the loop, if it was not
\* cut, and the reports are those of the compared tests.
Lists ==
    phase # "qemu" =>
        /\ LogsSound
        /\ Listed \cap todo = {}
        /\ \A t \in Tests \ (todo \cup cut) : t \in Listed
        /\ Logged(dir.match) \cap Logged(dir.mismatch) = {}
        /\ \A i, j \in DOMAIN dir.match : dir.match[i] = dir.match[j] => i = j
        /\ \A i, j \in DOMAIN dir.mismatch : dir.mismatch[i] = dir.mismatch[j] => i = j
        /\ \A t \in Tests :
              dir.files[t].diff = IF t \in Compared THEN "report"
                                  ELSE IF t \in Listed /\ phase = "kvm" THEN Empty
                                  ELSE Absent

\* What simpleTest.sh leaves and prints.
Outcome ==
    IF phase = "done" THEN list = Glob(Compared) /\ verdict = Verdict
    ELSE verdict = "none"

IInv == TypeOK /\ Scripts /\ PostComplete /\ QemuFiles /\ KvmFiles /\ Lists /\ Outcome

-----------------------------------------------------------------------------
(* Facts about the model's operators. *)

\* A nonempty set of naturals has a least element.
LEMMA LeastNumber ==
    ASSUME NEW S \in SUBSET Nat, S # {}
    PROVE  \E n \in S : \A m \in S : n <= m
<1> DEFINE Less == {p \in Nat \X Nat : p[1] < p[2]}
<1>1. IsWellFoundedOn(Less, Nat)
  BY NatLessThanWellFounded DEF OpToRel
<1>2. PICK n \in S : \A m \in S : <<m, n>> \notin Less
  <2> HIDE DEF Less
  <2> QED
    BY Zenon, <1>1, WFMin
<1>3. ASSUME NEW m \in S PROVE n <= m
  <2>1. n \in Nat /\ m \in Nat /\ (m < n => <<m, n>> \in Less)
    OBVIOUS
  <2> QED
    BY <1>2, <1>3, <2>1
<1> QED
  BY <1>3

\* A loop that is not over visits one of the tests it has left, or the pattern.
LEMMA TestVisited ==
    ASSUME todo \subseteq Tests \cup {Star}, todo # {}
    PROVE  test \in todo
<1>1. CASE Star \in todo
  BY <1>1 DEF test
<1>2. CASE Star \notin todo
  <2> DEFINE Places == {i \in DOMAIN TestList : TestList[i] \in todo}
  <2>1. Places \in SUBSET Nat /\ Places # {} /\ DOMAIN TestList = 1..Len(TestList)
    BY <1>2, CampaignAssumption DEF Tests
  <2>2. PICK i \in Places : \A j \in Places : i <= j
    <3> HIDE DEF Places
    <3> QED
      BY <2>1, LeastNumber
  <2>3. \A j \in 1..(i - 1) : TestList[j] \notin todo
    BY <2>1, <2>2
  <2> DEFINE First(k) == TestList[k] \in todo /\ \A j \in 1..(k - 1) : TestList[j] \notin todo
  <2>4. \E k \in DOMAIN TestList : First(k)
    BY <2>2, <2>3
  <2> HIDE DEF First
  <2>5. First(CHOOSE k \in DOMAIN TestList : First(k))
    BY <2>4
  <2> QED
    BY Zenon, <1>2, <2>5 DEF First, test
<1> QED
  BY <1>1, <1>2

\* The kinds of file are distinct.
LEMMA FileKinds ==
    /\ Absent # Empty /\ Absent \in Files /\ Empty \in Files
    /\ "report" # Absent /\ "report" # Empty
    /\ \A f \in Dumps : f \in Files /\ f # Absent /\ f # Empty /\ f # Dummy("io")
                        /\ f.type = "post"
    /\ \A f \in Dumps : f.state \in States /\ f = Dump("post", f.state)
    /\ \A s \in States : Dump("post", s) \in Dumps
    /\ \A d \in {"pre", "io", "crash"} :
          Dummy(d) \in Files /\ Dummy(d) # Absent /\ Dummy(d) # Empty /\ Dummy(d).type = d
<1>1. \A f \in Dumps : /\ f.type = "post" /\ f.state \in States
                       /\ f = Dump("post", f.state) /\ f # Dummy("io")
  BY DEF Dumps, Dump, Dummy
<1>2. \A d \in {"pre", "io", "crash"} : Dummy(d).type = d /\ Dummy(d) \in Dummies
  BY DEF Dummies, Dummy
<1> QED
  BY Zenon, <1>1, <1>2, CampaignAssumption, FilesAssumption DEF Files, Dumps

-----------------------------------------------------------------------------
(* Type correctness. *)

\* A script that runs, runs for a test of its loop.
LEMMA Running ==
    ASSUME TypeOK, Scripts, pc # "idle" \/ todo # {}
    PROVE  /\ todo # {} /\ test \in todo /\ test \in Tests \cup {Star}
           /\ phase \in {"qemu", "kvm"}
           /\ phase = "qemu" => test \in Tests
           /\ test \notin Tests <=> Star \in todo
<1>1. todo # {} /\ todo \subseteq Tests \cup {Star}
  BY DEF TypeOK, Scripts
<1>2. test \in todo
  BY <1>1, TestVisited
<1>3. test \notin Tests <=> Star \in todo
  BY <1>1, <1>2, CampaignAssumption DEF test
<1> QED
  BY <1>1, <1>2, <1>3 DEF TypeOK, Scripts

\* Only steps that end a test or a phase change what the loop has left.
LEMMA SameTest ==
    ASSUME todo' = todo
    PROVE  test' = test
BY DEF test

LEMMA TypeInit == Init => TypeOK
<1> SUFFICES ASSUME Init PROVE TypeOK
  OBVIOUS
<1>1. NoFiles \in [Tests -> Results]
  BY FileKinds DEF NoFiles, Results
<1>2. \A old \in SUBSET Tests :
         [t \in Tests |-> [NoFiles[t] EXCEPT !.diff = IF t \in old THEN "report" ELSE Absent]]
            \in [Tests -> Results]
  BY <1>1 DEF Results
<1>3. dir.files \in [Tests -> Results]
      /\ dir = [files |-> dir.files, match |-> dir.match, mismatch |-> dir.mismatch]
  BY <1>2 DEF Init
<1> QED
  BY Zenon, <1>1, <1>3, FileKinds DEF Init, TypeOK

\* Writing a file of a test.
LEMMA FileWritten ==
    ASSUME NEW d \in [Tests -> Results], NEW t, NEW f \in Files
    PROVE  /\ [d EXCEPT ![t].pre = f] \in [Tests -> Results]
           /\ [d EXCEPT ![t].post = f] \in [Tests -> Results]
           /\ [d EXCEPT ![t].kvm = f] \in [Tests -> Results]
<1>1. [d EXCEPT ![t].pre = f] \in [Tests -> Results]
  BY Zenon DEF Results
<1>2. [d EXCEPT ![t].post = f] \in [Tests -> Results]
  BY Zenon DEF Results
<1>3. [d EXCEPT ![t].kvm = f] \in [Tests -> Results]
  BY ZenonT(60) DEF Results
<1> QED
  BY <1>1, <1>2, <1>3

LEMMA TypeStep ==
    ASSUME TypeOK, Scripts, [Next]_vars
    PROVE  TypeOK'
<1> USE DEF TypeOK
<1>1. CASE start_qemu
  BY <1>1, FileKinds DEF start_qemu
<1>2. CASE gen_floppy_fails
  BY Zenon, <1>2, Running DEF gen_floppy_fails, Next_test
<1>3. CASE save_pre
  BY <1>3, FileKinds DEF save_pre
<1>4. CASE save_post
  BY ZenonT(60), <1>4, FileKinds DEF save_post
<1>5. CASE qemu_dies
  BY <1>5, Running DEF qemu_dies
<1>6. CASE mv_pre
  <2>1. [outdir EXCEPT ![test].pre = pre] \in [Tests -> Results]
    BY Zenon, FileWritten
  <2> QED
    BY <1>6, <2>1, FileKinds DEF mv_pre
<1>7. CASE mv_post
  <2>1. [outdir EXCEPT ![test].post = post] \in [Tests -> Results]
    BY Zenon, FileWritten
  <2> QED
    BY <1>7, <2>1, FileKinds DEF mv_post
<1>8. CASE script_exits
  BY <1>8, FileKinds DEF script_exits
<1>9. CASE child_ended
  BY Zenon, <1>9 DEF child_ended, Next_test
<1>10. CASE child_killed
  BY Zenon, <1>10, Running DEF child_killed, Next_test, Scripts
<1>11. CASE publish
  BY <1>11, FileKinds DEF publish, Glob, NoFiles, Results
<1>12. CASE deadline
  BY <1>12 DEF deadline
<1>13. CASE start_kvm
  BY <1>13, FileKinds DEF start_kvm
<1>14. CASE kvm_halts
  BY ZenonT(60), <1>14, FileKinds DEF kvm_halts
<1>15. CASE kvm_io
  BY Zenon, <1>15, FileKinds DEF kvm_io
<1>16. CASE kvm_fail_entry
  BY <1>16, Running DEF kvm_fail_entry
<1>17. CASE kvm_fails
  BY <1>17, Running, FileKinds DEF kvm_fails
<1>18. CASE mv_kvm
  <2>1. dir.files' = [dir.files EXCEPT ![test].kvm = post]
    BY <1>18 DEF mv_kvm
  <2>2. dir.files' \in [Tests -> Results]
    <3>1. [dir.files EXCEPT ![test].kvm = post] \in [Tests -> Results]
      BY Zenon, FileWritten
    <3> QED
      BY <2>1, <3>1
  <2> QED
    BY Zenon, <1>18, <2>2, FileKinds DEF mv_kvm
<1>19. CASE kvm_ended
  BY Zenon, <1>19, Running DEF kvm_ended, Scripts
<1>20. CASE compare
  <2>1. CASE test = Star
    <3>1. dir' = [dir EXCEPT !.files = [t \in Tests |-> [dir.files[t] EXCEPT !.diff = Absent]]]
      BY <1>20, <2>1 DEF compare
    <3>2. [t \in Tests |-> [dir.files[t] EXCEPT !.diff = Absent]] \in [Tests -> Results]
      BY DEF Results
    <3> QED
      BY Zenon, <1>20, <3>1, <3>2 DEF compare, Next_test
  <2>2. CASE test # Star
    <3> DEFINE f == dir.files[test]
               err == status(f.post, f.kvm)
               d == IF err = 1 THEN Absent ELSE report(f.post, f.kvm)
    <3>1. d \in {Absent, Empty, "report"}
      BY DEF report
    <3>2. /\ dir'.files = [dir.files EXCEPT ![test].diff = d]
          /\ dir'.match = IF err = 0 THEN Append(dir.match, test) ELSE dir.match
          /\ dir'.mismatch = IF err = 2 THEN Append(dir.mismatch, test) ELSE dir.mismatch
      BY <1>20, <2>2 DEF compare
    <3>3. dir' = [files |-> dir'.files, match |-> dir'.match, mismatch |-> dir'.mismatch]
      BY <1>20, <2>2 DEF compare
    <3> HIDE DEF d, err
    <3>4. dir'.files \in [Tests -> Results]
      <4>1. dir.files \in [Tests -> Results]
        OBVIOUS
      <4> HIDE DEF TypeOK
      <4> QED
        BY Zenon, <3>1, <3>2, <4>1 DEF Results
    <3>5. test \in Tests
      BY <1>20, <2>2, Running DEF compare
    <3>6. dir'.match \in Seq(Tests) /\ dir'.mismatch \in Seq(Tests)
      <4>1. dir.match \in Seq(Tests) /\ dir.mismatch \in Seq(Tests)
        BY <1>20 DEF compare
      <4> HIDE DEF TypeOK
      <4> QED
        BY <3>2, <3>5, <4>1
    <3> QED
      BY Zenon, <1>20, <3>3, <3>4, <3>6 DEF compare, Next_test
  <2> QED
    BY <2>1, <2>2
<1>21. CASE sweep
  BY ZenonT(60), <1>21, FileKinds DEF sweep, NoFiles, Results
<1>22. CASE simpleTest
  BY <1>22 DEF simpleTest, Glob, Verdict
<1>23. CASE Done \/ UNCHANGED vars
  BY <1>23 DEF Done, vars
<1> QED
  BY ZenonT(60), <1>1, <1>2, <1>3, <1>4, <1>5, <1>6, <1>7, <1>8, <1>9, <1>10, <1>11, <1>12, <1>13,
     <1>14, <1>15, <1>16, <1>17, <1>18, <1>19, <1>20, <1>21, <1>22, <1>23 DEF Next

-----------------------------------------------------------------------------
(* The phases and their scripts. *)

\* What an action requires of the phase, by the place of its script.
LEMMA PhaseOfScript ==
    ASSUME TypeOK, Scripts
    PROVE  /\ pc \in {"qemu", "mv_pre", "mv_post"} => phase = "qemu"
           /\ pc \in {"kvm", "mv_kvm", "diff"} => phase = "kvm"
           /\ pc # "idle" => phase \in {"qemu", "kvm"}
BY DEF TypeOK, Scripts

LEMMA ScriptsStep ==
    ASSUME TypeOK, Scripts, [Next]_vars
    PROVE  Scripts'
<1> USE DEF Scripts
<1>1. CASE start_qemu \/ save_pre \/ save_post \/ qemu_dies \/ mv_pre \/ mv_post
  BY <1>1, PhaseOfScript DEF start_qemu, save_pre, save_post, qemu_dies, mv_pre, mv_post
<1>2. CASE gen_floppy_fails \/ child_ended \/ child_killed
  BY <1>2 DEF gen_floppy_fails, child_ended, child_killed, Next_test
<1>3. CASE publish \/ sweep \/ simpleTest
  BY <1>3 DEF publish, sweep, simpleTest
<1>4. CASE script_exits \/ deadline
  BY <1>4, PhaseOfScript DEF script_exits, deadline
<1>5. CASE start_kvm \/ kvm_halts \/ kvm_io \/ kvm_fail_entry \/ kvm_fails \/ mv_kvm
  BY <1>5, PhaseOfScript DEF start_kvm, kvm_halts, kvm_io, kvm_fail_entry, kvm_fails, mv_kvm
<1>6. CASE kvm_ended \/ compare
  BY <1>6 DEF kvm_ended, compare, Next_test
<1>7. CASE Done \/ UNCHANGED vars
  BY <1>7 DEF Done, vars
<1> QED
  BY <1>1, <1>2, <1>3, <1>4, <1>5, <1>6, <1>7 DEF Next

\* The steps, by what they do to the files and the lists.
Qemu_step ==
    start_qemu \/ gen_floppy_fails \/ save_pre \/ save_post \/ qemu_dies \/ mv_pre
    \/ mv_post \/ (script_exits /\ phase = "qemu") \/ child_ended \/ child_killed
    \/ (deadline /\ phase = "qemu")
Kvm_step ==
    start_kvm \/ kvm_halts \/ kvm_io \/ kvm_fail_entry \/ kvm_fails \/ mv_kvm
    \/ (script_exits /\ phase = "kvm") \/ kvm_ended \/ (deadline /\ phase = "kvm")

LEMMA Steps ==
    ASSUME TypeOK, Scripts, [Next]_vars
    PROVE  \/ Qemu_step /\ phase = "qemu" /\ phase' = "qemu"
           \/ publish
           \/ Kvm_step /\ phase = "kvm" /\ phase' = "kvm"
           \/ compare \/ sweep \/ simpleTest
           \/ UNCHANGED vars
<1>1. Qemu_step => phase = "qemu" /\ phase' = "qemu"
  BY PhaseOfScript DEF Qemu_step, start_qemu, gen_floppy_fails, save_pre, save_post, qemu_dies,
     mv_pre, mv_post, script_exits, child_ended, child_killed, deadline
<1>2. Kvm_step => phase = "kvm" /\ phase' = "kvm"
  BY PhaseOfScript DEF Kvm_step, start_kvm, kvm_halts, kvm_io, kvm_fail_entry, kvm_fails,
     mv_kvm, script_exits, kvm_ended, deadline
<1>3. script_exits \/ deadline => phase \in {"qemu", "kvm"}
  BY Zenon, PhaseOfScript DEF script_exits, deadline
<1> QED
  BY <1>1, <1>2, <1>3 DEF Next, Qemu_step, Kvm_step, Done

-----------------------------------------------------------------------------
(* QEMU's files. *)

QemuInv == PostComplete /\ QemuFiles

LEMMA QemuStep ==
    ASSUME TypeOK, Scripts, QemuInv, Qemu_step, phase = "qemu", phase' = "qemu"
    PROVE  QemuInv'
<1> USE DEF QemuInv, PostComplete, QemuFiles, Awaited
<1>1. CASE start_qemu
  BY <1>1, SameTest DEF start_qemu
<1>2. CASE gen_floppy_fails
  BY <1>2, Running DEF gen_floppy_fails, Next_test
<1>3. CASE save_pre
  BY <1>3, SameTest DEF save_pre
<1>4. CASE save_post
  BY <1>4, SameTest, Running, FileKinds DEF save_post, TypeOK
<1>5. CASE qemu_dies
  BY <1>5, SameTest DEF qemu_dies
<1>6. CASE mv_pre
  BY <1>6, SameTest, Running DEF mv_pre, TypeOK, Results
<1>7. CASE mv_post
  BY <1>7, SameTest, Running, FileKinds DEF mv_post, TypeOK, Results
<1>8. CASE script_exits
  BY <1>8, SameTest DEF script_exits
<1>9. CASE child_ended
  BY <1>9, Running DEF child_ended, Next_test
<1>10. CASE child_killed
  BY <1>10, Running DEF child_killed, Next_test
<1>11. CASE deadline
  BY <1>11, SameTest DEF deadline
<1> QED
  BY <1>1, <1>2, <1>3, <1>4, <1>5, <1>6, <1>7, <1>8, <1>9, <1>10, <1>11 DEF Qemu_step

\* KVM never touches what QEMU came to, and the other steps leave OUTDIR empty.
LEMMA QemuKept ==
    ASSUME TypeOK, Scripts, QemuInv, [Next]_vars,
           ~ (Qemu_step /\ phase = "qemu" /\ phase' = "qemu")
    PROVE  QemuInv'
<1> USE DEF QemuInv, PostComplete
<1>1. CASE publish
  BY <1>1 DEF publish, NoFiles, QemuFiles
<1>2. CASE Kvm_step /\ phase = "kvm" /\ phase' = "kvm"
  <2>1. outdir' = outdir /\ \A t \in Tests : final'[t].qemu = final[t].qemu
    BY SMTT(60), <1>2 DEF Kvm_step, start_kvm, kvm_halts, kvm_io, kvm_fail_entry, kvm_fails, mv_kvm,
       script_exits, kvm_ended, deadline, TypeOK
  <2> QED
    BY <1>2, <2>1 DEF QemuFiles
<1>3. CASE compare \/ sweep \/ simpleTest
  BY <1>3 DEF compare, sweep, simpleTest, QemuFiles
<1>4. CASE UNCHANGED vars
  BY Zenon, <1>4, SameTest DEF vars, QemuFiles, Awaited
<1> QED
  BY <1>1, <1>2, <1>3, <1>4, Steps

-----------------------------------------------------------------------------
(* KVM's files. *)

LEMMA KvmStep ==
    ASSUME TypeOK, Scripts, KvmFiles, Kvm_step, phase = "kvm", phase' = "kvm"
    PROVE  KvmFiles'
<1> USE DEF KvmFiles, Pending
<1>1. CASE start_kvm
  BY <1>1, SameTest, Running DEF start_kvm, Listed
<1>2. CASE kvm_halts
  BY <1>2, SameTest, Running, FileKinds DEF kvm_halts, TypeOK, Ends, Listed
<1>3. CASE kvm_io
  BY <1>3, SameTest, Running, FileKinds DEF kvm_io, TypeOK, Ends, Listed
<1>4. CASE kvm_fail_entry
  BY <1>4, SameTest DEF kvm_fail_entry, Listed
<1>5. CASE kvm_fails
  BY <1>5, SameTest DEF kvm_fails, Listed
<1>6. CASE mv_kvm
  BY <1>6, SameTest, Running, FileKinds DEF mv_kvm, TypeOK, Results, Ends, Listed
<1>7. CASE script_exits
  BY <1>7, SameTest DEF script_exits, Listed
<1>8. CASE kvm_ended
  BY <1>8, SameTest DEF kvm_ended, Listed
<1>9. CASE deadline
  BY <1>9, SameTest DEF deadline, Listed
<1> QED
  BY <1>1, <1>2, <1>3, <1>4, <1>5, <1>6, <1>7, <1>8, <1>9 DEF Kvm_step

\* A running script touches neither the lists nor the reports, nor the final
\* states of the tests already listed.
LEMMA ListsKept ==
    ASSUME TypeOK, Scripts, Lists, Kvm_step, phase = "kvm", phase' = "kvm"
    PROVE  Lists'
<1>1. /\ todo' = todo /\ cut \subseteq cut'
      /\ dir'.match = dir.match /\ dir'.mismatch = dir.mismatch
      /\ \A t \in Tests : dir'.files[t].diff = dir.files[t].diff
      /\ \A t \in Tests \ todo : final'[t] = final[t]
  <2>1. test \in todo
    BY Running DEF Kvm_step, start_kvm, kvm_halts, kvm_io, kvm_fail_entry, kvm_fails, mv_kvm,
       script_exits, kvm_ended, deadline, Scripts
  <2>2. CASE kvm_halts \/ kvm_io
    BY <2>1, <2>2 DEF kvm_halts, kvm_io, TypeOK
  <2>3. CASE mv_kvm
    BY <2>3 DEF mv_kvm, TypeOK, Results
  <2>4. CASE start_kvm \/ kvm_fail_entry \/ kvm_fails \/ script_exits \/ kvm_ended \/ deadline
    BY <2>4 DEF start_kvm, kvm_fail_entry, kvm_fails, script_exits, kvm_ended, deadline
  <2> QED
    BY <2>2, <2>3, <2>4 DEF Kvm_step
<1>2. Listed' = Listed /\ Listed \cap todo = {} /\ Listed \subseteq Tests
  BY <1>1 DEF Listed, Logged, Lists, TypeOK
<1>3. Compared' = Compared /\ (\A t \in Listed : Agree(t)' <=> Agree(t))
  BY <1>1, <1>2 DEF Compared, Listed, Logged, Agree
<1>4. LogsSound'
  BY <1>1, <1>2, <1>3 DEF Lists, LogsSound, Logged, Listed
<1> QED
  BY <1>1, <1>2, <1>3, <1>4 DEF Lists, Logged

\* A line appended to a list.
LEMMA LoggedAppend ==
    ASSUME NEW s \in Seq(Tests), NEW t \in Tests
    PROVE  Logged(Append(s, t)) = Logged(s) \cup {t}
<1>1. /\ DOMAIN Append(s, t) = 1..(Len(s) + 1) /\ DOMAIN s = 1..Len(s) /\ Len(s) \in Nat
      /\ \A i \in 1..Len(s) : Append(s, t)[i] = s[i]
      /\ Append(s, t)[Len(s) + 1] = t
  OBVIOUS
<1>2. 1..(Len(s) + 1) = 1..Len(s) \cup {Len(s) + 1}
  BY <1>1
<1> QED
  BY <1>1, <1>2 DEF Logged

LEMMA AppendOnce ==
    ASSUME NEW s \in Seq(Tests), NEW t \in Tests \ Logged(s),
           \A i, j \in DOMAIN s : s[i] = s[j] => i = j
    PROVE  \A i, j \in DOMAIN Append(s, t) : Append(s, t)[i] = Append(s, t)[j] => i = j
<1>1. /\ DOMAIN Append(s, t) = 1..(Len(s) + 1) /\ DOMAIN s = 1..Len(s) /\ Len(s) \in Nat
      /\ \A i \in 1..Len(s) : Append(s, t)[i] = s[i] /\ s[i] # t
      /\ Append(s, t)[Len(s) + 1] = t
  BY DEF Logged
<1> QED
  BY <1>1

\* The exit status and report of diff_cpustate.py on the files of a test.
LEMMA StatusOf ==
    ASSUME NEW a, NEW b, a = Absent \/ a \in Dumps, b \in {Absent, Empty} \cup Ends
    PROVE  /\ status(a, b) \in {0, 1, 2}
           /\ status(a, b) = 1 <=> a = Absent \/ b \in {Absent, Empty}
           /\ status(a, b) = 0 <=>
                 a \in Dumps /\ \/ b = Dummy("io")
                                \/ b \in Dumps /\ a.state.kept = b.state.kept
           /\ status(a, b) # 1 => report(a, b) = IF b = Dummy("io") THEN Empty ELSE "report"
<1>1. CASE a = Absent \/ b \in {Absent, Empty}
  BY <1>1, FileKinds DEF status, Ends
<1>2. CASE a \in Dumps /\ b = Dummy("io")
  BY <1>2, FileKinds DEF status, report
<1>3. CASE a \in Dumps /\ b \in Dumps
  BY <1>3, FileKinds DEF status, normalize, report
<1> QED
  BY <1>1, <1>2, <1>3 DEF Ends

\* Comparing the pattern changes nothing that matters: no test is listed.
LEMMA CompareStar ==
    ASSUME TypeOK, Scripts, KvmFiles, Lists, compare, test = Star
    PROVE  KvmFiles' /\ Lists'
<1>1. /\ phase = "kvm" /\ phase' = "kvm" /\ todo' = todo \ {Star} /\ cut' = cut /\ final' = final
      /\ dir'.match = dir.match /\ dir'.mismatch = dir.mismatch /\ pc' = "idle"
      /\ dir'.files = [t \in Tests |-> [dir.files[t] EXCEPT !.diff = Absent]]
  <2>1. /\ dir' = [dir EXCEPT !.files = [t \in Tests |-> [dir.files[t] EXCEPT !.diff = Absent]]]
        /\ phase = "kvm" /\ phase' = "kvm" /\ todo' = todo \ {Star} /\ cut' = cut
        /\ final' = final /\ pc' = "idle"
    BY DEF compare, Next_test
  <2>2. dir = [files |-> dir.files, match |-> dir.match, mismatch |-> dir.mismatch]
    BY DEF TypeOK
  <2> QED
    BY <2>1, <2>2
<1>2. todo = {Star} /\ Listed = {} /\ test \in todo
  <2>1. test \in todo
    BY Running DEF compare
  <2> QED
    BY <1>1, <2>1 DEF KvmFiles
<1>3. todo' = {} /\ Listed' = {} /\ Compared' = {}
  <2>1. Logged(dir.match) = {} /\ Logged(dir.mismatch) = {}
    BY <1>2 DEF Listed
  <2>2. Logged(dir.match)' = {} /\ Logged(dir.mismatch)' = {}
    BY <1>1, <2>1
  <2> QED
    BY <1>1, <1>2, <2>2 DEF Listed, Compared
<1>4. \A t \in Tests : /\ dir'.files[t].post = dir.files[t].post
                       /\ dir'.files[t].kvm = dir.files[t].kvm
                       /\ dir'.files[t].diff = Absent
  <2>1. dir.files \in [Tests -> Results]
    BY DEF TypeOK
  <2> QED
    BY <1>1, <2>1 DEF Results
<1>5. KvmFiles'
  BY <1>1, <1>3, <1>4 DEF KvmFiles, Pending
<1>6. LogsSound'
  BY <1>3 DEF LogsSound, Listed
<1>7. Lists'
  <2>1. \A t \in Tests : t \notin todo
    BY <1>2, CampaignAssumption
  <2> QED
    BY Zenon, <1>1, <1>2, <1>3, <1>4, <1>6, <2>1 DEF Lists, Logged, Listed
<1> QED
  BY <1>5, <1>7

\* Comparing a test lists it as its final states demand, and writes its report.
LEMMA CompareTest ==
    ASSUME TypeOK, Scripts, KvmFiles, Lists, compare, test # Star
    PROVE  KvmFiles' /\ Lists'
<1> DEFINE f == dir.files[test]
           err == status(f.post, f.kvm)
           d == IF err = 1 THEN Absent ELSE report(f.post, f.kvm)
<1>1. /\ phase = "kvm" /\ phase' = "kvm" /\ todo' = todo \ {test} /\ cut' = cut
      /\ final' = final /\ pc = "diff" /\ pc' = "idle"
      /\ dir'.files = [dir.files EXCEPT ![test].diff = d]
      /\ dir'.match = IF err = 0 THEN Append(dir.match, test) ELSE dir.match
      /\ dir'.mismatch = IF err = 2 THEN Append(dir.mismatch, test) ELSE dir.mismatch
  BY DEF compare, Next_test
<1>2. /\ test \in Tests /\ test \in todo /\ Star \notin todo
      /\ test \notin cut => f.post # Absent /\ f.kvm \in Ends
      /\ f.post = Absent \/ (f.post \in Dumps /\ f.post = final[test].qemu)
      /\ f.kvm \in {Absent, Empty} \/ (f.kvm \in Ends /\ f.kvm = final[test].kvm)
  <2>1. test \in Tests /\ test \in todo /\ Star \notin todo
    BY <1>1, Running
  <2> QED
    BY <1>1, <2>1 DEF KvmFiles, Pending
<1>3. /\ err \in {0, 1, 2}
      /\ err = 1 <=> f.post = Absent \/ f.kvm \in {Absent, Empty}
      /\ err = 0 => final[test].qemu \in Dumps /\ (final[test].kvm = Dummy("io") \/ Agree(test))
      /\ err = 2 => final[test].qemu \in Dumps /\ final[test].kvm \in Dumps /\ ~Agree(test)
      /\ d = IF err = 1 THEN Absent ELSE IF final[test].kvm = Dummy("io") THEN Empty ELSE "report"
  BY <1>2, StatusOf, FileKinds DEF Agree, Ends
<1> HIDE DEF d, err
<1>4. dir.match \in Seq(Tests) /\ dir.mismatch \in Seq(Tests) /\ dir.files \in [Tests -> Results]
  BY <1>1 DEF TypeOK
<1>5. /\ Logged(dir.match)' = IF err = 0 THEN Logged(dir.match) \cup {test} ELSE Logged(dir.match)
      /\ Logged(dir.mismatch)' = IF err = 2 THEN Logged(dir.mismatch) \cup {test}
                                            ELSE Logged(dir.mismatch)
  BY ZenonT(60), <1>1, <1>2, <1>4, LoggedAppend
<1>6. test \notin Listed
  BY <1>1, <1>2 DEF Lists
<1>7. KvmFiles'
  BY <1>1, <1>2, <1>4 DEF KvmFiles, Pending, Results
<1>8. LogsSound'
  BY <1>1, <1>3, <1>5 DEF Lists, LogsSound, Agree
<1>9. /\ Listed' = IF err = 1 THEN Listed ELSE Listed \cup {test}
      /\ Compared' = IF err # 1 /\ final[test].kvm # Dummy("io") THEN Compared \cup {test}
                     ELSE Compared
  BY <1>1, <1>3, <1>5, FileKinds DEF Listed, Compared
<1>10. \A t \in Tests :
          dir'.files[t].diff = IF t \in Compared' THEN "report"
                               ELSE IF t \in Listed' THEN Empty ELSE Absent
  BY <1>1, <1>2, <1>3, <1>4, <1>6, <1>9 DEF Lists, Listed, Compared, Results
<1>11. /\ \A i, j \in DOMAIN dir'.match : dir'.match[i] = dir'.match[j] => i = j
       /\ \A i, j \in DOMAIN dir'.mismatch : dir'.mismatch[i] = dir'.mismatch[j] => i = j
  <2>1. /\ \A i, j \in DOMAIN dir.match : dir.match[i] = dir.match[j] => i = j
        /\ \A i, j \in DOMAIN dir.mismatch : dir.mismatch[i] = dir.mismatch[j] => i = j
        /\ test \in Tests \ Logged(dir.match) /\ test \in Tests \ Logged(dir.mismatch)
    BY <1>1, <1>2, <1>6 DEF Lists, Listed
  <2>2. CASE err = 0
    <3>1. dir'.match = Append(dir.match, test) /\ dir'.mismatch = dir.mismatch
      BY <1>1, <2>2
    <3>2. \A i, j \in DOMAIN Append(dir.match, test) :
             Append(dir.match, test)[i] = Append(dir.match, test)[j] => i = j
      BY <1>4, <2>1, AppendOnce
    <3> QED
      BY <2>1, <3>1, <3>2
  <2>3. CASE err = 2
    <3>1. dir'.mismatch = Append(dir.mismatch, test) /\ dir'.match = dir.match
      BY <1>1, <2>3
    <3>2. \A i, j \in DOMAIN Append(dir.mismatch, test) :
             Append(dir.mismatch, test)[i] = Append(dir.mismatch, test)[j] => i = j
      BY ZenonT(60), <1>4, <2>1, AppendOnce
    <3> QED
      BY <2>1, <3>1, <3>2
  <2> QED
    BY <1>1, <2>1, <2>2, <2>3
<1>12. /\ Listed' \cap todo' = {}
       /\ \A t \in Tests \ (todo' \cup cut') : t \in Listed'
       /\ Logged(dir.match)' \cap Logged(dir.mismatch)' = {}
  BY <1>1, <1>2, <1>3, <1>5, <1>6, <1>9, FileKinds DEF Lists, Listed, Ends
<1> QED
  BY Zenon, <1>1, <1>7, <1>8, <1>10, <1>11, <1>12 DEF Lists

\* The published files are QEMU's final states, and the lists are empty: the
\* tests left out of the loop have no .pre file, and were cut.
LEMMA PublishStep ==
    ASSUME TypeOK, Scripts, QemuInv, publish
    PROVE  KvmFiles' /\ Lists'
<1>1. /\ phase = "qemu" /\ phase' = "kvm" /\ todo = {} /\ pc = "idle" /\ pc' = "idle"
      /\ final' = final /\ cut' = cut
      /\ dir'.files = outdir /\ dir'.match = <<>> /\ dir'.mismatch = <<>>
      /\ todo' = Glob({t \in Tests : outdir[t].pre # Absent})
  BY DEF publish, Scripts
<1>2. Logged(dir.match)' = {} /\ Logged(dir.mismatch)' = {}
  <2>1. Logged(<<>>) = {}
    BY DEF Logged
  <2> QED
    BY <1>1, <2>1
<1>3. Listed' = {} /\ Compared' = {}
  BY <1>2 DEF Listed, Compared
<1>4. \A t \in Tests : /\ t \in todo' <=> outdir[t].pre # Absent
                       /\ t \notin cut => outdir[t].pre # Absent /\ outdir[t].post # Absent
                       /\ outdir[t].kvm = Absent /\ outdir[t].diff = Absent
                       /\ outdir[t].post # Absent
                             => outdir[t].post \in Dumps /\ outdir[t].post = final[t].qemu
  BY <1>1, CampaignAssumption DEF QemuInv, PostComplete, QemuFiles, Awaited, Glob
<1>5. Star \in todo' => todo' = {Star}
  BY <1>1, CampaignAssumption DEF Glob
<1>6. KvmFiles'
  BY <1>1, <1>3, <1>4, <1>5 DEF KvmFiles, Pending
<1>7. LogsSound'
  BY <1>2 DEF LogsSound
<1>8. Lists'
  BY <1>1, <1>2, <1>3, <1>4, <1>7 DEF Lists
<1> QED
  BY <1>6, <1>8

\* Removing the empty reports leaves those of the compared tests.
LEMMA SweepStep ==
    ASSUME TypeOK, Scripts, Lists, sweep
    PROVE  Lists'
<1>1. /\ phase = "kvm" /\ phase' = "report" /\ todo' = todo /\ final' = final /\ cut' = cut
      /\ dir' = [dir EXCEPT !.files =
                    [t \in Tests |-> [NoFiles[t] EXCEPT !.diff =
                        IF dir.files[t].diff = Empty THEN Absent ELSE dir.files[t].diff]]]
  BY DEF sweep
<1>2. dir'.match = dir.match /\ dir'.mismatch = dir.mismatch
  BY <1>1 DEF TypeOK
<1>3. \A t \in Tests : dir'.files[t].diff =
                          IF dir.files[t].diff = Empty THEN Absent ELSE dir.files[t].diff
  BY <1>1 DEF TypeOK, NoFiles
<1>4. Listed' = Listed /\ Compared' = Compared /\ (LogsSound => LogsSound')
  BY <1>1, <1>2 DEF Listed, Compared, LogsSound, Agree
<1> QED
  BY <1>1, <1>2, <1>3, <1>4, FileKinds DEF Lists

\* Every step keeps the lists and what they rest on.
LEMMA ListsStep ==
    ASSUME TypeOK, Scripts, QemuInv, KvmFiles, Lists, [Next]_vars
    PROVE  KvmFiles' /\ Lists'
<1>1. CASE Qemu_step /\ phase = "qemu" /\ phase' = "qemu"
  BY <1>1 DEF KvmFiles, Lists
<1>2. CASE publish
  BY <1>2, PublishStep
<1>3. CASE Kvm_step /\ phase = "kvm" /\ phase' = "kvm"
  BY <1>3, KvmStep, ListsKept
<1>4. CASE compare
  BY <1>4, CompareStar, CompareTest
<1>5. CASE sweep
  <2>1. KvmFiles'
    BY SMTT(60), <1>5 DEF sweep, KvmFiles
  <2> QED
    BY <1>5, <2>1, SweepStep
<1>6. CASE simpleTest
  BY ZenonT(60), <1>6 DEF simpleTest, KvmFiles, Lists, LogsSound, Listed, Compared, Agree
<1>7. CASE UNCHANGED vars
  BY <1>7, SameTest DEF vars, KvmFiles, Pending, Lists, LogsSound, Listed, Compared, Agree
<1> QED
  BY Zenon, <1>1, <1>2, <1>3, <1>4, <1>5, <1>6, <1>7, Steps

-----------------------------------------------------------------------------
(* The outcome, and the invariant. *)

LEMMA OutcomeStep ==
    ASSUME TypeOK, Scripts, Lists, Outcome, [Next]_vars
    PROVE  Outcome'
<1>1. CASE simpleTest
  <2>1. /\ phase = "report" /\ phase' = "done" /\ dir' = dir /\ final' = final
        /\ list' = Glob({t \in Tests : dir.files[t].diff # Absent}) /\ verdict' = Verdict
    BY <1>1 DEF simpleTest
  <2>2. Compared \subseteq Tests
    BY <2>1 DEF Compared, Logged, TypeOK
  <2>3. {t \in Tests : dir.files[t].diff # Absent} = Compared
    BY <2>1, <2>2, FileKinds DEF Lists
  <2>4. Compared' = Compared /\ Verdict' = Verdict
    BY <2>1 DEF Compared, Verdict
  <2> QED
    BY ZenonT(60), <2>1, <2>3, <2>4 DEF Outcome
<1>2. CASE UNCHANGED vars
  BY <1>2 DEF vars, Outcome, Compared, Verdict
<1>3. CASE Qemu_step /\ phase = "qemu" /\ phase' = "qemu"
  <2>1. verdict' = verdict
    BY <1>3 DEF Qemu_step, start_qemu, gen_floppy_fails, save_pre, save_post, qemu_dies,
       mv_pre, mv_post, script_exits, child_ended, child_killed, deadline
  <2> QED
    BY <1>3, <2>1 DEF Outcome
<1>4. CASE Kvm_step /\ phase = "kvm" /\ phase' = "kvm"
  <2>1. verdict' = verdict
    BY <1>4 DEF Kvm_step, start_kvm, kvm_halts, kvm_io, kvm_fail_entry, kvm_fails,
       mv_kvm, script_exits, kvm_ended, deadline
  <2> QED
    BY <1>4, <2>1 DEF Outcome
<1>5. CASE publish \/ compare \/ sweep
  BY <1>5 DEF publish, compare, sweep, Outcome
<1> QED
  BY <1>1, <1>2, <1>3, <1>4, <1>5, Steps

LEMMA InvInit == Init => IInv
<1> SUFFICES ASSUME Init PROVE IInv
  OBVIOUS
<1>1. TypeOK
  BY TypeInit
<1>2. /\ phase = "qemu" /\ todo = Tests /\ pc = "idle" /\ expired = FALSE
      /\ outdir = NoFiles /\ verdict = "none"
  BY DEF Init
<1>3. Scripts
  BY <1>2, CampaignAssumption DEF Scripts
<1>4. PostComplete /\ QemuFiles
  BY <1>2 DEF PostComplete, QemuFiles, Awaited, NoFiles
<1>5. KvmFiles /\ Lists /\ Outcome
  BY <1>2 DEF KvmFiles, Lists, Outcome
<1> QED
  BY <1>1, <1>3, <1>4, <1>5 DEF IInv

LEMMA InvStep == IInv /\ [Next]_vars => IInv'
<1> SUFFICES ASSUME IInv, [Next]_vars PROVE IInv'
  OBVIOUS
<1> USE DEF IInv
<1>1. TypeOK' /\ Scripts'
  BY TypeStep, ScriptsStep
<1>2. QemuInv'
  <2>1. QemuInv
    BY DEF QemuInv
  <2>2. CASE Qemu_step /\ phase = "qemu" /\ phase' = "qemu"
    BY <2>1, <2>2, QemuStep
  <2>3. CASE ~ (Qemu_step /\ phase = "qemu" /\ phase' = "qemu")
    BY <2>1, <2>3, QemuKept
  <2> QED
    BY <2>2, <2>3
<1>3. KvmFiles' /\ Lists' /\ Outcome'
  BY ListsStep, OutcomeStep DEF QemuInv
<1> QED
  BY <1>1, <1>2, <1>3 DEF QemuInv

\* The campaign's invariant, for any tests, machine states and deadline.
LEMMA InvHolds == Spec => []IInv
BY InvInit, InvStep, PTL DEF Spec

\* Type correctness of the campaign.
THEOREM CampaignTyping == Spec => []TypeOK
<1>1. IInv => TypeOK
  BY DEF IInv
<1> QED
  BY <1>1, InvHolds, PTL

\* A published final state of QEMU is always a complete dump of the state QEMU
\* came to (emu/run-testcase:32-36).
THEOREM PublishedComplete == Spec => []PostComplete
<1>1. IInv => PostComplete
  BY DEF IInv
<1> QED
  BY <1>1, InvHolds, PTL

\* The lists match and mismatch always tell what the emulators did
\* (batchRunTestcase-kvm-offline:17-26).
THEOREM ListsTruthful == Spec => []LogsSound
<1>1. IInv => LogsSound
  BY DEF IInv, Lists, LogsSound
<1> QED
  BY <1>1, InvHolds, PTL

\* Two lists without a common or repeated test have together no more lines than
\* there are tests.
LEMMA LinesBound ==
    ASSUME NEW a \in Seq(Tests), NEW b \in Seq(Tests),
           \A i, j \in DOMAIN a : a[i] = a[j] => i = j,
           \A i, j \in DOMAIN b : b[i] = b[j] => i = j,
           Logged(a) \cap Logged(b) = {}
    PROVE  Len(a) + Len(b) <= Len(TestList)
<1> DEFINE n == Len(a) + Len(b)
           Line(k) == IF k <= Len(a) THEN a[k] ELSE b[k - Len(a)]
           Place(t) == CHOOSE i \in DOMAIN TestList : TestList[i] = t
           place == [k \in 1..n |-> Place(Line(k))]
<1>1. /\ Len(a) \in Nat /\ Len(b) \in Nat /\ Len(TestList) \in Nat /\ n \in Nat
      /\ DOMAIN a = 1..Len(a) /\ DOMAIN b = 1..Len(b) /\ DOMAIN TestList = 1..Len(TestList)
  BY CampaignAssumption
<1>2. \A t \in Tests : Place(t) \in 1..Len(TestList) /\ TestList[Place(t)] = t
  BY <1>1 DEF Tests
<1>3. \A k \in 1..n : Line(k) \in Tests
  BY <1>1
<1>4. \A k, l \in 1..n : Line(k) = Line(l) => k = l
  <2> SUFFICES ASSUME NEW k \in 1..n, NEW l \in 1..n, Line(k) = Line(l) PROVE k = l
    OBVIOUS
  <2>1. CASE k <= Len(a) /\ l <= Len(a)
    BY <1>1, <2>1
  <2>2. CASE ~(k <= Len(a)) /\ ~(l <= Len(a))
    <3>1. k - Len(a) \in 1..Len(b) /\ l - Len(a) \in 1..Len(b)
      BY <1>1, <2>2
    <3>2. k - Len(a) = l - Len(a)
      BY <1>1, <2>2, <3>1
    <3> QED
      BY <1>1, <3>2
  <2>3. CASE k <= Len(a) /\ ~(l <= Len(a))
    <3>1. k \in DOMAIN a /\ l - Len(a) \in DOMAIN b /\ a[k] = b[l - Len(a)]
      BY <1>1, <2>3
    <3> QED
      BY <3>1 DEF Logged
  <2>4. CASE ~(k <= Len(a)) /\ l <= Len(a)
    <3>1. l \in DOMAIN a /\ k - Len(a) \in DOMAIN b /\ a[l] = b[k - Len(a)]
      BY <1>1, <2>4
    <3> QED
      BY Zenon, <3>1 DEF Logged
  <2> QED
    BY <2>1, <2>2, <2>3, <2>4
<1>5. place \in Injection(1..n, 1..Len(TestList))
  <2> HIDE DEF Line, Place
  <2>1. place \in [1..n -> 1..Len(TestList)]
    BY <1>2, <1>3
  <2>2. \A k, l \in 1..n : place[k] = place[l] => k = l
    <3> SUFFICES ASSUME NEW k \in 1..n, NEW l \in 1..n, place[k] = place[l] PROVE k = l
      OBVIOUS
    <3>1. Place(Line(k)) = Place(Line(l))
      OBVIOUS
    <3>2. Line(k) = Line(l)
      BY Zenon, <1>2, <1>3, <3>1
    <3> QED
      BY <1>4, <3>2
  <2> HIDE DEF place
  <2> QED
    BY <2>1, <2>2 DEF Injection, IsInjective
<1>6. /\ Cardinality(1..n) = n /\ IsFiniteSet(1..Len(TestList))
      /\ Cardinality(1..Len(TestList)) = Len(TestList)
  <2>1. ASSUME NEW m \in Nat PROVE IsFiniteSet(1..m) /\ Cardinality(1..m) = m
    <3>1. IsFiniteSet(1..m) /\ Cardinality(1..m) = IF 1 > m THEN 0 ELSE m - 1 + 1
      BY FS_Interval
    <3> QED
      BY <3>1
  <2> HIDE DEF n
  <2> QED
    BY <1>1, <2>1
<1>7. Cardinality(1..n) <= Cardinality(1..Len(TestList))
  <2> HIDE DEF place, n
  <2> QED
    BY <1>5, <1>6, FS_Injection
<1> QED
  BY <1>6, <1>7

\* A test is listed once, in one of the lists, so the counts of simpleTest.sh
\* add up.
THEOREM ListedOnce == Spec => []LoggedOnce
<1>1. IInv => LoggedOnce
  <2> SUFFICES ASSUME IInv, phase # "qemu"
               PROVE  /\ Logged(dir.match) \cap Logged(dir.mismatch) = {}
                      /\ Len(dir.match) + Len(dir.mismatch) <= Len(TestList)
                      /\ \A log \in {dir.match, dir.mismatch} :
                            \A i, j \in DOMAIN log : log[i] = log[j] => i = j
    BY ZenonT(60) DEF LoggedOnce
  <2>1. /\ Logged(dir.match) \cap Logged(dir.mismatch) = {}
        /\ \A i, j \in DOMAIN dir.match : dir.match[i] = dir.match[j] => i = j
        /\ \A i, j \in DOMAIN dir.mismatch : dir.mismatch[i] = dir.mismatch[j] => i = j
    BY DEF IInv, Lists
  <2>2. dir.match \in Seq(Tests) /\ dir.mismatch \in Seq(Tests)
    BY DEF IInv, TypeOK
  <2>3. Len(dir.match) + Len(dir.mismatch) <= Len(TestList)
    BY ZenonT(60), <2>1, <2>2, LinesBound
  <2> QED
    BY Zenon, <2>1, <2>3
<1> QED
  BY <1>1, InvHolds, PTL

\* The inductive invariant implies that no test is missing from the lists.
LEMMA AllListed == IInv => EveryTestListed
BY Zenon DEF IInv, TypeOK, Scripts, Lists, EveryTestListed, Listed

\* When the loops are over, a test that neither failed nor met its deadline is
\* listed.
THEOREM NoTestLost == Spec => []EveryTestListed
BY AllListed, InvHolds, PTL

\* The tests listed for aggregation are exactly those whose final states were
\* compared (simpleTest.sh:87-89).
THEOREM AggregationExact == Spec => []ListExact
<1>1. IInv => ListExact
  BY DEF IInv, Outcome, ListExact, Compared, Glob
<1> QED
  BY <1>1, InvHolds, PTL

\* "matches" is printed only if no test that ran to its end on both emulators,
\* within its deadlines, came to states that differ.
THEOREM MatchesTruthful == Spec => []VerdictRight
<1>1. IInv => VerdictRight
  <2> SUFFICES ASSUME IInv, verdict = "matches"
               PROVE  /\ \E t \in Tests : Agree(t) \/ final[t].kvm = Dummy("io")
                      /\ \A t \in Tests \ cut : final[t].kvm \in Dumps => Agree(t)
    BY DEF VerdictRight
  <2>1. phase = "done" /\ verdict = Verdict
    BY DEF IInv, Outcome
  <2>2. dir.mismatch = <<>> /\ dir.match # <<>>
    BY <2>1 DEF Verdict
  <2>3. LogsSound /\ EveryTestListed /\ dir.match \in Seq(Tests)
    BY Zenon, <2>1, AllListed DEF IInv, Lists, TypeOK
  <2>4. dir.match[1] \in Tests /\ dir.match[1] \in Logged(dir.match)
    BY <2>2, <2>3 DEF Logged
  <2>5. Agree(dir.match[1]) \/ final[dir.match[1]].kvm = Dummy("io")
    BY <2>1, <2>3, <2>4 DEF LogsSound
  <2>6. Logged(dir.mismatch) = {}
    BY <2>2 DEF Logged
  <2>7. ASSUME NEW t \in Tests \ cut, final[t].kvm \in Dumps PROVE Agree(t)
    <3>1. t \in Logged(dir.match)
      BY Zenon, <2>1, <2>3, <2>6 DEF EveryTestListed
    <3> QED
      BY <2>1, <2>3, <2>7, <3>1, FileKinds DEF LogsSound
  <2> QED
    BY <2>4, <2>5, <2>7
<1> QED
  BY <1>1, InvHolds, PTL

-----------------------------------------------------------------------------
(* The refinement of Pipeline. *)

\* An emulator comes to a final state of a test at most once, and KVM runs only
\* tests of which QEMU has come to one.
RunsOnce ==
    /\ phase = "qemu" => \A t \in Tests :
          /\ final[t].kvm = Absent
          /\ t \in todo /\ (t = test => pc \in {"idle", "qemu"}) => final[t].qemu = Absent
          /\ outdir[t].pre # Absent => final[t].qemu \in Dumps
    /\ phase = "kvm" => \A t \in todo \cap Tests :
          /\ final[t].qemu \in Dumps
          /\ (t = test => pc \in {"idle", "kvm"}) => final[t].kvm = Absent

LEMMA RunsOnceStep ==
    ASSUME IInv, RunsOnce, [Next]_vars
    PROVE  RunsOnce'
<1> USE DEF RunsOnce
<1>0. TypeOK /\ Scripts /\ QemuFiles
  BY Zenon DEF IInv
<1>1. CASE Qemu_step /\ phase = "qemu" /\ phase' = "qemu"
  <2>1. CASE start_qemu
    BY <1>1, <2>1, SameTest DEF start_qemu
  <2>2. CASE gen_floppy_fails
    BY <1>0, <1>1, <2>2, Running DEF gen_floppy_fails, Next_test
  <2>3. CASE save_post
    BY <1>0, <1>1, <2>3, SameTest, Running, FileKinds DEF save_post, TypeOK
  <2>4. CASE mv_pre
    BY <1>0, <1>1, <2>4, SameTest, Running DEF mv_pre, TypeOK, Results, QemuFiles
  <2>5. CASE mv_post
    BY SMTT(60), <1>0, <1>1, <2>5, SameTest, Running DEF mv_post, TypeOK, Results
  <2>6. CASE child_ended
    BY <1>0, <1>1, <2>6, Running DEF child_ended, Next_test
  <2>7. CASE child_killed
    BY Zenon, <1>0, <1>1, <2>7, Running DEF child_killed, Next_test
  <2>8. CASE save_pre \/ qemu_dies \/ script_exits \/ deadline
    BY <1>1, <2>8, SameTest DEF save_pre, qemu_dies, script_exits, deadline
  <2> QED
    BY Zenon, <1>1, <2>1, <2>2, <2>3, <2>4, <2>5, <2>6, <2>7, <2>8 DEF Qemu_step
<1>2. CASE publish
  BY <1>2, CampaignAssumption DEF publish, Glob
<1>3. CASE Kvm_step /\ phase = "kvm" /\ phase' = "kvm"
  <2>1. CASE start_kvm
    BY <1>3, <2>1, SameTest DEF start_kvm
  <2>2. CASE kvm_halts \/ kvm_io
    BY SMTT(60), <1>0, <1>3, <2>2, SameTest, Running DEF kvm_halts, kvm_io, TypeOK
  <2>3. CASE kvm_fail_entry \/ kvm_fails \/ mv_kvm \/ script_exits \/ kvm_ended \/ deadline
    BY <1>3, <2>3, SameTest DEF kvm_fail_entry, kvm_fails, mv_kvm, script_exits, kvm_ended, deadline
  <2> QED
    BY Zenon, <1>3, <2>1, <2>2, <2>3 DEF Kvm_step
<1>4. CASE compare
  BY <1>0, <1>4, Running DEF compare, Next_test
<1>5. CASE sweep \/ simpleTest
  BY <1>5 DEF sweep, simpleTest
<1>6. CASE UNCHANGED vars
  BY <1>6, SameTest DEF vars
<1> QED
  BY <1>0, <1>1, <1>2, <1>3, <1>4, <1>5, <1>6, Steps

LEMMA RunsOnceHolds == Spec => []RunsOnce
<1>1. Init => RunsOnce
  BY FileKinds DEF Init, RunsOnce, NoFiles
<1>2. IInv /\ RunsOnce /\ [Next]_vars => RunsOnce'
  BY RunsOnceStep
<1> QED
  BY <1>1, <1>2, InvHolds, PTL DEF Spec

\* Steps that change neither the lists nor what is left to do keep the results.
LEMMA SameResult ==
    ASSUME \/ phase = "qemu" /\ phase' = "qemu"
           \/ /\ phase # "qemu" /\ phase' # "qemu" /\ todo' = todo
              /\ dir'.match = dir.match /\ dir'.mismatch = dir.mismatch
    PROVE  Result' = Result
BY DEF Result, Logged

\* QEMU's loop.
LEMMA PipeQemu ==
    ASSUME IInv, RunsOnce, Qemu_step, phase = "qemu", phase' = "qemu"
    PROVE  [Pipe!Next]_(Pipe!vars)
<1>0. TypeOK /\ Scripts
  BY DEF IInv
<1>1. Result' = Result /\ Pipe!Pending = Tests
  BY SameResult DEF Result, Pipe!Pending
<1>2. CASE save_post
  <2>1. test \in Tests /\ test \in todo /\ pc = "qemu"
    BY <1>0, <1>2, Running DEF save_post
  <2>2. final[test] = [qemu |-> Absent, kvm |-> Absent]
    BY <1>0, <2>1 DEF RunsOnce, TypeOK
  <2>3. \E f \in Dumps : final' = [final EXCEPT ![test].qemu = f]
    BY Zenon, <1>2, FileKinds DEF save_post
  <2>4. Pipe!QemuEnds(test)
    BY ZenonT(60), <1>1, <1>2, <2>2, <2>3 DEF save_post, Pipe!QemuEnds
  <2> QED
    BY <1>1, <2>1, <2>4 DEF Pipe!Next
<1>3. CASE gen_floppy_fails \/ qemu_dies \/ child_killed
  <2>1. test \in Tests
    BY <1>0, <1>3, Running DEF gen_floppy_fails, qemu_dies, child_killed, Scripts
  <2>2. /\ cut' \ {Star} = (cut \ {Star}) \cup {test}
        /\ final' = final /\ list' = list /\ verdict' = verdict
    BY <1>3, <2>1, CampaignAssumption DEF gen_floppy_fails, qemu_dies, child_killed
  <2>3. Pipe!Fail(test)
    BY <1>1, <2>2 DEF Pipe!Fail
  <2> QED
    BY <1>1, <2>1, <2>3 DEF Pipe!Next
<1>4. CASE start_qemu \/ save_pre \/ mv_pre \/ mv_post \/ script_exits \/ child_ended \/ deadline
  <2>1. final' = final /\ cut' = cut /\ list' = list /\ verdict' = verdict
    BY <1>4 DEF start_qemu, save_pre, mv_pre, mv_post, script_exits, child_ended, deadline
  <2> QED
    BY <1>1, <2>1 DEF Pipe!vars
<1> QED
  BY <1>2, <1>3, <1>4 DEF Qemu_step

\* KVM's loop, but for the comparison.
LEMMA PipeKvm ==
    ASSUME IInv, RunsOnce, Kvm_step, phase = "kvm", phase' = "kvm"
    PROVE  [Pipe!Next]_(Pipe!vars)
<1>0. TypeOK /\ Scripts /\ KvmFiles
  BY DEF IInv
<1>1. Result' = Result
  <2>1. todo' = todo /\ dir'.match = dir.match /\ dir'.mismatch = dir.mismatch
    BY <1>0 DEF Kvm_step, start_kvm, kvm_halts, kvm_io, kvm_fail_entry, kvm_fails, mv_kvm,
       script_exits, kvm_ended, deadline, TypeOK
  <2> QED
    BY <2>1, SameResult
<1>2. pc = "kvm" => test \in Tests /\ test \in todo
  BY <1>0, Running DEF KvmFiles
<1>3. \A t \in Tests \cap todo : t \in Pipe!Pending
  BY DEF Result, Pipe!Pending
<1>4. CASE kvm_halts \/ kvm_io
  <2>1. test \in Tests /\ test \in todo /\ final[test].qemu \in Dumps /\ final[test].kvm = Absent
    BY <1>2, <1>4 DEF kvm_halts, kvm_io, RunsOnce
  <2>2. \E f \in Dumps \cup {Dummy("io")} : final' = [final EXCEPT ![test].kvm = f]
    BY <1>4, FileKinds DEF kvm_halts, kvm_io
  <2>3. cut' = cut /\ list' = list /\ verdict' = verdict
    BY <1>4 DEF kvm_halts, kvm_io
  <2>4. Pipe!KvmEnds(test)
    BY ZenonT(60), <1>1, <2>1, <2>2, <2>3 DEF Pipe!KvmEnds
  <2> QED
    BY <1>3, <2>1, <2>4 DEF Pipe!Next
<1>5. CASE kvm_fail_entry \/ kvm_fails \/ (kvm_ended /\ expired)
  <2>1. /\ cut' = cut \cup {test} /\ test \in todo /\ test \in Tests \cup {Star}
        /\ final' = final /\ list' = list /\ verdict' = verdict
    BY <1>0, <1>5, Running DEF kvm_fail_entry, kvm_fails, kvm_ended, Scripts
  <2>2. CASE test \in Tests
    <3>1. cut' \ {Star} = (cut \ {Star}) \cup {test}
      BY <2>1, <2>2, CampaignAssumption
    <3>2. Pipe!Fail(test)
      BY <1>1, <2>1, <3>1 DEF Pipe!Fail
    <3> QED
      BY <1>3, <2>1, <2>2, <3>2 DEF Pipe!Next
  <2>3. CASE test = Star
    <3>1. cut' \ {Star} = cut \ {Star}
      BY <2>1, <2>3
    <3> QED
      BY <1>1, <2>1, <3>1 DEF Pipe!vars
  <2> QED
    BY <2>1, <2>2, <2>3
<1>6. CASE start_kvm \/ mv_kvm \/ script_exits \/ (kvm_ended /\ ~expired) \/ deadline
  <2>1. final' = final /\ cut' = cut /\ list' = list /\ verdict' = verdict
    BY <1>6 DEF start_kvm, mv_kvm, script_exits, kvm_ended, deadline
  <2> QED
    BY <1>1, <2>1 DEF Pipe!vars
<1> QED
  BY <1>4, <1>5, <1>6 DEF Kvm_step

\* Publishing drops the tests without a .pre file, which have failed.
LEMMA PipePublish ==
    ASSUME IInv, publish
    PROVE  Pipe!Next
<1> DEFINE S == {t \in Tests : outdir[t].pre = Absent}
<1>1. /\ phase = "qemu" /\ phase' = "kvm" /\ todo = {}
      /\ final' = final /\ cut' = cut /\ list' = list /\ verdict' = verdict
      /\ dir'.match = <<>> /\ dir'.mismatch = <<>>
      /\ todo' = Glob({t \in Tests : outdir[t].pre # Absent})
  BY DEF publish
<1>2. Logged(dir.match)' = {} /\ Logged(dir.mismatch)' = {}
  <2>1. Logged(<<>>) = {}
    BY DEF Logged
  <2> QED
    BY <1>1, <2>1
<1>3. \A t \in Tests : t \in todo' <=> t \notin S
  BY <1>1, CampaignAssumption DEF Glob
<1>4. S \subseteq cut \ {Star}
  BY Zenon, <1>1, CampaignAssumption DEF IInv, QemuFiles, Awaited
<1>5. Result = [t \in Tests |-> "pending"] /\ Pipe!Pending = Tests
  BY <1>1 DEF Result, Pipe!Pending
<1>6. Result' = [t \in Tests |-> IF t \in S THEN "dropped" ELSE Result[t]]
  BY Zenon, <1>1, <1>2, <1>3, <1>5 DEF Result
<1>7. Pipe!Drop(S) /\ S \in SUBSET Pipe!Pending
  BY <1>1, <1>4, <1>5, <1>6 DEF Pipe!Drop
<1> QED
  BY <1>7 DEF Pipe!Next

\* A comparison judges the test, or drops it if a file of it is missing.
LEMMA PipeCompare ==
    ASSUME IInv, compare
    PROVE  [Pipe!Next]_(Pipe!vars)
<1>0. TypeOK /\ Scripts /\ KvmFiles /\ Lists
  BY DEF IInv
<1>1. /\ phase = "kvm" /\ phase' = "kvm" /\ todo' = todo \ {test} /\ pc = "diff"
      /\ final' = final /\ cut' = cut /\ list' = list /\ verdict' = verdict
  BY DEF compare, Next_test
<1>2. test \in todo /\ test \in Tests \cup {Star}
  BY <1>0, <1>1, Running
<1>3. CASE test = Star
  <2>1. dir'.match = dir.match /\ dir'.mismatch = dir.mismatch
    <3>1. dir' = [dir EXCEPT !.files =
                     [t \in Tests |-> [dir.files[t] EXCEPT !.diff = Absent]]]
      BY <1>3 DEF compare
    <3> QED
      BY <1>0, <3>1 DEF TypeOK
  <2>2. \A t \in Tests : t \in todo' <=> t \in todo
    BY <1>1, <1>3, CampaignAssumption
  <2>3. Result' = Result
    BY <1>1, <2>1, <2>2 DEF Result, Logged
  <2> QED
    BY <1>1, <2>3 DEF Pipe!vars
<1>4. CASE test # Star
  <2> DEFINE f == dir.files[test]
             err == status(f.post, f.kvm)
  <2>1. /\ dir'.match = IF err = 0 THEN Append(dir.match, test) ELSE dir.match
        /\ dir'.mismatch = IF err = 2 THEN Append(dir.mismatch, test) ELSE dir.mismatch
    <3>1. dir' = [files |-> [dir.files EXCEPT ![test].diff =
                                IF err = 1 THEN Absent ELSE report(f.post, f.kvm)],
                  match |-> IF err = 0 THEN Append(dir.match, test) ELSE dir.match,
                  mismatch |-> IF err = 2 THEN Append(dir.mismatch, test) ELSE dir.mismatch]
      BY Zenon, <1>4 DEF compare
    <3> HIDE DEF f, err
    <3> QED
      BY Zenon, <3>1
  <2>2. /\ test \in Tests /\ Star \notin todo
        /\ test \notin cut => f.post # Absent /\ f.kvm \in Ends
        /\ f.post = Absent \/ (f.post \in Dumps /\ f.post = final[test].qemu)
        /\ f.kvm \in {Absent, Empty} \/ (f.kvm \in Ends /\ f.kvm = final[test].kvm)
    <3>1. test \in Tests /\ Star \notin todo
      BY Zenon, <1>0, <1>1, <1>2, <1>4, Running
    <3> QED
      BY <1>0, <1>1, <1>2, <3>1 DEF KvmFiles, Pending
  <2>3. /\ err \in {0, 1, 2}
        /\ err = 1 <=> f.post = Absent \/ f.kvm \in {Absent, Empty}
        /\ err = 0 <=>
              /\ f.post \in Dumps
              /\ \/ f.kvm = Dummy("io")
                 \/ f.kvm \in Dumps /\ f.post.state.kept = f.kvm.state.kept
    BY SMTT(60), <2>2, StatusOf
  <2> HIDE DEF err
  <2>4. /\ Logged(dir.match)' = IF err = 0 THEN Logged(dir.match) \cup {test} ELSE Logged(dir.match)
        /\ Logged(dir.mismatch)' = IF err = 2 THEN Logged(dir.mismatch) \cup {test}
                                              ELSE Logged(dir.mismatch)
    <3>1. dir.match \in Seq(Tests) /\ dir.mismatch \in Seq(Tests)
      BY <1>0, <1>1 DEF TypeOK
    <3> QED
      BY ZenonT(60), <2>1, <2>2, <3>1, LoggedAppend
  <2>5. test \notin Logged(dir.match) /\ test \notin Logged(dir.mismatch)
    BY Zenon, <1>0, <1>1, <1>2 DEF Lists, Listed
  <2>6. test \in Pipe!Pending
    BY <1>2, <2>2 DEF Result, Pipe!Pending
  <2>7. Result' = [Result EXCEPT ![test] = IF err = 0 THEN "match"
                                          ELSE IF err = 2 THEN "mismatch" ELSE "dropped"]
    BY ZenonT(60), <1>1, <1>2, <2>2, <2>4, <2>5 DEF Result
  <2>8. CASE err = 1
    <3>1. test \in cut \ {Star}
      BY <1>4, <2>2, <2>3, <2>8, FileKinds DEF Ends
    <3>2. Result' = [t \in Tests |-> IF t \in {test} THEN "dropped" ELSE Result[t]]
      <4>1. Result = [t \in Tests |-> Result[t]]
        BY DEF Result
      <4>2. Result' = [Result EXCEPT ![test] = "dropped"]
        BY <2>7, <2>8
      <4> QED
        BY <4>1, <4>2
    <3>3. Pipe!Drop({test})
      BY <1>1, <3>1, <3>2 DEF Pipe!Drop
    <3> QED
      BY Zenon, <2>6, <3>3 DEF Pipe!Next
  <2>9. CASE err # 1
    <3>1. /\ final[test].qemu \in Dumps /\ final[test].kvm \in Dumps \cup {Dummy("io")}
          /\ f.post = final[test].qemu /\ f.kvm = final[test].kvm
      BY SMTT(60), <2>2, <2>3, <2>9 DEF Ends
    <3> DEFINE View == [d \in Dumps |-> d.state.kept]
               q == final[test].qemu
               k == final[test].kvm
               r == IF k = Dummy("io") THEN "match"
                    ELSE IF View[q] = View[k] THEN "match" ELSE "mismatch"
    <3>2. Result' = [Result EXCEPT ![test] = r]
      BY ZenonT(60), <2>3, <2>7, <2>9, <3>1, FileKinds
    <3>3. Pipe!Judge(test)
      BY <1>1, <3>1, <3>2 DEF Pipe!Judge
    <3> QED
      BY Zenon, <2>6, <3>3 DEF Pipe!Next
  <2> QED
    BY <2>8, <2>9
<1> QED
  BY <1>3, <1>4

\* simpleTest.sh draws the conclusion from the lists.
LEMMA PipeConclude ==
    ASSUME IInv, simpleTest
    PROVE  Pipe!Next
<1>0. TypeOK /\ Scripts /\ Lists /\ Outcome
  BY DEF IInv
<1>1. /\ phase = "report" /\ phase' = "done" /\ todo = {} /\ todo' = todo /\ dir' = dir
      /\ final' = final /\ cut' = cut /\ verdict = "none" /\ verdict' = Verdict
      /\ list' = Glob({t \in Tests : dir.files[t].diff # Absent})
  BY <1>0 DEF simpleTest, Scripts, Outcome
<1>2. /\ dir.match \in Seq(Tests) /\ dir.mismatch \in Seq(Tests)
      /\ Logged(dir.match) \subseteq Tests /\ Logged(dir.mismatch) \subseteq Tests
      /\ Logged(dir.match) \cap Logged(dir.mismatch) = {}
  <2>1. dir.match \in Seq(Tests) /\ dir.mismatch \in Seq(Tests)
    BY <1>0, <1>1 DEF TypeOK
  <2>2. \A s \in Seq(Tests) : Logged(s) \subseteq Tests
    BY DEF Logged
  <2> QED
    BY <1>0, <1>1, <2>1, <2>2 DEF Lists
<1>3. \A t \in Tests : /\ Result[t] = "match" <=> t \in Logged(dir.match)
                       /\ Result[t] = "mismatch" <=> t \in Logged(dir.mismatch)
                       /\ Result[t] # "pending"
  BY <1>1, <1>2 DEF Result
<1>4. Pipe!Pending = {}
  BY <1>3 DEF Pipe!Pending
<1>5. list' \ {Star} = {t \in Tests : \/ Result[t] = "mismatch"
                                      \/ Result[t] = "match" /\ final[t].kvm # Dummy("io")}
  <2>1. {t \in Tests : dir.files[t].diff # Absent} = Compared
    BY Zenon, <1>0, <1>1, <1>2, FileKinds DEF Lists, Compared
  <2>2. list' \ {Star} = Compared
    BY <1>1, <1>2, <2>1, CampaignAssumption DEF Glob, Compared
  <2> QED
    BY Zenon, <1>2, <1>3, <2>2 DEF Compared
<1>6. /\ dir.match # <<>> <=> \E t \in Tests : Result[t] = "match"
      /\ dir.mismatch # <<>> <=> \E t \in Tests : Result[t] = "mismatch"
  <2>1. ASSUME NEW s \in Seq(Tests) PROVE s # <<>> <=> Logged(s) # {}
    <3>1. CASE s = <<>>
      BY <3>1 DEF Logged
    <3>2. CASE s # <<>>
      <4>1. 1 \in DOMAIN s
        BY <3>2
      <4> QED
        BY <3>2, <4>1 DEF Logged
    <3> QED
      BY <3>1, <3>2
  <2> QED
    BY <1>2, <1>3, <2>1
<1>7. verdict' = IF \E t \in Tests : Result[t] = "mismatch" THEN "mismatches"
                 ELSE IF \E t \in Tests : Result[t] = "match" THEN "matches"
                 ELSE "fail"
  BY <1>1, <1>6 DEF Verdict
<1>8. Result' = Result
  BY <1>1, SameResult
<1>9. Pipe!Conclude
  BY <1>1, <1>4, <1>5, <1>7, <1>8 DEF Pipe!Conclude
<1> QED
  BY <1>9 DEF Pipe!Next

\* A campaign, with its files, deadlines and kills, gives each test one result,
\* the right one for the final states the emulators came to, never revises it,
\* and drops only tests that failed or met a deadline; what simpleTest.sh
\* prints and selects is what the results say.
THEOREM ImplementsPromise == Spec => ImplementsPipeline
<1>1. Init => Pipe!Init
  <2> SUFFICES ASSUME Init PROVE Pipe!Init
    OBVIOUS
  <2>1. phase = "qemu" /\ list = {} /\ verdict = "none" /\ cut = {}
        /\ final = [t \in Tests |-> [qemu |-> Absent, kvm |-> Absent]]
    BY DEF Init
  <2> QED
    BY <2>1 DEF Result, Pipe!Init
<1>2. IInv /\ RunsOnce /\ [Next]_vars => [Pipe!Next]_(Pipe!vars)
  <2> SUFFICES ASSUME IInv, RunsOnce, [Next]_vars PROVE [Pipe!Next]_(Pipe!vars)
    OBVIOUS
  <2>0. TypeOK /\ Scripts
    BY DEF IInv
  <2>1. CASE sweep
    <3>1. /\ phase # "qemu" /\ phase' # "qemu" /\ todo' = todo
          /\ dir'.match = dir.match /\ dir'.mismatch = dir.mismatch
          /\ final' = final /\ cut' = cut /\ list' = list /\ verdict' = verdict
      BY <2>0, <2>1 DEF sweep, TypeOK
    <3> QED
      BY <3>1, SameResult DEF Pipe!vars
  <2>2. CASE UNCHANGED vars
    BY <2>2 DEF vars, Result, Pipe!vars
  <2> QED
    BY <2>0, <2>1, <2>2, Steps, PipeQemu, PipePublish, PipeKvm, PipeCompare, PipeConclude
<1> QED
  BY <1>1, <1>2, InvHolds, RunsOnceHolds, PTL DEF Spec, ImplementsPipeline, Pipe!Spec
=============================================================================
