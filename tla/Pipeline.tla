------------------------------ MODULE Pipeline ------------------------------
(***************************************************************************)
(* What a campaign promises for each test of an instruction, whatever is   *)
(* killed on the way: QEMU and then KVM come to a final state at most once; *)
(* the test gets one result, the right one for these final states, or is   *)
(* dropped because it failed or met a deadline; a result is never revised; *)
(* and the verdict and the selection for aggregation are those of the      *)
(* results.                                                                *)
(***************************************************************************)
CONSTANTS
    Tests,
    Finals, View,   \* final states, and what is compared of each
    Io,             \* KVM stopped at an I/O instruction
    None            \* not come to a final state

VARIABLES
    outcome,    \* per test, the final states of QEMU and KVM
    failed,     \* the tests that failed or met a deadline
    result,     \* per test, "pending", "match", "mismatch" or "dropped"
    selected,   \* the tests selected for aggregation
    verdict

vars == <<outcome, failed, result, selected, verdict>>

Pending == {t \in Tests : result[t] = "pending"}

Init ==
    /\ outcome = [t \in Tests |-> [qemu |-> None, kvm |-> None]]
    /\ failed = {}
    /\ result = [t \in Tests |-> "pending"]
    /\ selected = {} /\ verdict = "none"

QemuEnds(t) ==
    /\ outcome[t] = [qemu |-> None, kvm |-> None]
    /\ \E f \in Finals : outcome' = [outcome EXCEPT ![t].qemu = f]
    /\ UNCHANGED <<failed, result, selected, verdict>>

KvmEnds(t) ==
    /\ outcome[t].qemu \in Finals /\ outcome[t].kvm = None
    /\ \E f \in Finals \cup {Io} : outcome' = [outcome EXCEPT ![t].kvm = f]
    /\ UNCHANGED <<failed, result, selected, verdict>>

Fail(t) ==
    /\ failed' = failed \cup {t}
    /\ UNCHANGED <<outcome, result, selected, verdict>>

\* A test that stopped at I/O counts as a match.
Judge(t) ==
    /\ outcome[t].qemu \in Finals /\ outcome[t].kvm \in Finals \cup {Io}
    /\ result' = [result EXCEPT ![t] =
                     IF outcome[t].kvm = Io THEN "match"
                     ELSE IF View[outcome[t].qemu] = View[outcome[t].kvm]
                     THEN "match" ELSE "mismatch"]
    /\ UNCHANGED <<outcome, failed, selected, verdict>>

Drop(S) ==
    /\ S \subseteq failed
    /\ result' = [t \in Tests |-> IF t \in S THEN "dropped" ELSE result[t]]
    /\ UNCHANGED <<outcome, failed, selected, verdict>>

Conclude ==
    /\ Pending = {} /\ verdict = "none"
    /\ selected' = {t \in Tests : \/ result[t] = "mismatch"
                                  \/ result[t] = "match" /\ outcome[t].kvm # Io}
    /\ verdict' = IF \E t \in Tests : result[t] = "mismatch" THEN "mismatches"
                  ELSE IF \E t \in Tests : result[t] = "match" THEN "matches"
                  ELSE "fail"
    /\ UNCHANGED <<outcome, failed, result>>

Next ==
    \/ \E t \in Pending : QemuEnds(t) \/ KvmEnds(t) \/ Fail(t) \/ Judge(t)
    \/ \E S \in SUBSET Pending : Drop(S)
    \/ Conclude

Spec == Init /\ [][Next]_vars
=============================================================================
