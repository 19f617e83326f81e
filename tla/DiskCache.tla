------------------------------ MODULE DiskCache ------------------------------
(***************************************************************************)
(* The on-disk memoization of memoizable.py (memoizable_disk), as used for *)
(* compute_missing_locs by every exploration started on a host.  All calls *)
(* of the function, by any process, share one file in /tmp, named by a     *)
(* hash of the function's own code, and one lock file.                     *)
(*                                                                         *)
(* The function may raise, a process may be killed, and the helpers that   *)
(* the function calls may be edited: their code is not part of the hash.   *)
(***************************************************************************)
EXTENDS Naturals, FiniteSets

CONSTANTS
    Procs,        \* the calls that are made, each by a process of its own
    Args,         \* the arguments, up to hash_args
    NoProc,
    CacheSize,    \* __cache_size__
    MaxVersion    \* bound: edits of the helpers

VARIABLES
    dpc,       \* per call, where it is
    arg,       \* per call, its arguments
    version,   \* the code of the helpers, on disk
    code,      \* per call, the code of the helpers its process has loaded
    disk,      \* what the file holds: hash -> value
    downer,    \* who made the lock file
    retval     \* per call, what it returns

dvars == <<dpc, arg, version, code, disk, downer, retval>>

Empty == [a \in {} |-> 0]
Nothing == [of |-> NoProc, by |-> 0]

Ended == {"returned", "timeout", "raised", "killed"}

DInit ==
    /\ dpc = [p \in Procs |-> "new"]
    /\ arg \in [Procs -> Args]
    /\ version = 1
    /\ code = [p \in Procs |-> 1]
    /\ disk = Empty
    /\ downer = NoProc
    /\ retval = [p \in Procs |-> Nothing]

dgoto(p, l) == dpc' = [dpc EXCEPT ![p] = l]

\* The process starts and loads the code.
start(p) ==
    /\ dpc[p] = "new"
    /\ code' = [code EXCEPT ![p] = version]
    /\ dgoto(p, "called")
    /\ UNCHANGED <<arg, version, disk, downer, retval>>

\* The key of a call: the md5 of all its arguments, defaults expanded.
hash_args_Bug(a) == CHOOSE b \in Args : TRUE
hash_args(a) == a

\* What the function computes: a value of its arguments and of the code.
func(p) == [of |-> arg[p], by |-> code[p]]

lock_cache_Bug(p) ==
    /\ dpc[p] = "called"
    /\ downer' = p
    /\ dgoto(p, "open")
    /\ UNCHANGED <<arg, version, code, disk, retval>>
lock_cache(p) ==
    /\ dpc[p] = "called" /\ downer = NoProc
    /\ downer' = p
    /\ dgoto(p, "open")
    /\ UNCHANGED <<arg, version, code, disk, retval>>

\* LockTimeout after 15 seconds.
cache_timeout_Bug(p) ==
    /\ dpc[p] = "called" /\ downer # NoProc
    /\ dgoto(p, "called")
    /\ UNCHANGED <<arg, version, code, disk, downer, retval>>
cache_timeout(p) ==
    /\ dpc[p] = "called" /\ downer # NoProc
    /\ dgoto(p, "timeout")
    /\ UNCHANGED <<arg, version, code, disk, downer, retval>>

\* shelve.open, and the cache is cleared when it has become too large.
open_cache(p) ==
    /\ dpc[p] = "open"
    /\ disk' = IF Cardinality(DOMAIN disk) > CacheSize
                THEN Empty ELSE disk
    /\ dgoto(p, "lookup")
    /\ UNCHANGED <<arg, version, code, downer, retval>>

hit(p) ==
    /\ dpc[p] = "lookup" /\ hash_args(arg[p]) \in DOMAIN disk
    /\ retval' = [retval EXCEPT ![p] = disk[hash_args(arg[p])]]
    /\ dgoto(p, "close")
    /\ UNCHANGED <<arg, version, code, disk, downer>>

\* KeyError: the function runs, under the lock, and its result is stored.
miss(p) ==
    /\ dpc[p] = "lookup" /\ hash_args(arg[p]) \notin DOMAIN disk
    /\ retval' = [retval EXCEPT ![p] = func(p)]
    /\ disk' = [a \in {hash_args(arg[p])} \cup DOMAIN disk |->
                   IF a = hash_args(arg[p]) THEN func(p) ELSE disk[a]]
    /\ dgoto(p, "close")
    /\ UNCHANGED <<arg, version, code, downer>>

\* The function raises: the lock is not released.
miss_raises(p) ==
    /\ dpc[p] = "lookup" /\ hash_args(arg[p]) \notin DOMAIN disk
    /\ dgoto(p, "raised")
    /\ UNCHANGED <<arg, version, code, disk, downer, retval>>

close_release(p) ==
    /\ dpc[p] = "close"
    /\ downer' = NoProc
    /\ dgoto(p, "returned")
    /\ UNCHANGED <<arg, version, code, disk, retval>>

-----------------------------------------------------------------------------
(* The environment. *)

kill_call(p) ==
    /\ dpc[p] \notin Ended
    /\ dgoto(p, "killed")
    /\ UNCHANGED <<arg, version, code, disk, downer, retval>>

\* uncluster, cluster or another function called by the memoized one changes.
edit_helpers ==
    /\ version < MaxVersion
    /\ version' = version + 1
    /\ UNCHANGED <<dpc, arg, code, disk, downer, retval>>

memoizable_func(p) ==
    \/ start(p) \/ lock_cache(p) \/ cache_timeout(p) \/ open_cache(p) \/ hit(p) \/ miss(p)
    \/ miss_raises(p) \/ close_release(p)

CallsFinished == (\A p \in Procs : dpc[p] \in Ended) /\ UNCHANGED dvars

DNext ==
    \/ \E p \in Procs : memoizable_func(p) \/ kill_call(p)
    \/ edit_helpers \/ CallsFinished

DSpec == DInit /\ [][DNext]_dvars /\ \A p \in Procs : WF_dvars(memoizable_func(p))

-----------------------------------------------------------------------------
(* Properties. *)

InCall == {p \in Procs : dpc[p] \in {"open", "lookup", "close"}}

\* The file is opened by one process at a time, dead lock owners included:
\* nobody opens the shelve while the last one who did may not have closed it.
OneInCache == \A p \in InCall : downer = p

\* Every call returns the function's value for its own arguments, and unless
\* the helpers were edited the very value it would have computed itself.  After
\* an edit it may return what the code before the edit computed: the name of
\* the file depends on the code of the memoized function only.
ReturnsOwn ==
    \A p \in Procs : dpc[p] = "returned" =>
        /\ retval[p].of = arg[p]
        /\ retval[p].by \in 1..version
        /\ version = 1 => retval[p] = func(p)

\* Once a call has raised or was killed with the lock in its hands, no later
\* call returns: the lock file stays.  "Later": one that has not begun.
DeadOwner == downer # NoProc /\ dpc[downer] \in {"raised", "killed"}
StuckForGood == [][DeadOwner => UNCHANGED <<disk, downer, retval>>]_dvars
=============================================================================
