------------------------------ MODULE Template ------------------------------
(***************************************************************************)
(* The floppy template shared by all test generators of a host             *)
(* (gen_floppy_template and gen_floppy in gen_floppy_image.py, lock in     *)
(* common.py).  The template is one file, built in place under a lock      *)
(* file by six commands, and read by its user after the lock is released.  *)
(*                                                                         *)
(* A generator may be killed at any point, and any command may fail: the   *)
(* exception then ends the generator.  In neither case is the lock file    *)
(* removed.  The kernel may be rebuilt at any time, which makes the        *)
(* template out of date.  Modification times are whole seconds.            *)
(***************************************************************************)
EXTENDS Naturals

CONSTANTS
    Generators,    \* the processes that generate images
    NoOwner,       \* no process has made the lock file
    MaxTime,       \* bound: seconds
    MaxBuilds      \* bound: how often the kernel is rebuilt

VARIABLES
    pc,         \* per generator, where it is
    owner,      \* the process that made the lock file
    stage,      \* how many of the commands the template file has seen
    mtime,      \* modification time of the template
    kmtime,     \* modification time of the kernel and of the generator itself
    now,        \* the clock
    builds,     \* how often the kernel was rebuilt
    floppy,     \* per generator, the stage of the template it has copied
    overtaken   \* history: generators that saw the kernel rebuilt since they
                \* looked at the template

tvars == <<pc, owner, stage, mtime, kmtime, now, builds, floppy, overtaken>>

\* dd, mkdosfs, mmd boot, mmd boot/grub, mcopy, grub.  Stage 0 is no file.
Complete == 6

Done == {"done", "timeout", "failed", "killed"}

TInit ==
    /\ pc = [g \in Generators |-> "start"]
    /\ owner = NoOwner
    /\ stage \in {0, Complete} /\ mtime = 0
    /\ kmtime \in {0, 1} /\ now = 1
    /\ builds = 0
    /\ floppy = [g \in Generators |-> 0]
    /\ overtaken = {}

goto(g, l) == pc' = [pc EXCEPT ![g] = l]

-----------------------------------------------------------------------------

\* lock(FLOPPY_TEMPLATE) succeeds.
acquire(g) ==
    /\ pc[g] = "start"
    /\ owner = NoOwner
    /\ owner' = g
    /\ goto(g, "check")
    /\ UNCHANGED <<stage, mtime, kmtime, now, builds, floppy, overtaken>>

\* LockTimeout after 30 seconds in which the lock file was there.
lock_timeout_Bug(g) ==
    /\ pc[g] = "start"
    /\ owner # NoOwner
    /\ goto(g, "start")
    /\ UNCHANGED <<owner, stage, mtime, kmtime, now, builds, floppy, overtaken>>
lock_timeout(g) ==
    /\ pc[g] = "start"
    /\ owner # NoOwner
    /\ goto(g, "timeout")
    /\ UNCHANGED <<owner, stage, mtime, kmtime, now, builds, floppy, overtaken>>

\* Is there a template, and is it not older than the kernel?
outdated == stage = 0 \/ mtime < kmtime

check_mtime(g) ==
    /\ pc[g] = "check"
    /\ goto(g, IF outdated THEN "build" ELSE "release")
    /\ overtaken' = overtaken \ {g}
    /\ UNCHANGED <<owner, stage, mtime, kmtime, now, builds, floppy>>

\* One of the commands: the first makes a new file, the last ends the build.
build(g) ==
    /\ pc[g] \in {"build", "building"}
    /\ stage' = IF pc[g] = "build" THEN 1 ELSE stage + 1
    /\ mtime' = now
    /\ goto(g, IF stage' = Complete THEN "release" ELSE "building")
    /\ UNCHANGED <<owner, kmtime, now, builds, floppy, overtaken>>

\* check_call raises CalledProcessError: "l.release()" is not reached.
command_fails(g) ==
    /\ pc[g] \in {"build", "building"}
    /\ goto(g, "failed")
    /\ UNCHANGED <<owner, stage, mtime, kmtime, now, builds, floppy, overtaken>>

release_EarlyBug(g) ==
    /\ pc[g] \in {"release", "building"}
    /\ owner' = NoOwner
    /\ goto(g, "read")
    /\ UNCHANGED <<stage, mtime, kmtime, now, builds, floppy, overtaken>>
release(g) ==
    /\ pc[g] = "release"
    /\ owner' = NoOwner
    /\ goto(g, "read")
    /\ UNCHANGED <<stage, mtime, kmtime, now, builds, floppy, overtaken>>

\* The template is read without the lock and copied to the image.
read_template(g) ==
    /\ pc[g] = "read"
    /\ floppy' = [floppy EXCEPT ![g] = stage]
    /\ goto(g, "mcopy")
    /\ UNCHANGED <<owner, stage, mtime, kmtime, now, builds, overtaken>>

\* mcopy of kernel, kernel.md5 and testcase.md5 into the image, which fails on
\* an image without a file system.
mcopy(g) ==
    /\ pc[g] = "mcopy"
    /\ goto(g, IF floppy[g] >= 2 THEN "done" ELSE "failed")
    /\ UNCHANGED <<owner, stage, mtime, kmtime, now, builds, floppy, overtaken>>

-----------------------------------------------------------------------------
(* The environment. *)

\* The generator is killed, or its host is.
kill(g) ==
    /\ pc[g] \notin Done
    /\ goto(g, "killed")
    /\ UNCHANGED <<owner, stage, mtime, kmtime, now, builds, floppy, overtaken>>

build_kernel ==
    /\ builds < MaxBuilds
    /\ builds' = builds + 1
    /\ kmtime' = now
    /\ overtaken' = overtaken \cup {g \in Generators : pc[g] \notin {"start"} \cup Done}
    /\ UNCHANGED <<pc, owner, stage, mtime, now, floppy>>

tick ==
    /\ now < MaxTime
    /\ now' = now + 1
    /\ UNCHANGED <<pc, owner, stage, mtime, kmtime, builds, floppy, overtaken>>

gen_floppy(g) ==
    \/ acquire(g) \/ lock_timeout(g) \/ check_mtime(g) \/ build(g)
    \/ command_fails(g) \/ release(g) \/ read_template(g) \/ mcopy(g)

Finished ==
    /\ \A g \in Generators : pc[g] \in Done
    /\ UNCHANGED tvars

TNext ==
    \/ \E g \in Generators : gen_floppy(g) \/ kill(g)
    \/ build_kernel \/ tick \/ Finished

\* A process that is not killed goes on, and its commands end.
TSpec == TInit /\ [][TNext]_tvars /\ \A g \in Generators : WF_tvars(gen_floppy(g))

-----------------------------------------------------------------------------
(* Properties. *)

\* Every image gen_floppy returns is bootable ("Generate a bootable floppy
\* image with a given kernel"): it was copied from a template that had seen all
\* the commands.  A template left half-built by a killed or failed generator is
\* never used, because the lock file that is left with it lets nobody in.  The
\* exception is a generator during which the kernel was rebuilt: it reads the
\* template after releasing the lock, while another generator may build it.
ImagesBootableIfQuiet ==
    \A g \in Generators :
        pc[g] = "done" /\ g \notin overtaken => floppy[g] = Complete

\* The template is only ever incomplete while somebody, alive or not, has the
\* lock: this is why nobody who gets the lock finds a fresh, incomplete file.
IncompleteLocked == stage \in 1..(Complete - 1) => owner # NoOwner
=============================================================================
