----------------------------- MODULE Enumeration -----------------------------
(***************************************************************************)
(* What an exploration promises: the inputs of a program are divided into  *)
(* the classes that follow the same path, and every iteration reports one  *)
(* class that was not reported before, until none is left.                 *)
(*                                                                         *)
(* An exploration that may lose inputs (a limit on the values of a query,  *)
(* a solver that fails, a signal) may also give some up, but only inputs   *)
(* that were left, and it may die.  A report that is torn also has some    *)
(* that were not left.                                                     *)
(***************************************************************************)
EXTENDS Naturals, FiniteSets

CONSTANTS
    Allowed(_),     \* the inputs of a program
    Class(_, _),    \* the inputs that follow the same path as an input
    Silent(_, _),   \* the path of an input is one that is not reported
    Lossy(_),       \* may inputs be lost?
    Most(_)         \* the number of reports after which the exploration stops

VARIABLES
    program,     \* the program, which never changes
    torn,        \* the next report is torn
    left,        \* the inputs that are neither reported nor given up
    reported,    \* the classes reported
    ended        \* the exploration is over

vars == <<program, torn, left, reported, ended>>

Start ==
    /\ left = Allowed(program)
    /\ torn = FALSE
    /\ reported = {}
    /\ ended = FALSE

Explore ==
    LET gone == left \ left'
    IN  /\ left' \subseteq left
        /\ \E i \in gone :
              /\ gone = Class(program, i)
              /\ reported' = IF Silent(program, i) THEN reported
                             ELSE reported \cup {gone}
        /\ ended' = (left' = {})
        /\ torn' = torn

\* The last report: its inputs are not even crossed off.
Stop ==
    /\ Cardinality(reported') = Most(program)
    /\ \E i \in left : reported' = reported \cup {Class(program, i)}
    /\ ended' = TRUE
    /\ UNCHANGED <<torn, left>>

GiveUp ==
    /\ Lossy(program)
    /\ left' \subseteq left
    /\ \A R \in reported' \ reported :
          R \subseteq left \/ (torn /\ R \cap left # {}) \/ ended'
    /\ Cardinality(reported' \ reported) <= 1
    /\ reported \subseteq reported'
    /\ ended' \in BOOLEAN
    /\ torn' \in BOOLEAN

Step ==
    /\ ~ended
    /\ UNCHANGED program
    /\ GiveUp \/ Stop \/ Explore

Spec == Start /\ [][Step]_vars
=============================================================================
