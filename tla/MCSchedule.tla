----------------------------- MODULE MCSchedule -----------------------------
(* Small instances of Schedule for TLC. *)
EXTENDS Schedule, TLC

CONSTANTS often, rare, feb30

\* A cron that fires on every tick, one on every even tick, and one that
\* parses and matches no date, such as 0 0 30 2 *.
SomeFires == [c \in Crons |-> CASE c = often -> [every |-> 1, at |-> 0]
                                [] c = rare -> [every |-> 2, at |-> 0]
                                [] c = feb30 -> [every |-> 0, at |-> 0]]

ScannerSymmetry == Permutations(Scanners)
=============================================================================
