----------------------------- MODULE ScriptDir -----------------------------
(***************************************************************************)
(* The scripts directory: the environment of RunController.  Editors write *)
(* and delete script files at any time, between any two steps of the       *)
(* program, which looks at the directory through std::filesystem and       *)
(* slurp_file only.                                                        *)
(*                                                                         *)
(* What the program can see of a file is its last write time and its       *)
(* content.  Content is a list of units, or does not parse.  Write times   *)
(* are numbers, 0 meaning "no such file".                                  *)
(*                                                                         *)
(* Assumption: each write of a path gets a time that path never had        *)
(* before, earlier or later than the ones it had (a file copied from       *)
(* elsewhere with its own time may be older than the one it replaces).     *)
(* This leaves out two writes within one tick of the file system's clock,  *)
(* and a version that is put back together with the time it had.  Where    *)
(* that is the time recorded last, the program, which compares times, can  *)
(* not see the write, and nothing here is said of such a file.             *)
(***************************************************************************)
EXTENDS Scripts

CONSTANTS
  Times,        \* write times that may occur; bounds the writes of each path
  StartTime     \* write time of the files the program finds when it starts

ASSUME TimesAssumption == Times \subseteq Nat \ {0} /\ StartTime \in Times

VARIABLES
  disk,         \* path -> write time and content
  usedTimes     \* path -> write times that path has had

dirVars == <<disk, usedTimes>>

NoFile == [time |-> 0, parses |-> FALSE, units |-> <<>>]

Exists(p) == disk[p].time # 0

File(time, content) ==
  [time |-> time, parses |-> content.parses, units |-> content.units]

\* At the start any of the files may be there, in any of its contents.
DirInit ==
  /\ disk \in [Paths -> {NoFile} \cup
                 {File(StartTime, c) : c \in UNION {Contents[p] : p \in Paths}}]
  /\ \A p \in Paths : Exists(p) => \E c \in Contents[p] : disk[p] = File(StartTime, c)
  /\ usedTimes = [p \in Paths |-> {disk[p].time} \ {0}]

DirTypeOK ==
  /\ disk \in [Paths -> [time: Nat, parses: BOOLEAN, units: Seq(UnitSource)]]
  /\ usedTimes \in [Paths -> SUBSET Times]

Write(p) ==
  \E k \in Times \ usedTimes[p], c \in Contents[p] :
    /\ disk' = [disk EXCEPT ![p] = File(k, c)]
    /\ usedTimes' = [usedTimes EXCEPT ![p] = @ \cup {k}]

Delete(p) ==
  /\ Exists(p)
  /\ disk' = [disk EXCEPT ![p] = NoFile]
  /\ UNCHANGED usedTimes
=============================================================================
