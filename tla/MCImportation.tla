---------------------------- MODULE MCImportation ----------------------------
(* An instance of Importation for TLC: two stories about the same person,  *)
(* whose address the file may write in two ways.                           *)
EXTENDS Importation, TLC

CONSTANTS p1, P1

MCFiles == {[people |-> {p1}, kanban |-> TRUE], [people |-> {P1}, kanban |-> TRUE],
            [people |-> {p1}, kanban |-> FALSE], [people |-> {}, kanban |-> FALSE]}

MCRelated == [s \in File |-> IF s = 1 THEN {p1, P1} ELSE {p1}]

MCAssigned == [s \in File |-> IF s = 1 THEN {p1} ELSE {}]
=============================================================================
