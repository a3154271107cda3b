---------------------------- MODULE MCNumbering ----------------------------
(* Instances of Numbering for TLC: two drafts in two departments and a     *)
(* clock that crosses the end of a year.                                   *)
EXTENDS Numbering, TLC

CONSTANTS d1, d2

MCDepartment == [d \in Docs |-> IF d = d1 THEN 1 ELSE 2]
MCYearOf == [t \in Times |-> 20 + t \div 3]
=============================================================================
