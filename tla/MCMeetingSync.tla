---------------------------- MODULE MCMeetingSync ----------------------------
(* Instances of MeetingSync for TLC. *)
EXTENDS MeetingSync

(* The second agenda adds a row to the first. *)
MCRowsOf == [a \in Agendas |-> IF a = 1 THEN {1} ELSE Rows]

(* The second card is the better one for both rows; the first row has only the
   second card, which the second row wins. *)
MCScores ==
  {[p \in Rows \X Cards |-> p[2] + 2],
   [p \in Rows \X Cards |-> IF p = <<1, 1>> THEN 0 ELSE p[1] + 2]}

Symmetry == Permutations(Runners)
=============================================================================
