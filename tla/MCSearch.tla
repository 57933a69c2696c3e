------------------------------ MODULE MCSearch ------------------------------
(* Small instances of Search. *)
EXTENDS Search

MCYearOf == <<2026, 2027, 2027>>
MCProjects == {"p1", "p2"}
MCTitleOf == [p \in MCProjects |-> IF p = "p1" THEN {"w"} ELSE {}]
MCCertificateOf ==
  << [kind |-> "INFORMARE", list |-> {}, page |-> {}],
     [kind |-> "PUZ", list |-> {}, page |-> {"w"}],
     [kind |-> "PUZ", list |-> {"w"}, page |-> {}] >>
MCClassify == [words \in SUBSET {"w"} |-> IF words = {} THEN "PUZ" ELSE "ALTELE"]
=============================================================================
