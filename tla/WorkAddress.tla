----------------------------- MODULE WorkAddress -----------------------------
(***************************************************************************)
(* Street and number of an address, parse_work_address and street_of in    *)
(* crates/shared/src/text.rs.                                              *)
(*                                                                         *)
(* An address is a sequence of segments (what stands between two commas),  *)
(* a segment a sequence of words; dots and the case of letters are left    *)
(* out.  Words are of the sorts below, or "nr", or the "comma" or "dash"   *)
(* between two others; every other is part of a name.                      *)
(***************************************************************************)
EXTENDS Integers, Sequences, SequencesExt

CONSTANTS
  AdminWords,   \* "judetul", "municipiul", ...
  StreetWords,  \* STREET_PREFIXES
  Numbers,      \* words that begin with a digit
  NoNumbers     \* "fn", "fara numar", ...: written where a number would be

(* is_admin_segment. *)
IsAdmin(segment) == Head(segment) \in AdminWords \/ segment \in {<<"cluj">>, <<"cluj", "napoca">>}

(* The segments that are neither empty nor the name of a county or city. *)
Kept(raw) ==
  FlattenSeq([i \in DOMAIN raw |->
                IF raw[i] = <<>> \/ IsAdmin(raw[i]) THEN <<>> ELSE << raw[i] >>])

(* The segments kept, joined by commas. *)
Joined(segments) ==
  FlattenSeq([i \in DOMAIN segments |->
                IF i = 1 THEN segments[i] ELSE <<"comma">> \o segments[i]])

Before(text, marks) ==
  LET i == SelectInSeq(text, LAMBDA w : w \in marks) IN IF i = 0 THEN text ELSE SubSeq(text, 1, i - 1)

(* Mutant: one word of the kind of street is dropped. *)
WithoutOneStreetWord(text) ==
  IF text # <<>> /\ Head(text) \in StreetWords THEN Tail(text) ELSE text

(* "zona str. Beclean": up to three of them. *)
WithoutStreetWords(text) ==
  LET name == SelectInSeq(text, LAMBDA w : w \notin StreetWords)
      n    == IF name = 0 THEN Len(text) ELSE name - 1
  IN SubSeq(text, (IF n < 3 THEN n ELSE 3) + 1, Len(text))

StreetOf(text) ==
  Before(WithoutStreetWords(text), Numbers \cup {"comma", "nr", "dash"})

(* The number: what follows "nr" up to a comma; else the last word of the first
   segment, if it is not the only one. *)
ParseWorkAddress(raw) ==
  LET segments == Kept(raw)
      address  == Joined(segments)
      marker   == SelectInSeq(address, LAMBDA w : w = "nr")
      after    == Before(SubSeq(address, marker + 1, Len(address)), {"comma"})
      last     == Last(Head(segments))
      written  == IF marker > 0 THEN after
                  ELSE IF last \in Numbers /\ Len(Head(segments)) > 1 THEN <<last>> ELSE <<>>
  IN IF segments = <<>> THEN [street |-> <<>>, number |-> <<>>]
     ELSE [street |-> StreetOf(IF marker > 0 THEN SubSeq(address, 1, marker - 1)
                               ELSE Head(segments)),
           number |-> IF written \in NoNumbers THEN <<>> ELSE written]
=============================================================================
