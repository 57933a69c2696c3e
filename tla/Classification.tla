--------------------------- MODULE Classification ---------------------------
(***************************************************************************)
(* What a title and the declared purpose (`scop`) of a certificate are     *)
(* filed under, classify and classify_scop in crates/shared/src/text.rs.   *)
(*                                                                         *)
(* A text is the sequence of its normalised words: "P.U.Z" is the three    *)
(* words p, u, z.  A word or phrase of the lists WORKS and OPS is one word *)
(* here, "works" or "ops".                                                 *)
(***************************************************************************)
EXTENDS Integers, SequencesExt

CONSTANT Leading  \* how many words leads_with_abbrev looks at

Letters == [puz |-> <<"p", "u", "z">>, pud |-> <<"p", "u", "d">>]
Phrase  == [puz |-> <<"plan", "urbanistic", "zonal">>,
            pud |-> <<"plan", "urbanistic", "de", "detaliu">>]

(* The words `phrase` stand in `text` from its i-th word on. *)
StandsAt(phrase, text, i) ==
  /\ i + Len(phrase) - 1 <= Len(text)
  /\ \A j \in DOMAIN phrase : text[i + j - 1] = phrase[j]

Has(text, phrase) == \E i \in DOMAIN text : StandsAt(phrase, text, i)

(* Mutant: the letters are not put together. *)
HasWord(text, abbrev) == Contains(text, abbrev)

HasAbbrev(text, abbrev) == Contains(text, abbrev) \/ Has(text, Letters[abbrev])

ClassifyTitle(text) ==
  CASE Contains(text, "oportunitate") -> "AVIZ_OPORTUNITATE"
    [] OTHER ->
       CASE HasAbbrev(text, "puz") \/ Has(text, Phrase["puz"]) -> "PUZ"
         [] OTHER ->
            IF HasAbbrev(text, "pud") \/ Has(text, Phrase["pud"]) THEN "PUD" ELSE "ALTELE"

Stop == {"conform", "cf", "potrivit", "informare", "aprobat"}

(* Among the first words, without a word of Stop before it. *)
LeadsWithAbbrev(text, abbrev) ==
  \E i \in DOMAIN text :
    /\ i <= Leading
    /\ \A j \in 1..i : text[j] \notin Stop
    /\ text[i] = abbrev \/ StandsAt(Letters[abbrev], text, i)

Asks(text, abbrev) == Has(text, Phrase[abbrev]) \/ LeadsWithAbbrev(text, abbrev)

(* The first rule that applies. *)
ClassifyScop(text) ==
  LET rules == << <<"PUZ", Asks(text, "puz")>>, <<"PUD", Asks(text, "pud")>>,
                  <<"CONSTRUIRE", Contains(text, "works")>>,
                  <<"OPERATIUNI", Contains(text, "ops")>>,
                  <<"INFORMARE", Contains(text, "informare")>>, <<"ALTELE", TRUE>> >>
  IN SelectSeq(rules, LAMBDA r : r[2])[1][1]
=============================================================================
