----------------------------- MODULE AgendaText -----------------------------
(***************************************************************************)
(* The rows of an agenda, out of the text a PDF gives: parse_agenda and    *)
(* split_nr_reg in crates/core/src/agenda.rs, line by line.                *)
(*                                                                         *)
(* A line is a record of its sort and, if it begins a row, its digits, and *)
(* its words.  The extraction may have glued the number of the row to the  *)
(* registration number.  Numbers are sequences of digits.  Of the rows in  *)
(* the making only the last is kept: the others do not change any more.    *)
(***************************************************************************)
EXTENDS Integers, Sequences, SequencesExt

CONSTANT Missing  \* a number that could not be read

RowNr(digits) ==
  LET upTo[n \in 0..Len(digits)] == IF n = 0 THEN 0 ELSE 10 * upTo[n - 1] + digits[n]
  IN upTo[Len(digits)]

DigitsOf(n) == IF n < 10 THEN <<n>> ELSE <<n \div 10, n % 10>>  \* rows up to 99

(* Mutant: only by the length of a registration number. *)
SplitByLength(blob, expected) ==
  IF Len(blob) >= 7
  THEN <<RowNr(SubSeq(blob, 1, Len(blob) - 6)), SubSeq(blob, Len(blob) - 5, Len(blob))>>
  ELSE <<Missing, blob>>

(* split_nr_reg of a glued pair: by the number that is expected, or by the six
   digits of a registration number. *)
Split(blob, expected) ==
  LET exp  == DigitsOf(expected)
      rest == SubSeq(blob, Len(exp) + 1, Len(blob))
  IN IF IsPrefix(exp, blob) /\ Len(rest) >= 4 THEN <<expected, rest>>
     ELSE IF Len(blob) >= 4 THEN SplitByLength(blob, expected)
     ELSE <<RowNr(blob), Missing>>

-----------------------------------------------------------------------------
(* What the loop of parse_agenda holds. *)
NoBlock == [nr |-> Missing, reg |-> Missing, parts |-> <<>>]

Beginning(headed) ==
  [at |-> IF headed THEN "head" ELSE "table", expected |-> 1, any |-> FALSE, block |-> NoBlock]

StartOf(reader, line) ==
  LET pair == IF line.apart THEN <<RowNr(line.nr), line.reg>>
              ELSE Split(line.nr \o line.reg, reader.expected)
  IN [reader EXCEPT !.expected = IF pair[1] = Missing THEN @ ELSE pair[1] + 1,
                    !.any = TRUE,
                    !.block = [nr |-> pair[1], reg |-> pair[2], parts |-> line.words]]

(* Everything up to the heads of the columns is passed over, if there are any;
   blank lines and the letterhead everywhere; a footer ends the table. *)
ReadLine(reader, line) ==
  CASE reader.at = "head" ->
         [reader EXCEPT !.at = IF line.sort = "columns" THEN "table" ELSE "head"]
    [] reader.at = "end" \/ line.sort \in {"blank", "letterhead"} -> reader
    [] OTHER ->
         CASE line.sort = "footer" -> [reader EXCEPT !.at = "end"]
           [] line.sort = "row" -> StartOf(reader, line)
           [] OTHER -> IF reader.any THEN [reader EXCEPT !.block.parts = @ \o line.words]
                       ELSE reader

(* The beneficiary is what stands before the first word a description begins with
   (DESC_START). *)
SplitBeneficiary(words) ==
  LET i == SelectInSeq(words, LAMBDA w : w = "plan")
  IN IF i > 1 THEN [beneficiary |-> SubSeq(words, 1, i - 1),
                    description |-> SubSeq(words, i, Len(words))]
     ELSE [beneficiary |-> <<>>, description |-> words]

(* Mutant: "revenire CTATU" is noted and left in the text. *)
Untouched(parts) == parts

Cleaned(parts) ==
  LET upTo[n \in 0..Len(parts)] ==
        IF n = 0 THEN <<>>
        ELSE IF parts[n] = "revenire" THEN upTo[n - 1] ELSE Append(upTo[n - 1], parts[n])
  IN upTo[Len(parts)]

(* The row made of a block; "revenire CTATU" is taken out wherever it stands. *)
Assemble(parts) ==
  LET split == SplitBeneficiary(Cleaned(parts))
  IN [beneficiary |-> split.beneficiary, description |-> split.description,
      revenire |-> Contains(parts, "revenire")]
=============================================================================
