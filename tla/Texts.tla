------------------------------- MODULE Texts -------------------------------
(***************************************************************************)
(* The texts the city publishes and what the program reads in them: the    *)
(* agenda of a meeting (AgendaText), titles and purposes (Classification)  *)
(* and addresses (WorkAddress).  Who writes a text is the environment; it  *)
(* writes one word or line after the other, in each of the ways met on the *)
(* site, and the program reads what is there so far.  A behaviour is about *)
(* one text.                                                               *)
(***************************************************************************)
EXTENDS Integers, Sequences, SequencesExt, FiniteSetsExt

CONSTANTS
  Missing,
  RegNumbers,  \* registration numbers, sequences of digits
  LastRow,     \* bound: number of the last row of an agenda
  MaxWords,    \* bound: words of a text, or of a row beside its beneficiary
  MaxLost,     \* bound: rows lost one after the other
  Leading,
  Numbers,     \* house numbers
  Names        \* names of streets, sequences of words

(* The city's registration numbers have four to six digits, the short ones in January;
   DigitsOf knows rows up to 99. *)
ASSUME TextsAssumption ==
  /\ RegNumbers \subseteq UNION {[1..n -> 0..9] : n \in 4..6}
  /\ LastRow \in 1..99
  /\ Missing \notin Nat \cup RegNumbers

(* The number of a house begins with a digit.  A street whose name begins like the county
   or a kind of street, or has a number in it, is not told from them. *)
ASSUME AddressAssumption ==
  /\ Numbers \cap {"comma", "nr", "fn"} = {}
  /\ \A name \in Names :
       /\ name \in Seq(ToSet(name)) /\ name # <<>>
       /\ ToSet(name) \cap (Numbers \cup {"comma", "nr", "dash"}) = {}
       /\ Head(name) \notin {"judetul", "municipiul", "zona", "str"}
       /\ name \notin {<<"cluj">>, <<"cluj", "napoca">>}

VARIABLES
  text,     \* a title or purpose
  address,  \* an address, by its parts
  reader,   \* parse_agenda, after the lines so far
  row       \* the row the agenda is at: what it says, and what was lost

\* Named so that one module of proofs can extend this and MeetingSync.
textVars == <<text, address, reader, row>>

Agenda == INSTANCE AgendaText
Class  == INSTANCE Classification
Work   == INSTANCE WorkAddress WITH
            AdminWords  <- {"judetul", "municipiul"},
            StreetWords <- {"zona", "str"},
            NoNumbers   <- {<<"fn">>, <<"f", "n">>}


-----------------------------------------------------------------------------
(* A title or purpose gets one more word. *)
Vocabulary ==
  {"puz", "pud", "conform", "informare", "works", "ops", "oportunitate", "strada"}

AddWord(w) ==
  /\ row = Missing /\ address = Missing
  /\ Len(text) < MaxWords
  /\ text' = Append(text, w)
  /\ UNCHANGED <<address, reader, row>>

(* The abbreviations with dots between their letters; spelled out. *)
Written(words, how) ==
  FlattenSeq([i \in DOMAIN words |->
                IF words[i] \in DOMAIN how THEN how[words[i]] ELSE <<words[i]>>])

-----------------------------------------------------------------------------
(* How addresses are written: the kinds of street before the name, the number
   ("nr" before it or not, in a segment of its own or not), the county or city
   around it, more segments behind it. *)
Addresses ==
  [kinds:  BoundedSeq({"zona", "str"}, 3),
   name:   Names,
   number: {<<n>> : n \in Numbers} \cup {<<>>},
   style:  {"marked", "marked apart", "bare", "without"},
   before: {<<>>, << <<"judetul", "cluj">>, <<"cluj", "napoca">> >>},
   after:  {<<>>, << <<"municipiul", "cluj">> >>, << <<"bl", "7">> >>}]

Segments(a) ==
  LET street == a.kinds \o a.name
  IN a.before
     \o (CASE a.style = "marked"       -> << street \o <<"nr">> \o a.number >>
           [] a.style = "marked apart" -> << street, <<"nr">> \o a.number >>
           [] a.style = "bare"         -> << street \o a.number >>
           [] a.style = "without"      -> << street, <<"fn">> >>)
     \o a.after

(* An address without a number has none to mark. *)
WriteAddress(a) ==
  /\ row = Missing /\ text = <<>> /\ address = Missing
  /\ a.number = <<>> <=> a.style = "without"
  /\ address' = a
  /\ UNCHANGED <<text, reader, row>>

-----------------------------------------------------------------------------
(* The agenda is read from its letterhead or, where the extraction lost the
   heads of the columns, from its first line. *)
BeginAgenda(headed) ==
  /\ text = <<>> /\ address = Missing /\ row = Missing
  /\ reader' = Agenda!ReadLine(Agenda!Beginning(headed), [sort |-> "letterhead"])
  /\ row' = [nr |-> 0, reg |-> <<>>, words |-> <<>>, lost |-> 0, maxLost |-> 0, short |-> FALSE]
  /\ UNCHANGED <<text, address>>

Reads(line) ==
  /\ row # Missing
  /\ reader' = Agenda!ReadLine(reader, line)
  /\ UNCHANGED <<text, address>>

Columns ==
  /\ reader.at = "head"
  /\ Reads([sort |-> "columns"])
  /\ UNCHANGED row

(* The first line of a row; the extraction put a blank after its number or not. *)
PrintRow(reg, apart) ==
  /\ reader.at = "table"
  /\ row.nr < LastRow
  /\ Reads([sort |-> "row", nr |-> Agenda!DigitsOf(row.nr + 1), reg |-> reg,
            apart |-> apart, words |-> <<>>])
  /\ row' = [row EXCEPT !.nr = @ + 1, !.reg = reg, !.words = <<>>, !.lost = 0,
                        !.short = @ \/ (~apart /\ Len(reg) < 6)]

(* The first line of a row did not come out of the extraction. *)
LoseRow ==
  /\ reader.at = "table"
  /\ row.nr < LastRow
  /\ row.lost < MaxLost
  /\ row' = [row EXCEPT !.nr = @ + 1, !.reg = Missing, !.lost = @ + 1,
                        !.maxLost = IF row.lost + 1 > @ THEN row.lost + 1 ELSE @]
  /\ UNCHANGED <<text, address, reader>>

(* Another line of the row: one word of it is enough. *)
PrintWord(w) ==
  /\ reader.at = "table"
  /\ row.nr = 1 /\ row.reg # Missing
  /\ Len(row.words) < MaxWords
  /\ Reads([sort |-> "text", words |-> <<w>>])
  /\ row' = [row EXCEPT !.words = Append(@, w)]

(* The end of a sheet and the letterhead of the next. *)
TurnPage(sort) ==
  /\ Reads([sort |-> sort])
  /\ UNCHANGED row

Sign ==
  /\ reader.at = "table"
  /\ row.nr >= 1
  /\ Reads([sort |-> "footer"])
  /\ UNCHANGED row

(* What stands below the signature. *)
Below ==
  /\ reader.at = "end"
  /\ Reads([sort |-> "text", words |-> <<"plan">>])
  /\ UNCHANGED row

-----------------------------------------------------------------------------
TextsInit ==
  /\ text = <<>>
  /\ address = Missing
  /\ reader = Agenda!Beginning(TRUE)
  /\ row = Missing

TextsNext ==
  \/ \E w \in Vocabulary : AddWord(w)
  \/ \E a \in Addresses : WriteAddress(a)
  \/ \E headed \in BOOLEAN : BeginAgenda(headed)
  \/ Columns
  \/ \E reg \in RegNumbers, apart \in BOOLEAN : PrintRow(reg, apart)
  \/ LoseRow
  \/ \E w \in {"plan", "sc", "revenire"} : PrintWord(w)
  \/ \E sort \in {"blank", "letterhead"} : TurnPage(sort)
  \/ Sign
  \/ Below

TextsSpec == TextsInit /\ [][TextsNext]_textVars

-----------------------------------------------------------------------------
(* The kind of a project or certificate does not depend on how an abbreviation is
   written, "PUZ" or "P.U.Z"; for titles not even on whether it is spelled out.
   For a purpose that names one plan only: letters apart move what follows them out
   of the words leads_with_abbrev looks at. *)
WritingDoesNotMatter ==
  LET apart == Written(text, Class!Letters)
  IN /\ Class!ClassifyTitle(apart) = Class!ClassifyTitle(text)
     /\ Class!ClassifyTitle(Written(text, Class!Phrase)) = Class!ClassifyTitle(text)
     /\ Quantify(DOMAIN text, LAMBDA i : text[i] \in {"puz", "pud"}) <= 1
          => Class!ClassifyScop(apart) = Class!ClassifyScop(text)

(* Street and number come out of an address in every way of writing it, with the
   county before or the block behind it, and "FN" is no number. *)
AddressIsRead ==
  address # Missing =>
    Work!ParseWorkAddress(Segments(address))
      = [street |-> address.name, number |-> address.number]

(* The number and the registration number of a row are read right, glued together
   or not, as long as no row before was lost; and if registration numbers have six
   digits where they are glued, also behind up to eight lost rows: the count of the
   parser does not lead it astray. *)
NumbersAreRead ==
  (/\ row # Missing /\ row.nr > 0 /\ row.reg # Missing
   /\ row.maxLost = 0 \/ (row.maxLost <= 8 /\ ~row.short))
     => reader.block.nr = row.nr /\ reader.block.reg = row.reg

(* Beneficiary, description and "revenire" of a row are those of its words, each in its
   place, over the ends of lines and sheets, and nothing from below the signature. *)
RowsAreReadWhole ==
  (row # Missing /\ row.nr > 0 /\ row.reg # Missing) =>
    LET made    == Agenda!Assemble(reader.block.parts)
        said    == made.beneficiary \o made.description
        upTo(i) == {j \in 1..i : row.words[j] # "revenire"}
    IN /\ Len(said) = Cardinality(upTo(Len(row.words)))
       /\ \A i \in upTo(Len(row.words)) : said[Cardinality(upTo(i))] = row.words[i]
       /\ made.revenire <=> said # row.words
       /\ Contains(said, "plan") => Head(made.description) = "plan"
       /\ ~Contains(made.beneficiary, "plan")
=============================================================================
