----------------------------- MODULE MeetingSync -----------------------------
(***************************************************************************)
(* One meeting of the commission: process_meeting in                       *)
(* crates/core/src/sync.rs, match_rows in agenda.rs, write_meeting in      *)
(* db.rs.                                                                  *)
(*                                                                         *)
(* The page of a meeting shows a link to its agenda, a PDF whose rows say  *)
(* who asks for what, and a card for each project.  Either may appear      *)
(* first, and both change.  A run reads what is stored, then the page and  *)
(* what it still lacks, matches the rows with the cards and writes all of  *)
(* it in one transaction; every download may fail by itself.  Runs of the  *)
(* server and of the command line overlap.                                 *)
(*                                                                         *)
(* Agendas, rows and cards are numbered in the order in which they appear. *)
(* What a row gives to a project stands here for its description, which    *)
(* every row has; a row may lack the beneficiary or the registration       *)
(* number, and then those of the project stay.  The score of a row and a   *)
(* card stands for the words they share.  The links to conclusions and to  *)
(* the announcement, kept once found, are left out.                        *)
(***************************************************************************)
EXTENDS Integers, FiniteSets, TLC

CONSTANTS
  Runners,   \* the sync task of the server, the command line
  Agendas,   \* the files the agenda is published as, one after the other
  Scanned,   \* those of them without text
  Rows,
  RowsOf,    \* the rows of each agenda
  Cards,     \* the projects of the meeting
  Scores,    \* what the rows may score with the cards
  Threshold, \* MATCH_THRESHOLD
  None

Meeting == [agenda: Agendas \cup {None}, text: Agendas \cup {None}]
Item    == [row: Rows \cup {None}, docs: BOOLEAN]

ASSUME MeetingSyncAssumption ==
  /\ Agendas \cup Rows \cup Cards \subseteq Nat
  /\ Scores \subseteq [Rows \X Cards -> Nat]
  /\ Threshold \in Nat
  /\ Scanned \subseteq Agendas
  /\ RowsOf \in [Agendas -> SUBSET Rows]
  /\ IsFiniteSet(Rows) /\ IsFiniteSet(Cards)
  /\ None \notin Nat \cup Meeting \cup Item

VARIABLES
  site,     \* the page: its agenda and its cards
  recent,   \* whether the meeting is within refresh_days
  score,    \* of each row and card
  meeting,  \* its row in meetings: agenda_url, and the file agenda_text is of
  items,    \* the items, by card: the row that completed it, docs_fetched
  links,    \* agenda_rows: pairs of a row and its card, or None
  run       \* what each runner holds between two steps

vars == <<site, recent, score, meeting, items, links, run>>

Page == [agenda: Agendas \cup {None}, cards: SUBSET Cards]
Unknown == [agenda |-> None, text |-> None]
Idle    == [pc |-> "idle"]

Known == {c \in Cards : items[c] # None}

Goes(r, local) == run' = [run EXCEPT ![r] = local]

-----------------------------------------------------------------------------
(* The city changes the page; time passes. *)
PublishAgenda(a) ==
  /\ site.agenda \notin {b \in Agendas : a <= b}
  /\ site' = [site EXCEPT !.agenda = a]
  /\ UNCHANGED <<recent, score, meeting, items, links, run>>

PublishCard(c) ==
  /\ c \notin site.cards
  /\ site' = [site EXCEPT !.cards = @ \cup {c}]
  /\ UNCHANGED <<recent, score, meeting, items, links, run>>

GrowOld ==
  /\ recent
  /\ recent' = FALSE
  /\ UNCHANGED <<site, score, meeting, items, links, run>>

-----------------------------------------------------------------------------
(* match_rows: the pairs that score enough, the best first ... *)
Candidates(rows, cards) ==
  {p \in rows \X cards : score[p] >= Threshold}

(* Mutant: the sort is ascending. *)
WorstFirst(p, q) == score[p] < score[q]

Before(p, q) ==
  \/ score[p] > score[q]
  \/ score[p] = score[q] /\ p[1] < q[1]
  \/ score[p] = score[q] /\ p[1] = q[1] /\ p[2] < q[2]

Free(taken, p) == \A q \in taken : q[1] # p[1] /\ q[2] # p[2]

(* ... each taken when its row and its card are both still free. *)
Take(taken, p) == IF Free(taken, p) THEN taken \cup {p} ELSE taken

LastOf(pairs) == CHOOSE p \in pairs : \A q \in pairs : ~Before(p, q)

(* The loop; after[S] are those taken when it has gone through S. *)
Match(rows, cards) ==
  LET pairs == Candidates(rows, cards)
      after[S \in SUBSET pairs] ==
        IF S = {} THEN {} ELSE Take(after[S \ {LastOf(S)}], LastOf(S))
  IN after[pairs]

(* Mutant: a row without project is given an id all the same. *)
LinkedToZero(rows, matched) ==
  matched \cup {<<row, 0>> : row \in {w \in rows : \A p \in matched : p[1] # w}}

(* The rows that are written: all of them, linked or not. *)
Linked(rows, matched) ==
  matched \cup {<<row, None>> : row \in {w \in rows : \A p \in matched : p[1] # w}}

-----------------------------------------------------------------------------
(* run_inner: a meeting is processed when it is new or recent, or by a full run;
   meeting_summary is what is stored by now. *)
Begin(r, full) ==
  /\ run[r].pc = "idle"
  /\ full \/ meeting = None \/ recent
  /\ Goes(r, [pc |-> "page", full |-> full,
              existing |-> IF meeting = None THEN Unknown ELSE meeting])
  /\ UNCHANGED <<site, recent, score, meeting, items, links>>

(* The page of the meeting, as it is now. *)
FetchPage(r) ==
  /\ run[r].pc = "page"
  /\ Goes(r, [pc |-> "agenda", full |-> run[r].full, existing |-> run[r].existing,
              page |-> site])
  /\ UNCHANGED <<site, recent, score, meeting, items, links>>

(* There is a text, and the link to the agenda is the one stored. *)
Have(existing, agenda) == existing.text # None /\ existing.agenda = agenda

(* The download, or the extraction, fails. *)
Nothing == [new |-> None, rows |-> None]

(* What is read of the agenda: the file whose text is new to the database, and
   the one whose rows are matched. *)
Readings(full, existing, agenda) ==
  IF agenda = None THEN {Nothing}
  ELSE IF full \/ ~Have(existing, agenda)
  THEN {Nothing} \cup {[new |-> a, rows |-> a] : a \in {agenda} \ Scanned}
  ELSE {[new |-> None, rows |-> meeting.text]}

ReadAgenda(r) ==
  LET local == run[r]
  IN /\ local.pc = "agenda"
     /\ \E read \in Readings(local.full, local.existing, local.page.agenda) :
          Goes(r, [pc |-> "documents", full |-> local.full, page |-> local.page,
                   read |-> read])
     /\ UNCHANGED <<site, recent, score, meeting, items, links>>

(* Mutant: the documents are asked for when the project is met first. *)
NeedsDocsOnce(full, c) == full \/ items[c] = None

(* item_summaries: whose documents are not in the database. *)
NeedsDocs(full, c) == full \/ items[c] = None \/ ~items[c].docs

(* The pages of the projects, some of which cannot be downloaded. *)
FetchDocuments(r) ==
  LET local == run[r]
  IN /\ local.pc = "documents"
     /\ \E got \in SUBSET {c \in local.page.cards : NeedsDocs(local.full, c)} :
          Goes(r, [pc |-> "writing", page |-> local.page, read |-> local.read,
                   got |-> got])
     /\ UNCHANGED <<site, recent, score, meeting, items, links>>

(* Mutant: what is not known this time is written as NULL. *)
Overwrite(new, old) == new

Coalesce(new, old) == IF new = None THEN old ELSE new

(* The row of `items` for a card: completed by the row it is matched with. *)
Upserted(c, matched, got) ==
  LET old  == IF items[c] = None THEN [row |-> None, docs |-> FALSE] ELSE items[c]
      mine == {p[1] : p \in {q \in matched : q[2] = c}}
  IN [row  |-> Coalesce(IF mine = {} THEN None ELSE CHOOSE w \in mine : TRUE, old.row),
      docs |-> old.docs \/ c \in got]

(* write_meeting, in one transaction; without rows those stored stay. *)
Write(r) ==
  LET local   == run[r]
      old     == IF meeting = None THEN Unknown ELSE meeting
      rows    == IF local.read.rows = None THEN {} ELSE RowsOf[local.read.rows]
      matched == Match(rows, local.page.cards)
  IN /\ local.pc = "writing"
     /\ meeting' = [agenda |-> Coalesce(local.page.agenda, old.agenda),
                    text   |-> Coalesce(local.read.new, old.text)]
     /\ items' = [c \in Cards |-> IF c \in local.page.cards
                                  THEN Upserted(c, matched, local.got) ELSE items[c]]
     /\ links' = IF local.read.rows = None THEN links ELSE Linked(rows, matched)
     /\ Goes(r, Idle)
     /\ UNCHANGED <<site, recent, score>>

(* The page cannot be fetched, an error of the database, a restart. *)
Stop(r) ==
  /\ run[r].pc # "idle"
  /\ Goes(r, Idle)
  /\ UNCHANGED <<site, recent, score, meeting, items, links>>

-----------------------------------------------------------------------------
Init ==
  /\ site = [agenda |-> None, cards |-> {}]
  /\ recent = TRUE
  /\ score \in Scores
  /\ meeting = None
  /\ items = [c \in Cards |-> None]
  /\ links = {}
  /\ run = [r \in Runners |-> Idle]

Next ==
  \/ \E a \in Agendas : PublishAgenda(a)
  \/ \E c \in Cards : PublishCard(c)
  \/ GrowOld
  \/ \E r \in Runners :
       \/ \E full \in BOOLEAN : Begin(r, full)
       \/ FetchPage(r)
       \/ ReadAgenda(r)
       \/ FetchDocuments(r)
       \/ Write(r)
       \/ Stop(r)

Spec == Init /\ [][Next]_vars

-----------------------------------------------------------------------------
LocalStates ==
  LET Reading == [new: Agendas \cup {None}, rows: Agendas \cup {None}]
  IN {Idle}
     \cup [pc: {"page"}, full: BOOLEAN, existing: Meeting]
     \cup [pc: {"agenda"}, full: BOOLEAN, existing: Meeting, page: Page]
     \cup [pc: {"documents"}, full: BOOLEAN, page: Page, read: Reading]
     \cup [pc: {"writing"}, page: Page, read: Reading, got: SUBSET Cards]

TypeOK ==
  /\ site \in Page
  /\ recent \in BOOLEAN
  /\ score \in Scores
  /\ meeting \in Meeting \cup {None}
  /\ items \in [Cards -> Item \cup {None}]
  /\ links \subseteq Rows \X (Cards \cup {None})
  /\ run \in [Runners -> LocalStates]

(* A project to which a row of the agenda leads shows what that row describes
   (requirements.md:46-47), whatever failed to download since, whatever moved on
   the page, and whichever of two overlapping runs wrote last. *)
LinkedItemShowsItsRow ==
  \A p \in links : p[2] # None => items[p[2]] # None /\ items[p[2]].row = p[1]

(* The assignment is "unu-la-unu, cel mai bun scor întâi" (agenda.rs:286): a pair
   that scores enough is left out only for a better one with the same row or the
   same card. *)
AssignmentIsBest ==
  [][\A r \in Runners :
       Write(r) /\ run[r].read.rows # None =>
         LET taken == {p \in links' : p[2] # None}
             pairs == Candidates(RowsOf[run[r].read.rows], run[r].page.cards)
         IN /\ taken \subseteq pairs
            /\ \A p \in pairs \ taken :
                 \E q \in taken : score[q] >= score[p] /\ (q[1] = p[1] \/ q[2] = p[2])
            /\ \A p, q \in taken : p[1] = q[1] \/ p[2] = q[2] => p = q]_vars

(* "Când procesează o ședință, sistemul trebuie să descarce PDF-ul ordinii de zi"
   (requirements.md:42-43): the rows a run matches with the projects are those of
   the agenda the page of the meeting links to. *)
RowsAreOfTheAgenda ==
  \A r \in Runners :
    run[r].pc = "documents" /\ run[r].read.rows # None =>
      run[r].read.rows = run[r].page.agenda
=============================================================================
