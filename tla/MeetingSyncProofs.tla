------------------------- MODULE MeetingSyncProofs -------------------------
(***************************************************************************)
(* Proofs about MeetingSync: the assignment of the rows of an agenda to    *)
(* the cards of a page is the best one the loop of match_rows can make,    *)
(* and a project to which a row leads shows what the row says, for any     *)
(* number of runs, agendas, rows and cards and any scores.  And about what *)
(* such a run reads, Texts: parse_agenda gets the numbers and the words of *)
(* every row right, for any agenda of up to 99 rows; a title or purpose of *)
(* any length is filed the same however its abbreviations are written; and *)
(* street and number come out of an address in all the ways it is written. *)
(***************************************************************************)
EXTENDS MeetingSync, Texts, FiniteSetTheorems, SequenceTheorems, WellFoundedInduction, TLAPS

-----------------------------------------------------------------------------
(* Induction over the numbers, in the form the provers can use: of a set. *)
LEMMA NatInductionOfSet ==
  ASSUME NEW T \in SUBSET Nat, 0 \in T, \A n \in T : n + 1 \in T
  PROVE  T = Nat
<1> SUFFICES ASSUME Nat \ T # {} PROVE FALSE
  OBVIOUS
<1>1. PICK n \in Nat \ T : \A m \in Nat \ T : ~ (<<m, n>> \in OpToRel(<, Nat))
  BY NatLessThanWellFounded, WFMin, Zenon
<1>2. n # 0 /\ n - 1 \in Nat /\ n - 1 < n
  OBVIOUS
<1>3. n - 1 \in T
  BY <1>1, <1>2 DEF OpToRel
<1>4. (n - 1) + 1 = n
  OBVIOUS
<1> QED
  BY <1>3, <1>4

-----------------------------------------------------------------------------
Pairs == Rows \X Cards

LEMMA PairsFinite == IsFiniteSet(Pairs)
  BY FS_Product, MeetingSyncAssumption DEF Pairs

LEMMA CandidatesArePairs ==
  ASSUME NEW rows \in SUBSET Rows, NEW cards \in SUBSET Cards
  PROVE  /\ Candidates(rows, cards) \in SUBSET Pairs
         /\ Candidates(rows, cards) \subseteq rows \X cards
         /\ IsFiniteSet(Candidates(rows, cards))
<1>1. Candidates(rows, cards) \subseteq rows \X cards
  BY DEF Candidates
<1>2. rows \X cards \subseteq Pairs
  BY DEF Pairs
<1> QED
  BY <1>1, <1>2, PairsFinite, FS_Subset

(* The sort of match_rows is a strict total order. *)
LEMMA BeforeOrders ==
  ASSUME score \in [Pairs -> Nat]
  PROVE  /\ \A p \in Pairs : ~Before(p, p)
         /\ \A p, q, w \in Pairs : Before(p, q) /\ Before(q, w) => Before(p, w)
         /\ \A p, q \in Pairs : p # q => Before(p, q) \/ Before(q, p)
         /\ \A p, q \in Pairs : Before(p, q) => score[p] >= score[q]
<1> DEFINE at(p) == score[p]
<1>1. \A p \in Pairs : /\ score[p] \in Nat /\ p[1] \in Nat /\ p[2] \in Nat
                       /\ p = <<p[1], p[2]>>
  BY MeetingSyncAssumption DEF Pairs
<1>2. \A p, q \in Pairs : p # q => p[1] # q[1] \/ p[2] # q[2]
  BY <1>1
<1> QED
  BY <1>1, <1>2 DEF Before

(* One of finitely many pairs comes last. *)
LEMMA LastOfPairs ==
  ASSUME score \in [Pairs -> Nat], NEW S \in SUBSET Pairs, S # {}
  PROVE  /\ LastOf(S) \in S
         /\ \A q \in S \ {LastOf(S)} : Before(q, LastOf(S))
<1> DEFINE After(p) == {q \in S : Before(p, q)}
           T == {Cardinality(After(p)) : p \in S}
<1>1. IsFiniteSet(S)
  BY PairsFinite, FS_Subset
<1>2. \A p \in S : IsFiniteSet(After(p)) /\ Cardinality(After(p)) \in Nat
  BY <1>1, FS_Subset, FS_CardinalityType
<1>3. T \subseteq Nat /\ T # {}
  BY <1>2
<1>4. PICK n \in T : \A m \in T : ~ (<<m, n>> \in OpToRel(<, Nat))
  BY <1>3, NatLessThanWellFounded, WFMin, Zenon
<1>5. PICK p \in S : n = Cardinality(After(p))
  OBVIOUS
<1>6. ASSUME NEW q \in S, Before(p, q)
      PROVE  FALSE
  <2>1. After(q) \subseteq After(p)
    BY <1>6, BeforeOrders
  <2>2. q \in After(p) /\ q \notin After(q)
    BY <1>6, BeforeOrders
  <2>3. Cardinality(After(q)) < Cardinality(After(p))
    BY <1>2, <2>1, <2>2, FS_Subset
  <2>4. Cardinality(After(q)) \in T /\ Cardinality(After(q)) \in Nat
    BY <1>2
  <2> QED
    BY <1>3, <1>4, <1>5, <2>3, <2>4 DEF OpToRel
<1>7. \E w \in S : \A q \in S : ~Before(w, q)
  BY <1>6
<1>8. LastOf(S) \in S /\ \A q \in S : ~Before(LastOf(S), q)
  BY <1>7 DEF LastOf
<1> QED
  BY <1>8, BeforeOrders

-----------------------------------------------------------------------------
(* One turn of the loop of match_rows, over what the turns before have left. *)
Turn(after, S) ==
  IF S = {} THEN {} ELSE Take(after[S \ {LastOf(S)}], LastOf(S))

(* The sets of at most n candidates: what n turns go through. *)
Within(pairs, n) == {S \in SUBSET pairs : Cardinality(S) <= n}

LEMMA OneLess ==
  ASSUME score \in [Pairs -> Nat], NEW pairs \in SUBSET Pairs, NEW n \in Nat,
         NEW S \in Within(pairs, n + 1), S # {}
  PROVE  S \ {LastOf(S)} \in Within(pairs, n)
<1>1. S \in SUBSET Pairs /\ S \in SUBSET pairs /\ Cardinality(S) <= n + 1
  BY DEF Within
<1>2. IsFiniteSet(S) /\ Cardinality(S) \in Nat
  BY <1>1, PairsFinite, FS_Subset, FS_CardinalityType
<1>3. LastOf(S) \in S
  BY <1>1, LastOfPairs
<1>4. Cardinality(S \ {LastOf(S)}) = Cardinality(S) - 1
  BY <1>2, <1>3, FS_RemoveElement
<1>5. Cardinality(S \ {LastOf(S)}) <= n
  BY <1>1, <1>2, <1>4
<1> QED
  BY <1>1, <1>5 DEF Within

(* The loop ends: it has a result after any number of turns. *)
LEMMA LoopEnds ==
  ASSUME score \in [Pairs -> Nat], NEW pairs \in SUBSET Pairs
  PROVE  \E after : after = [S \in SUBSET pairs |-> Turn(after, S)]
<1> DEFINE Runs(n) == \E after : after = [S \in Within(pairs, n) |-> Turn(after, S)]
           T == {n \in Nat : Runs(n)}
<1>0. IsFiniteSet(pairs) /\ Cardinality(pairs) \in Nat
  BY PairsFinite, FS_Subset, FS_CardinalityType
<1>1. \A S \in SUBSET pairs : IsFiniteSet(S) /\ Cardinality(S) \in Nat
  BY <1>0, FS_Subset, FS_CardinalityType
<1>2. 0 \in T
  <2>1. Within(pairs, 0) = {{}}
    BY <1>1, FS_EmptySet DEF Within
  <2> DEFINE f == [S \in Within(pairs, 0) |-> {}]
  <2>2. f = [S \in Within(pairs, 0) |-> Turn(f, S)]
    BY <2>1 DEF Turn
  <2> QED
    BY <2>2
<1>3. ASSUME NEW n \in T
      PROVE  n + 1 \in T
  <2>1. PICK f : f = [S \in Within(pairs, n) |-> Turn(f, S)]
    OBVIOUS
  <2> DEFINE g == [S \in Within(pairs, n + 1) |->
                     IF S \in Within(pairs, n) THEN f[S] ELSE Turn(f, S)]
  <2>2. ASSUME NEW S \in Within(pairs, n + 1), S # {}
        PROVE  S \ {LastOf(S)} \in Within(pairs, n)
    BY <2>2, OneLess
  <2>3. \A S \in Within(pairs, n) : S \in Within(pairs, n + 1)
    BY <1>1 DEF Within
  <2>4. ASSUME NEW S \in Within(pairs, n + 1)
        PROVE  g[S] = Turn(g, S)
    <3>0. S \in Within(pairs, n) => f[S] = Turn(f, S)
      BY <2>1, Zenon
    <3>1. g[S] = Turn(f, S)
      BY <3>0
    <3>2. CASE S = {}
      BY <3>1, <3>2 DEF Turn
    <3>3. CASE S # {}
      <4>1. g[S \ {LastOf(S)}] = f[S \ {LastOf(S)}]
        BY <2>2, <2>3, <3>3
      <4> QED
        BY <3>1, <4>1 DEF Turn
    <3> QED
      BY <3>2, <3>3
  <2>5. g = [S \in Within(pairs, n + 1) |-> Turn(g, S)]
    BY <2>4
  <2>6. Runs(n + 1)
    BY <2>5
  <2> QED
    BY <2>6
<1>4. T = Nat
  BY <1>2, <1>3, NatInductionOfSet
<1>5. Runs(Cardinality(pairs))
  BY <1>0, <1>4
<1>6. Within(pairs, Cardinality(pairs)) = SUBSET pairs
  BY <1>0, FS_Subset DEF Within
<1> QED
  BY <1>5, <1>6

LEMMA MatchLoops ==
  ASSUME score \in [Pairs -> Nat],
         NEW rows \in SUBSET Rows, NEW cards \in SUBSET Cards
  PROVE  \E after : /\ after = [S \in SUBSET Candidates(rows, cards) |-> Turn(after, S)]
                    /\ Match(rows, cards) = after[Candidates(rows, cards)]
<1> DEFINE pairs == Candidates(rows, cards)
           Loop(f) == f = [S \in SUBSET pairs |-> Turn(f, S)]
           after == CHOOSE f : Loop(f)
<1>1. \E f : Loop(f)
  BY CandidatesArePairs, LoopEnds
<1>2. Loop(after)
  BY <1>1
<1>3. Match(rows, cards) = after[pairs]
  BY DEF Match, Turn
<1> QED
  BY <1>2, <1>3

(* What the loop promises of the pairs it has gone through. *)
Best(pairs, taken) ==
  /\ taken \subseteq pairs
  /\ \A p \in pairs \ taken :
       \E q \in taken : score[q] >= score[p] /\ (q[1] = p[1] \/ q[2] = p[2])
  /\ \A p, q \in taken : p[1] = q[1] \/ p[2] = q[2] => p = q

(* A turn takes the next pair if it can; those before it scored no less. *)
LEMMA TurnKeepsBest ==
  ASSUME score \in [Pairs -> Nat], NEW S \in SUBSET Pairs, S # {},
         NEW taken, Best(S \ {LastOf(S)}, taken)
  PROVE  Best(S, Take(taken, LastOf(S)))
<1> DEFINE p == LastOf(S)
<1>1. p \in S /\ \A q \in S \ {p} : Before(q, p)
  BY LastOfPairs
<1>2. \A q \in S \ {p} : score[q] >= score[p]
  BY <1>1, BeforeOrders
<1> HIDE DEF p
<1>3. taken \subseteq S \ {p}
  BY DEF Best, p
<1>4. CASE Free(taken, p)
  <2>1. Take(taken, p) = taken \cup {p}
    BY <1>4 DEF Take
  <2> QED
    BY <1>1, <1>3, <1>4, <2>1 DEF Best, Free, p
<1>5. CASE ~Free(taken, p)
  <2>1. Take(taken, p) = taken
    BY <1>5 DEF Take
  <2>2. \E q \in taken : score[q] >= score[p] /\ (q[1] = p[1] \/ q[2] = p[2])
    BY <1>2, <1>3, <1>5 DEF Free
  <2> QED
    BY <1>1, <1>3, <2>1, <2>2 DEF Best, p
<1> QED
  BY <1>4, <1>5 DEF p

(* The assignment is one to one, and a pair that scores enough is left out only for
   a better one with the same row or the same card. *)
LEMMA MatchIsBest ==
  ASSUME score \in [Pairs -> Nat],
         NEW rows \in SUBSET Rows, NEW cards \in SUBSET Cards
  PROVE  Best(Candidates(rows, cards), Match(rows, cards))
<1> DEFINE pairs == Candidates(rows, cards)
<1>0. pairs \in SUBSET Pairs
  BY CandidatesArePairs
<1>1. PICK after : /\ after = [S \in SUBSET pairs |-> Turn(after, S)]
                   /\ Match(rows, cards) = after[pairs]
  BY MatchLoops
<1> HIDE DEF pairs
<1> DEFINE Holds(n) == \A S \in Within(pairs, n) : Best(S, after[S])
           T == {n \in Nat : Holds(n)}
<1>2. \A S \in SUBSET pairs : IsFiniteSet(S) /\ Cardinality(S) \in Nat
  BY <1>0, PairsFinite, FS_Subset, FS_CardinalityType
<1>3. Best({}, after[{}])
  BY <1>1 DEF Turn, Best
<1>4. 0 \in T
  <2>1. Within(pairs, 0) = {{}}
    BY <1>2, FS_EmptySet DEF Within
  <2> QED
    BY <1>3, <2>1
<1>5. ASSUME NEW n \in T
      PROVE  n + 1 \in T
  <2>1. ASSUME NEW S \in Within(pairs, n + 1), S # {}
        PROVE  Best(S, after[S])
    <3>1. S \in SUBSET pairs
      BY DEF Within
    <3>3. S \ {LastOf(S)} \in Within(pairs, n)
      BY <1>0, <2>1, OneLess
    <3>4. after[S] = Take(after[S \ {LastOf(S)}], LastOf(S))
      BY <1>1, <2>1, <3>1 DEF Turn
    <3>5. Best(S \ {LastOf(S)}, after[S \ {LastOf(S)}])
      BY <3>3
    <3>6. S \in SUBSET Pairs
      BY <1>0, <3>1
    <3> QED
      BY <2>1, <3>4, <3>5, <3>6, TurnKeepsBest
  <2>2. Holds(n + 1)
    BY <1>3, <2>1
  <2> QED
    BY <2>2
<1>6. T = Nat
  BY <1>4, <1>5, NatInductionOfSet
<1>7. Holds(Cardinality(pairs)) /\ pairs \in Within(pairs, Cardinality(pairs))
  BY <1>2, <1>6 DEF Within
<1> QED
  BY <1>1, <1>7 DEF pairs
-----------------------------------------------------------------------------
(* A run that has read of a text of the meeting finds the meeting in the table. *)
MeetingStays ==
  \A r \in Runners :
    run[r].pc \in {"page", "agenda"} /\ run[r].existing # Unknown => meeting # None

Typed == TypeOK /\ MeetingStays

LEMMA ScoreType ==
  ASSUME TypeOK
  PROVE  score \in [Pairs -> Nat]
  BY MeetingSyncAssumption DEF TypeOK, Pairs

LEMMA MatchType ==
  ASSUME TypeOK, NEW rows \in SUBSET Rows, NEW cards \in SUBSET Cards
  PROVE  /\ Match(rows, cards) \subseteq rows \X cards
         /\ \A p, q \in Match(rows, cards) : p[1] = q[1] \/ p[2] = q[2] => p = q
  BY ScoreType, MatchIsBest, CandidatesArePairs DEF Best

(* The local states, each by its own set. *)
LEMMA LocalStateOf ==
  ASSUME TypeOK, NEW r \in Runners
  PROVE  /\ run[r].pc = "page" => run[r].full \in BOOLEAN /\ run[r].existing \in Meeting
         /\ run[r].pc = "agenda" => /\ run[r].full \in BOOLEAN
                                    /\ run[r].existing \in Meeting
                                    /\ run[r].page \in Page
         /\ run[r].pc = "documents" =>
              /\ run[r].full \in BOOLEAN
              /\ run[r].page \in Page
              /\ run[r].read \in [new: Agendas \cup {None}, rows: Agendas \cup {None}]
         /\ run[r].pc = "writing" =>
              /\ run[r].page \in Page
              /\ run[r].read \in [new: Agendas \cup {None}, rows: Agendas \cup {None}]
              /\ run[r].got \in SUBSET Cards
<1>1. run[r] \in LocalStates
  BY DEF TypeOK
<1> QED
  BY <1>1 DEF LocalStates, Idle

(* What a row of the agenda leads to is written into the project. *)
LEMMA UpsertedShows ==
  ASSUME TypeOK, NEW c \in Cards, NEW got,
         NEW rows \in SUBSET Rows, NEW cards \in SUBSET Cards
  PROVE  LET matched == Match(rows, cards)
         IN /\ Upserted(c, matched, got) \in Item
            /\ \A p \in matched : p[2] = c => Upserted(c, matched, got).row = p[1]
            /\ (\A p \in matched : p[2] # c) =>
                 Upserted(c, matched, got).row =
                   IF items[c] = None THEN None ELSE items[c].row
<1> DEFINE matched == Match(rows, cards)
           mine == {p[1] : p \in {q \in matched : q[2] = c}}
           old == IF items[c] = None THEN [row |-> None, docs |-> FALSE] ELSE items[c]
           own == IF mine = {} THEN None ELSE CHOOSE w \in mine : TRUE
<1>1. mine \subseteq Rows
  BY MatchType
<1>2. old \in Item
  BY DEF TypeOK, Item
<1>3. own \in Rows \cup {None} /\ (mine # {} => own \in mine)
  BY <1>1
<1>4. None \notin Rows
  BY MeetingSyncAssumption
<1>5. Upserted(c, matched, got)
        = [row |-> Coalesce(own, old.row), docs |-> old.docs \/ c \in got]
  BY DEF Upserted
<1>6. ASSUME NEW p \in matched, p[2] = c
      PROVE  own = p[1]
  <2>1. p[1] \in mine
    BY <1>6
  <2>2. \A w \in mine : w = p[1]
    BY <1>6, MatchType
  <2> QED
    BY <1>3, <2>1, <2>2
<1>7. (\A p \in matched : p[2] # c) => mine = {}
  OBVIOUS
<1> HIDE DEF matched, mine, own
<1>8. Upserted(c, matched, got) \in Item
  BY <1>2, <1>3, <1>5 DEF Item, Coalesce
<1>9. \A p \in matched : p[2] = c => Upserted(c, matched, got).row = p[1]
  <2>1. ASSUME NEW p \in matched, p[2] = c
        PROVE  own # None
    BY <1>1, <1>3, <1>4, <1>6, <2>1 DEF mine
  <2> QED
    BY <1>5, <1>6, <2>1 DEF Coalesce
<1>10. (\A p \in matched : p[2] # c) =>
          Upserted(c, matched, got).row = IF items[c] = None THEN None ELSE items[c].row
  BY <1>5, <1>7 DEF Coalesce, own
<1> QED
  BY <1>8, <1>9, <1>10 DEF matched
(* What a run that writes takes from the agenda it has read. *)
RowsRead(r) == IF run[r].read.rows = None THEN {} ELSE RowsOf[run[r].read.rows]

LEMMA WriteOf ==
  ASSUME TypeOK, NEW r \in Runners, Write(r)
  PROVE  LET cards   == run[r].page.cards
             matched == Match(RowsRead(r), cards)
         IN /\ RowsRead(r) \in SUBSET Rows /\ cards \in SUBSET Cards
            /\ meeting' \in Meeting
            /\ items' = [c \in Cards |-> IF c \in cards
                                         THEN Upserted(c, matched, run[r].got)
                                         ELSE items[c]]
            /\ links' = IF run[r].read.rows = None THEN links
                        ELSE Linked(RowsRead(r), matched)
            /\ run' = [run EXCEPT ![r] = Idle]
            /\ UNCHANGED <<site, recent, score>>
<1>1. run[r].pc = "writing"
  BY DEF Write
<1>2. /\ run[r].page \in Page
      /\ run[r].read \in [new: Agendas \cup {None}, rows: Agendas \cup {None}]
  BY <1>1, LocalStateOf
<1>3. RowsRead(r) \in SUBSET Rows /\ run[r].page.cards \in SUBSET Cards
  BY <1>2, MeetingSyncAssumption DEF RowsRead, Page
<1>4. meeting' \in Meeting
  BY <1>2 DEF Write, TypeOK, Meeting, Page, Unknown, Coalesce
<1> QED
  BY <1>3, <1>4 DEF Write, RowsRead, Goes

LEMMA TypedStep ==
  ASSUME Typed, [Next]_vars
  PROVE  Typed'
<1> USE DEF Typed
<1>1. Idle \in LocalStates /\ Unknown \in Meeting
  BY DEF LocalStates, Unknown, Meeting
<1>2. ASSUME NEW r \in Runners, NEW local \in LocalStates, Goes(r, local),
             UNCHANGED <<site, recent, score, meeting, items, links>>,
             local.pc \in {"page", "agenda"} /\ local.existing # Unknown => meeting # None
      PROVE  Typed'
  <2>1. run' \in [Runners -> LocalStates]
    BY <1>2 DEF TypeOK, Goes
  <2>2. TypeOK'
    BY <1>2, <2>1 DEF TypeOK
  <2>3. MeetingStays'
    BY <1>2 DEF MeetingStays, Goes, TypeOK
  <2> QED
    BY <2>2, <2>3
<1>3. ASSUME NEW a \in Agendas, PublishAgenda(a)
      PROVE  Typed'
  BY <1>3 DEF PublishAgenda, TypeOK, Page, MeetingStays
<1>4. ASSUME NEW c \in Cards, PublishCard(c)
      PROVE  Typed'
  BY <1>4 DEF PublishCard, TypeOK, Page, MeetingStays
<1>5. CASE GrowOld
  BY <1>5 DEF GrowOld, TypeOK, MeetingStays
<1>6. ASSUME NEW r \in Runners, NEW full \in BOOLEAN, Begin(r, full)
      PROVE  Typed'
  <2> DEFINE existing == IF meeting = None THEN Unknown ELSE meeting
             local == [pc |-> "page", full |-> full, existing |-> existing]
  <2>1. existing \in Meeting
    BY <1>1 DEF TypeOK
  <2>2. local \in LocalStates
    BY <2>1 DEF LocalStates
  <2>3. Goes(r, local) /\ UNCHANGED <<site, recent, score, meeting, items, links>>
    BY <1>6 DEF Begin
  <2> QED
    BY <1>2, <2>2, <2>3
<1>7. ASSUME NEW r \in Runners, FetchPage(r)
      PROVE  Typed'
  <2> DEFINE local == [pc |-> "agenda", full |-> run[r].full,
                       existing |-> run[r].existing, page |-> site]
  <2>1. run[r].pc = "page"
    BY <1>7 DEF FetchPage
  <2>2. local \in LocalStates
    BY <2>1, LocalStateOf DEF LocalStates, TypeOK
  <2>3. Goes(r, local) /\ UNCHANGED <<site, recent, score, meeting, items, links>>
    BY <1>7 DEF FetchPage
  <2>4. local.existing # Unknown => meeting # None
    BY <2>1 DEF MeetingStays
  <2> QED
    BY <1>2, <2>2, <2>3, <2>4
<1>8. ASSUME NEW r \in Runners, ReadAgenda(r)
      PROVE  Typed'
  <2>1. run[r].pc = "agenda"
    BY <1>8 DEF ReadAgenda
  <2>2. /\ run[r].full \in BOOLEAN /\ run[r].existing \in Meeting
        /\ run[r].page \in Page
    BY <2>1, LocalStateOf
  <2>3. PICK read \in Readings(run[r].full, run[r].existing, run[r].page.agenda) :
          Goes(r, [pc |-> "documents", full |-> run[r].full, page |-> run[r].page,
                   read |-> read])
    BY <1>8 DEF ReadAgenda
  <2>4. Have(run[r].existing, run[r].page.agenda) => meeting \in Meeting
    BY <2>1 DEF MeetingStays, Have, Unknown, TypeOK
  <2>5. read \in [new: Agendas \cup {None}, rows: Agendas \cup {None}]
    <3>1. run[r].page.agenda \in Agendas \cup {None}
      BY <2>2 DEF Page
    <3> QED
      BY <2>3, <2>4, <3>1 DEF Readings, Nothing, Meeting
  <2> DEFINE local == [pc |-> "documents", full |-> run[r].full, page |-> run[r].page,
                       read |-> read]
  <2>6. local \in LocalStates
    BY <2>2, <2>5 DEF LocalStates
  <2>7. UNCHANGED <<site, recent, score, meeting, items, links>>
    BY <1>8 DEF ReadAgenda
  <2> QED
    BY <1>2, <2>3, <2>6, <2>7
<1>9. ASSUME NEW r \in Runners, FetchDocuments(r)
      PROVE  Typed'
  <2>1. run[r].pc = "documents"
    BY <1>9 DEF FetchDocuments
  <2>2. /\ run[r].page \in Page
        /\ run[r].read \in [new: Agendas \cup {None}, rows: Agendas \cup {None}]
    BY <2>1, LocalStateOf
  <2>3. PICK got \in SUBSET {c \in run[r].page.cards : NeedsDocs(run[r].full, c)} :
          Goes(r, [pc |-> "writing", page |-> run[r].page, read |-> run[r].read,
                   got |-> got])
    BY <1>9 DEF FetchDocuments
  <2> DEFINE local == [pc |-> "writing", page |-> run[r].page, read |-> run[r].read,
                       got |-> got]
  <2>4. got \in SUBSET Cards
    BY <2>2 DEF Page
  <2>5. local \in LocalStates
    BY <2>2, <2>4 DEF LocalStates
  <2>6. UNCHANGED <<site, recent, score, meeting, items, links>>
    BY <1>9 DEF FetchDocuments
  <2> QED
    BY <1>2, <2>3, <2>5, <2>6
<1>10. ASSUME NEW r \in Runners, Write(r)
       PROVE  Typed'
  <2> DEFINE cards == run[r].page.cards
             matched == Match(RowsRead(r), cards)
  <2>0. /\ RowsRead(r) \in SUBSET Rows /\ cards \in SUBSET Cards
        /\ meeting' \in Meeting
        /\ items' = [c \in Cards |-> IF c \in cards
                                     THEN Upserted(c, matched, run[r].got) ELSE items[c]]
        /\ links' = IF run[r].read.rows = None THEN links
                    ELSE Linked(RowsRead(r), matched)
        /\ run' = [run EXCEPT ![r] = Idle]
        /\ UNCHANGED <<site, recent, score>>
    BY <1>10, WriteOf
  <2>1. items' \in [Cards -> Item \cup {None}]
    BY <2>0, UpsertedShows DEF TypeOK
  <2>2. matched \subseteq RowsRead(r) \X cards
    BY <2>0, MatchType
  <2>3. links' \subseteq Rows \X (Cards \cup {None})
    <3> HIDE DEF matched
    <3> QED
      BY <2>0, <2>2 DEF Linked, TypeOK
  <2>4. run' \in [Runners -> LocalStates]
    BY <1>1, <2>0 DEF TypeOK
  <2>5. MeetingStays'
    BY <2>0, MeetingSyncAssumption DEF MeetingStays
  <2>6. TypeOK'
    BY <2>0, <2>1, <2>3, <2>4 DEF TypeOK
  <2> QED
    BY <2>5, <2>6
<1>11. ASSUME NEW r \in Runners, Stop(r)
       PROVE  Typed'
  BY <1>1, <1>2, <1>11 DEF Stop, Idle
<1>12. CASE UNCHANGED vars
  BY <1>12 DEF vars, TypeOK, MeetingStays
<1> QED
  BY <1>3, <1>4, <1>5, <1>6, <1>7, <1>8, <1>9, <1>10, <1>11, <1>12 DEF Next

LEMMA AlwaysTyped == Spec => []Typed
<1>1. Init => Typed
  BY DEF Init, Typed, TypeOK, MeetingStays, Page, LocalStates, Idle
<1>2. Typed /\ [Next]_vars => Typed'
  BY TypedStep
<1> QED
  BY <1>1, <1>2, PTL DEF Spec

(* What is stored, and what a run holds between its steps, is well-formed: a run that
   goes on with the text of a meeting finds the meeting in the table. *)
THEOREM TypeCorrect == Spec => []TypeOK
  BY AlwaysTyped, PTL DEF Typed

-----------------------------------------------------------------------------
(* A project to which a row of the agenda leads shows what that row describes,
   whichever of two overlapping runs wrote last and whatever could not be read. *)
THEOREM LinkedItemsShowTheirRow == Spec => []LinkedItemShowsItsRow
<1>1. Init => LinkedItemShowsItsRow
  BY DEF Init, LinkedItemShowsItsRow
<1>2. Typed /\ LinkedItemShowsItsRow /\ [Next]_vars => LinkedItemShowsItsRow'
  <2> SUFFICES ASSUME Typed, LinkedItemShowsItsRow, [Next]_vars
               PROVE  LinkedItemShowsItsRow'
    OBVIOUS
  <2>1. CASE UNCHANGED <<items, links>>
    BY <2>1 DEF LinkedItemShowsItsRow
  <2>2. ASSUME NEW r \in Runners, Write(r)
        PROVE  LinkedItemShowsItsRow'
    <3> DEFINE cards == run[r].page.cards
               matched == Match(RowsRead(r), cards)
    <3>0. /\ RowsRead(r) \in SUBSET Rows /\ cards \in SUBSET Cards
          /\ items' = [c \in Cards |-> IF c \in cards
                                       THEN Upserted(c, matched, run[r].got) ELSE items[c]]
          /\ links' = IF run[r].read.rows = None THEN links
                      ELSE Linked(RowsRead(r), matched)
      BY <2>2, WriteOf DEF Typed
    <3>1. matched \subseteq RowsRead(r) \X cards
      BY <3>0, MatchType DEF Typed
    <3>2. None \notin Item /\ links \subseteq Rows \X (Cards \cup {None})
      BY MeetingSyncAssumption DEF Typed, TypeOK
    <3>3. \A c \in Cards :
            /\ Upserted(c, matched, run[r].got) \in Item
            /\ \A p \in matched : p[2] = c => Upserted(c, matched, run[r].got).row = p[1]
            /\ (\A p \in matched : p[2] # c) =>
                 Upserted(c, matched, run[r].got).row =
                   IF items[c] = None THEN None ELSE items[c].row
      BY <3>0, UpsertedShows DEF Typed
    <3> HIDE DEF matched
    <3>4. CASE run[r].read.rows = None
      <4>1. links' = links /\ matched = {}
        BY <3>0, <3>1, <3>4 DEF RowsRead
      <4> QED
        BY <3>0, <3>2, <3>3, <4>1 DEF LinkedItemShowsItsRow
    <3>5. CASE run[r].read.rows # None
      <4>1. \A p \in links' : p[2] # None => p \in matched
        BY <3>0, <3>5 DEF Linked
      <4> QED
        BY <3>0, <3>1, <3>2, <3>3, <4>1 DEF LinkedItemShowsItsRow
    <3> QED
      BY <3>4, <3>5
  <2> QED
    BY <2>1, <2>2 DEF Next, PublishAgenda, PublishCard, GrowOld, Begin, FetchPage,
                      ReadAgenda, FetchDocuments, Stop, vars
<1> QED
  BY <1>1, <1>2, AlwaysTyped, PTL DEF Spec

-----------------------------------------------------------------------------
(* Every run that has rows to match writes the best assignment of them to the cards
   it has seen: one to one, and no better pair left out for a worse one. *)
THEOREM AssignmentsAreBest == Spec => AssignmentIsBest
<1> DEFINE Settled(r) ==
             LET taken == {p \in links' : p[2] # None}
                 pairs == Candidates(RowsOf[run[r].read.rows], run[r].page.cards)
             IN /\ taken \subseteq pairs
                /\ \A p \in pairs \ taken :
                     \E q \in taken : score[q] >= score[p] /\ (q[1] = p[1] \/ q[2] = p[2])
                /\ \A p, q \in taken : p[1] = q[1] \/ p[2] = q[2] => p = q
<1>1. ASSUME TypeOK, NEW r \in Runners, Write(r), run[r].read.rows # None
      PROVE  Settled(r)
  <2> DEFINE cards == run[r].page.cards
             matched == Match(RowsRead(r), cards)
  <2>1. /\ RowsRead(r) \in SUBSET Rows /\ cards \in SUBSET Cards
        /\ links' = Linked(RowsRead(r), matched)
        /\ RowsRead(r) = RowsOf[run[r].read.rows]
    BY <1>1, WriteOf DEF RowsRead
  <2>2. Best(Candidates(RowsRead(r), cards), matched)
    BY <1>1, <2>1, ScoreType, MatchIsBest
  <2>3. matched \subseteq RowsRead(r) \X cards
    BY <1>1, <2>1, MatchType
  <2>4. None \notin Cards
    BY MeetingSyncAssumption
  <2> HIDE DEF matched
  <2>5. {p \in links' : p[2] # None} = matched
    BY <2>1, <2>3, <2>4 DEF Linked
  <2> QED
    BY <2>1, <2>2, <2>5 DEF Best
<1>2. TypeOK /\ [Next]_vars =>
        [\A r \in Runners : Write(r) /\ run[r].read.rows # None => Settled(r)]_vars
  BY <1>1
<1> QED
  BY <1>2, TypeCorrect, PTL DEF Spec, AssignmentIsBest

-----------------------------------------------------------------------------
(* Texts: an agenda read by parse_agenda while it is written.  The digits of a number,
   put together again. *)
LEMMA NumberOfDigit ==
  ASSUME NEW a \in Nat
  PROVE  Agenda!RowNr(<<a>>) = a
<1> DEFINE d == <<a>>
           Is(f) == f = [n \in 0..Len(d) |-> IF n = 0 THEN 0 ELSE 10 * f[n - 1] + d[n]]
           g == [n \in 0..1 |-> IF n = 0 THEN 0 ELSE a]
           f == CHOOSE f : Is(f)
<1>1. Len(d) = 1 /\ d[1] = a
  OBVIOUS
<1>2. Is(g)
  BY <1>1
<1> HIDE DEF d
<1>3. Is(f)
  <2> HIDE DEF Is, g
  <2> QED
    BY <1>2
<1>4. f[0] = 0 /\ f[1] = a
  <2> HIDE DEF f
  <2>1. f = [n \in 0..1 |-> IF n = 0 THEN 0 ELSE 10 * f[n - 1] + d[n]]
    BY <1>1, <1>3
  <2>2. f[0] = 0
    BY <2>1
  <2>3. f[1] = 10 * f[1 - 1] + d[1]
    BY <2>1
  <2> QED
    BY <1>1, <2>2, <2>3
<1>5. Agenda!RowNr(d) = f[Len(d)]
  BY DEF Agenda!RowNr
<1> HIDE DEF f
<1> QED
  BY <1>1, <1>4, <1>5 DEF d

LEMMA NumberOfDigits ==
  ASSUME NEW a \in Nat, NEW b \in Nat
  PROVE  Agenda!RowNr(<<a, b>>) = 10 * a + b
<1> DEFINE d == <<a, b>>
           Is(f) == f = [n \in 0..Len(d) |-> IF n = 0 THEN 0 ELSE 10 * f[n - 1] + d[n]]
           g == [n \in 0..2 |-> IF n = 0 THEN 0 ELSE IF n = 1 THEN a ELSE 10 * a + b]
           f == CHOOSE f : Is(f)
<1>1. Len(d) = 2 /\ d[1] = a /\ d[2] = b
  OBVIOUS
<1>2. Is(g)
  <2> HIDE DEF d
  <2>1. g = [n \in 0..2 |-> IF n = 0 THEN 0 ELSE 10 * g[n - 1] + d[n]]
    <3>1. /\ g[0] = 0 /\ g[1] = 10 * g[1 - 1] + d[1] /\ g[2] = 10 * g[2 - 1] + d[2]
      BY <1>1
    <3>2. \A n \in 0..2 : n = 0 \/ n = 1 \/ n = 2
      OBVIOUS
    <3>3. \A n \in 0..2 : g[n] = IF n = 0 THEN 0 ELSE 10 * g[n - 1] + d[n]
      BY <3>1, <3>2
    <3> QED
      BY <3>3
  <2> QED
    BY <1>1, <2>1
<1> HIDE DEF d
<1>3. Is(f)
  <2> HIDE DEF Is, g
  <2> QED
    BY <1>2
<1>4. f[2] = 10 * a + b
  <2> HIDE DEF f
  <2>1. f = [n \in 0..2 |-> IF n = 0 THEN 0 ELSE 10 * f[n - 1] + d[n]]
    BY <1>1, <1>3
  <2>2. f[0] = 0 /\ f[1] = 10 * f[1 - 1] + d[1] /\ f[2] = 10 * f[2 - 1] + d[2]
    BY <2>1
  <2>3. f[1 - 1] = 0 /\ f[2 - 1] = f[1]
    BY <2>2
  <2>4. f[1] = a
    BY <1>1, <2>2, <2>3
  <2> QED
    BY <1>1, <2>2, <2>3, <2>4
<1>5. Agenda!RowNr(d) = f[Len(d)]
  BY DEF Agenda!RowNr
<1> HIDE DEF f
<1> QED
  BY <1>1, <1>4, <1>5 DEF d

(* The digits of a row's number: one or two, which stand for the number. *)
LEMMA OneDigit ==
  ASSUME NEW n \in 1..99, n < 10
  PROVE  Agenda!DigitsOf(n) = <<n>>
BY DEF Agenda!DigitsOf

LEMMA TwoDigits ==
  ASSUME NEW n \in 1..99, n >= 10
  PROVE  \E a, b \in Nat : n = 10 * a + b /\ b < 10 /\ Agenda!DigitsOf(n) = <<a, b>>
<1>1. n \div 10 \in Nat /\ n % 10 \in Nat /\ 10 * (n \div 10) + (n % 10) = n /\ n % 10 < 10
  OBVIOUS
<1>2. Agenda!DigitsOf(n) = <<n \div 10, n % 10>>
  BY DEF Agenda!DigitsOf
<1> QED
  BY <1>1, <1>2

LEMMA Digits ==
  ASSUME NEW n \in 1..99
  PROVE  /\ Agenda!DigitsOf(n) \in Seq(Nat)
         /\ Len(Agenda!DigitsOf(n)) = 1 \/ Len(Agenda!DigitsOf(n)) = 2
         /\ Agenda!RowNr(Agenda!DigitsOf(n)) = n
<1> DEFINE d == Agenda!DigitsOf(n)
<1>1. CASE n < 10
  <2>1. d = <<n>>
    BY <1>1, OneDigit
  <2>2. Agenda!RowNr(<<n>>) = n
    BY NumberOfDigit
  <2> HIDE DEF d
  <2>3. d \in Seq(Nat) /\ (Len(d) = 1 \/ Len(d) = 2)
    BY <2>1
  <2>4. Agenda!RowNr(d) = n
    BY <2>1, <2>2
  <2> QED
    BY <2>3, <2>4 DEF d
<1>2. CASE n >= 10
  <2>1. PICK a, b \in Nat : n = 10 * a + b /\ d = <<a, b>>
    BY <1>2, TwoDigits
  <2>2. Agenda!RowNr(<<a, b>>) = n
    BY <2>1, NumberOfDigits
  <2> HIDE DEF d
  <2>3. d \in Seq(Nat) /\ (Len(d) = 1 \/ Len(d) = 2)
    BY <2>1
  <2>4. Agenda!RowNr(d) = n
    BY <2>1, <2>2
  <2> QED
    BY <2>3, <2>4 DEF d
<1> QED
  BY <1>1, <1>2

(* Two texts one after the other, and what is cut out of them. *)
LEMMA Parted ==
  ASSUME NEW d \in Seq(Nat), NEW r \in Seq(Nat), NEW b,
         Len(d) >= 1, Len(r) >= 1, b = d \o r
  PROVE  /\ b \in Seq(Nat) /\ Len(b) = Len(d) + Len(r)
         /\ b[1] = d[1]
         /\ SubSeq(b, 1, Len(d)) = d
         /\ SubSeq(b, Len(d) + 1, Len(b)) = r
<1>1. Len(d) \in Nat /\ Len(r) \in Nat
  OBVIOUS
<1>2. b \in Seq(Nat) /\ Len(b) = Len(d) + Len(r) /\ b[1] = d[1]
  OBVIOUS
<1>3. SubSeq(b, 1, Len(d)) = SubSeq(d, 1, Len(d)) /\ SubSeq(d, 1, Len(d)) = d
  <2>1. 1 \in 1..Len(d) /\ Len(d) \in 1..Len(d)
    BY <1>1
  <2> QED
    BY <2>1, SubSeqOfConcat1, SubSeqFull
<1>4. SubSeq(b, Len(d) + 1, Len(b)) = r
  <2> DEFINE m == Len(d) + 1
             n == Len(d) + Len(r)
  <2>1. m \in Len(d) + 1 .. Len(d) + Len(r) /\ n \in Len(d) + 1 .. Len(d) + Len(r)
    BY <1>1
  <2>2. m - Len(d) = 1 /\ n - Len(d) = Len(r)
    BY <1>1
  <2>3. Len(b) = n
    BY <1>2
  <2> HIDE DEF m, n
  <2>4. SubSeq(d \o r, m, n) = SubSeq(r, m - Len(d), n - Len(d))
    BY <2>1, SubSeqOfConcat2
  <2>5. SubSeq(r, 1, Len(r)) = r
    BY SubSeqFull
  <2>6. SubSeq(b, m, Len(b)) = r
    BY <2>2, <2>3, <2>4, <2>5
  <2> QED
    BY <2>6 DEF m
<1> QED
  BY <1>2, <1>3, <1>4

(* A registration number has from four to six digits. *)
LEMMA RegNumber ==
  ASSUME NEW r \in RegNumbers
  PROVE  r \in Seq(Nat) /\ Len(r) \in 4..6 /\ r # Missing
<1>1. PICK n \in 4..6 : r \in [1..n -> 0..9]
  BY TextsAssumption
<1>2. r \in Seq(Nat) /\ Len(r) = n
  <2>1. r \in [1..n -> Nat] /\ n \in Nat
    BY <1>1
  <2> QED
    BY <2>1
<1> QED
  BY <1>1, <1>2, TextsAssumption

(* The glued pair that begins with the number that is expected. *)
LEMMA SplitAsExpected ==
  ASSUME NEW n \in 1..99, NEW r \in Seq(Nat), Len(r) >= 4
  PROVE  Agenda!Split(Agenda!DigitsOf(n) \o r, n) = <<n, r>>
<1> DEFINE d == Agenda!DigitsOf(n)
           b == d \o r
<1>1. d \in Seq(Nat) /\ (Len(d) = 1 \/ Len(d) = 2)
  BY Digits
<1> HIDE DEF d
<1>2. /\ b \in Seq(Nat) /\ Len(b) = Len(d) + Len(r)
      /\ SubSeq(b, 1, Len(d)) = d /\ SubSeq(b, Len(d) + 1, Len(b)) = r
  BY <1>1, Parted
<1>3. SubSeq(d, 1, Len(d)) = d
  BY <1>1, SubSeqFull
<1> HIDE DEF b
<1>4. Len(r) \in Nat
  OBVIOUS
<1>5. Agenda!IsPrefix(d, b)
  BY <1>1, <1>2, <1>3, <1>4 DEF Agenda!IsPrefix
<1>6. Agenda!Split(b, n) = <<n, r>>
  BY <1>2, <1>5 DEF Agenda!Split, d
<1> QED
  BY <1>6 DEF b, d

(* What two lengths are good for. *)
LEMMA SmallLength ==
  ASSUME NEW k, k = 1 \/ k = 2
  PROVE  k \in Nat /\ k >= 1 /\ 1 \in 1..k
OBVIOUS

(* A number of a row up to eight behind another never begins with its digits. *)
LEMMA NoPrefix ==
  ASSUME NEW n \in 1..99, NEW e \in 1..99, e < n, n <= e + 8,
         NEW r \in Seq(Nat), Len(r) >= 4
  PROVE  ~Agenda!IsPrefix(Agenda!DigitsOf(e), Agenda!DigitsOf(n) \o r)
<1> DEFINE d == Agenda!DigitsOf(n)
           p == Agenda!DigitsOf(e)
           b == d \o r
<1>1. d \in Seq(Nat) /\ p \in Seq(Nat)
  BY Digits
<1>2. (Len(d) = 1 \/ Len(d) = 2) /\ (Len(p) = 1 \/ Len(p) = 2) /\ Len(r) \in Nat
  <2>1. (Len(d) = 1 \/ Len(d) = 2) /\ (Len(p) = 1 \/ Len(p) = 2)
    BY Digits, Zenon
  <2>2. Len(r) \in Nat
    OBVIOUS
  <2> QED
    BY <2>1, <2>2
<1>3. d = Agenda!DigitsOf(n) /\ p = Agenda!DigitsOf(e)
  OBVIOUS
<1> HIDE DEF d, p
<1>4. SUFFICES ASSUME Agenda!IsPrefix(p, b) PROVE FALSE
  BY <1>3
<1>5. /\ b \in Seq(Nat) /\ Len(b) = Len(d) + Len(r)
      /\ \A i \in 1..Len(d) : b[i] = d[i]
  <2>1. \A i \in 1 .. Len(d) + Len(r) : b[i] = IF i <= Len(d) THEN d[i] ELSE r[i - Len(d)]
    BY <1>1, ConcatProperties
  <2>2. b \in Seq(Nat) /\ Len(b) = Len(d) + Len(r)
    BY <1>1
  <2>3. ASSUME NEW i \in 1..Len(d) PROVE b[i] = d[i]
    <3>1. i \in 1 .. Len(d) + Len(r) /\ i <= Len(d)
      BY <1>2
    <3> QED
      BY <2>1, <3>1
  <2> QED
    BY <2>2, <2>3
<1> HIDE DEF b
<1>6. SubSeq(p, 1, Len(p)) = SubSeq(b, 1, Len(p)) /\ Len(p) <= Len(b)
  BY <1>4 DEF Agenda!IsPrefix
<1>7. ASSUME NEW i \in 1..Len(p) PROVE p[i] = b[i]
  <2>1. SubSeq(p, 1, Len(p))[i] = p[i]
    BY <1>1, SubSeqFull
  <2>2. SubSeq(b, 1, Len(p))[i] = b[i]
    <3> DEFINE m == Len(p)
    <3>1. 1 \in Int /\ m \in Int /\ i \in 1 .. m - 1 + 1 /\ 1 + i - 1 = i
      BY <1>2
    <3>2. \A j \in 1..m : b[j] \in Nat
      BY <1>2, <1>5, <1>6
    <3> HIDE DEF m
    <3>3. \A j \in 1 .. m - 1 + 1 : SubSeq(b, 1, m)[j] = b[1 + j - 1]
      BY <3>1, <3>2, SubSeqProperties
    <3> QED
      BY <3>1, <3>3 DEF m
  <2> QED
    BY <1>6, <2>1, <2>2
<1>8. p[1] = d[1]
  <2>1. 1 \in 1..Len(p) /\ 1 \in 1..Len(d)
    BY <1>2, SmallLength
  <2> QED
    BY <2>1, <1>5, <1>7
<1>9. CASE n < 10
  <2>1. e < 10
    BY <1>9
  <2>2. d = <<n>> /\ p = <<e>>
    BY <1>3, <1>9, <2>1, OneDigit
  <2> QED
    BY <1>8, <2>2
<1>10. CASE n >= 10
  <2>1. PICK a, c \in Nat : n = 10 * a + c /\ c < 10 /\ d = <<a, c>>
    BY <1>3, <1>10, TwoDigits
  <2>2. CASE e < 10
    <3>1. p = <<e>>
      BY <1>3, <2>2, OneDigit
    <3>2. a = e
      BY <1>8, <2>1, <3>1
    <3> QED
      BY <2>1, <2>2, <3>2
  <2>3. CASE e >= 10
    <3>1. PICK x, y \in Nat : e = 10 * x + y /\ y < 10 /\ p = <<x, y>>
      BY <1>3, <2>3, TwoDigits
    <3>2. x = a
      BY <1>8, <2>1, <3>1
    <3>3. 2 \in 1..Len(p) /\ 2 \in 1..Len(d)
      BY <2>1, <3>1
    <3>4. p[2] = d[2]
      BY <1>5, <1>7, <3>3
    <3>5. y = c
      BY <2>1, <3>1, <3>4
    <3> QED
      BY <2>1, <3>1, <3>2, <3>5
  <2> QED
    BY <2>2, <2>3
<1> QED
  BY <1>9, <1>10

(* The glued pair by the length of the registration number. *)
LEMMA SplitBySix ==
  ASSUME NEW n \in 1..99, NEW e \in 1..99, e < n, n <= e + 8,
         NEW r \in Seq(Nat), Len(r) = 6
  PROVE  Agenda!Split(Agenda!DigitsOf(n) \o r, e) = <<n, r>>
<1> DEFINE d == Agenda!DigitsOf(n)
           b == d \o r
<1>1. d \in Seq(Nat) /\ (Len(d) = 1 \/ Len(d) = 2) /\ Agenda!RowNr(d) = n
  BY Digits
<1>2. ~Agenda!IsPrefix(Agenda!DigitsOf(e), b)
  <2>1. Len(r) >= 4
    OBVIOUS
  <2> QED
    BY <2>1, NoPrefix
<1> HIDE DEF d
<1>3. /\ b \in Seq(Nat) /\ Len(b) = Len(d) + Len(r)
      /\ SubSeq(b, 1, Len(d)) = d /\ SubSeq(b, Len(d) + 1, Len(b)) = r
  <2>1. Len(d) >= 1
    BY <1>1, SmallLength
  <2>2. Len(r) >= 1
    OBVIOUS
  <2>3. d \in Seq(Nat)
    BY <1>1
  <2> QED
    BY <2>1, <2>2, <2>3, Parted, Zenon
<1> HIDE DEF b
<1>4. Len(b) - 6 = Len(d) /\ Len(b) - 5 = Len(d) + 1 /\ Len(b) >= 7
  <2> DEFINE k == Len(d)
  <2>1. k \in Nat /\ k >= 1 /\ Len(b) = k + 6
    BY <1>1, <1>3, SmallLength
  <2> HIDE DEF k
  <2>2. Len(b) - 6 = k /\ Len(b) - 5 = k + 1 /\ Len(b) >= 7
    BY <2>1
  <2> QED
    BY <2>2 DEF k
<1>5. Agenda!SplitByLength(b, e) = <<n, r>>
  BY <1>1, <1>3, <1>4 DEF Agenda!SplitByLength
<1>6. Len(b) >= 4
  BY <1>4
<1>7. Agenda!Split(b, e) = Agenda!SplitByLength(b, e)
  BY <1>2, <1>6 DEF Agenda!Split
<1> QED
  BY <1>5, <1>7 DEF b, d

-----------------------------------------------------------------------------
(* An agenda is being read: the table is reached only in one. *)
Begun == row # Missing \/ reader.at # "head"

(* The count of the parser can be relied on: no row was lost, or at most eight one
   after the other and only registration numbers of six digits are glued. *)
Reliable == row.maxLost = 0 \/ (row.maxLost <= 8 /\ ~row.short)

(* The row at hand is on the page, and is not one of those that were lost. *)
OnPage == row.nr > 0 /\ row.reg # Missing

ReaderShaped ==
  /\ reader = [at |-> reader.at, expected |-> reader.expected, any |-> reader.any,
               block |-> reader.block]
  /\ reader.block = [nr |-> reader.block.nr, reg |-> reader.block.reg,
                     parts |-> reader.block.parts]
  /\ reader.at \in {"head", "table", "end"}

RowShaped ==
  Begun =>
    /\ row = [nr |-> row.nr, reg |-> row.reg, words |-> row.words, lost |-> row.lost,
              maxLost |-> row.maxLost, short |-> row.short]
    /\ row.nr \in 0..LastRow /\ row.lost \in 0..row.nr /\ row.maxLost \in Nat
    /\ row.lost <= row.maxLost
    /\ row.short \in BOOLEAN
    /\ row.words \in Seq({"plan", "sc", "revenire"})

(* The parser expects the row after the last one it saw. *)
CountIsRight ==
  Begun /\ Reliable =>
    /\ reader.expected = row.nr - row.lost + 1
    /\ OnPage => row.lost = 0 /\ reader.block.nr = row.nr /\ reader.block.reg = row.reg

WordsAreKept ==
  Begun /\ OnPage => reader.any /\ reader.block.parts = row.words

ReadingInv ==
  /\ ReaderShaped
  /\ RowShaped
  /\ CountIsRight
  /\ WordsAreKept

LEMMA ReadingStarts == TextsInit => ReadingInv
<1> SUFFICES ASSUME TextsInit PROVE ReadingInv
  OBVIOUS
<1>1. row = Missing /\ reader = Agenda!Beginning(TRUE)
  BY DEF TextsInit
<1>2. ReaderShaped
  BY <1>1 DEF ReaderShaped, Agenda!Beginning, Agenda!NoBlock
<1> QED
  BY <1>1, <1>2
     DEF ReadingInv, RowShaped, CountIsRight, WordsAreKept, Begun, Agenda!Beginning

(* A registration number is glued to its row as one of six digits or a shorter one. *)
LEMMA SixAtMost ==
  ASSUME NEW k \in 4..6
  PROVE  k >= 4 /\ (k >= 6 => k = 6) /\ (~(k < 6) => k >= 6)
OBVIOUS

(* What a line that begins a row does to the parser: the pair of numbers is that of
   the row, whether the extraction glued them or not. *)
LEMMA PairIsRight ==
  ASSUME NEW n \in 1..LastRow, NEW reg \in RegNumbers, NEW apart \in BOOLEAN, NEW lost \in 0..8,
         lost < n, lost = 0 \/ apart \/ Len(reg) >= 6
  PROVE  (IF apart THEN <<Agenda!RowNr(Agenda!DigitsOf(n)), reg>>
          ELSE Agenda!Split(Agenda!DigitsOf(n) \o reg, n - lost)) = <<n, reg>>
<1>1. n \in 1..99
  BY TextsAssumption
<1>2. reg \in Seq(Nat)
  BY RegNumber
<1>3. Len(reg) \in 4..6
  BY RegNumber
<1>4. CASE apart
  <2>1. Agenda!RowNr(Agenda!DigitsOf(n)) = n
    BY <1>1, Digits, Zenon
  <2> QED
    BY <1>4, <2>1
<1>5. CASE ~apart /\ lost = 0
  <2>1. n - lost = n
    BY <1>5
  <2>2. Len(reg) >= 4
    BY <1>3, SixAtMost, Zenon
  <2>3. Agenda!Split(Agenda!DigitsOf(n) \o reg, n) = <<n, reg>>
    BY <1>1, <1>2, <2>2, SplitAsExpected, Zenon
  <2> QED
    BY <1>5, <2>1, <2>3
<1>6. CASE ~apart /\ lost # 0
  <2> DEFINE e == n - lost
  <2>1. e \in 1..99 /\ e < n /\ n <= e + 8
    BY <1>1, <1>6
  <2>2. Len(reg) = 6
    <3>1. Len(reg) >= 6
      BY <1>6, Zenon
    <3> QED
      BY <1>3, <3>1, SixAtMost, Zenon
  <2> HIDE DEF e
  <2>3. Agenda!Split(Agenda!DigitsOf(n) \o reg, e) = <<n, reg>>
    BY <1>1, <1>2, <2>1, <2>2, SplitBySix, Zenon
  <2> QED
    BY <1>6, <2>3 DEF e
<1> QED
  BY <1>4, <1>5, <1>6

(* A line that begins a row, to a parser that counts right. *)
LEMMA RowIsPrinted ==
  ASSUME ReadingInv,
         NEW reg \in RegNumbers, NEW apart \in BOOLEAN, PrintRow(reg, apart)
  PROVE  ReadingInv'
<1> DEFINE n == row.nr + 1
           line == [sort |-> "row", nr |-> Agenda!DigitsOf(n), reg |-> reg,
                    apart |-> apart, words |-> <<>>]
           pair == IF apart THEN <<Agenda!RowNr(Agenda!DigitsOf(n)), reg>>
                   ELSE Agenda!Split(Agenda!DigitsOf(n) \o reg, reader.expected)
<1>1. /\ reader.at = "table" /\ row # Missing /\ row.nr < LastRow
      /\ reader' = Agenda!ReadLine(reader, line)
      /\ row' = [row EXCEPT !.nr = @ + 1, !.reg = reg, !.words = <<>>, !.lost = 0,
                            !.short = @ \/ (~apart /\ Len(reg) < 6)]
  BY DEF PrintRow, Reads
<1>2. reader' = [reader EXCEPT !.expected = IF pair[1] = Missing THEN @ ELSE pair[1] + 1,
                               !.any = TRUE,
                               !.block = [nr |-> pair[1], reg |-> pair[2], parts |-> <<>>]]
  <2> HIDE DEF n
  <2>1. Agenda!ReadLine(reader, line) = Agenda!StartOf(reader, line)
    BY <1>1 DEF Agenda!ReadLine
  <2> QED
    BY <1>1, <2>1 DEF Agenda!StartOf
<1> HIDE DEF pair
<1>3. /\ reader'.at = "table" /\ reader'.any = TRUE
      /\ reader'.expected = IF pair[1] = Missing THEN reader.expected ELSE pair[1] + 1
      /\ reader'.block = [nr |-> pair[1], reg |-> pair[2], parts |-> <<>>]
      /\ ReaderShaped'
  <2>1. reader = [at |-> reader.at, expected |-> reader.expected, any |-> reader.any,
                  block |-> reader.block]
    BY DEF ReadingInv, ReaderShaped
  <2> DEFINE x == IF pair[1] = Missing THEN reader.expected ELSE pair[1] + 1
             k == [nr |-> pair[1], reg |-> pair[2], parts |-> <<>>]
  <2>2. reader' = [reader EXCEPT !.expected = x, !.any = TRUE, !.block = k]
    BY <1>2
  <2>3. k = [nr |-> k.nr, reg |-> k.reg, parts |-> k.parts]
    OBVIOUS
  <2> HIDE DEF x, k
  <2>4. reader' = [at |-> "table", expected |-> x, any |-> TRUE, block |-> k]
    BY <1>1, <2>1, <2>2
  <2>5. ReaderShaped'
    BY <2>3, <2>4 DEF ReaderShaped
  <2> QED
    BY <2>4, <2>5 DEF x, k
<1>4. /\ row' = [nr |-> n, reg |-> reg, words |-> <<>>, lost |-> 0, maxLost |-> row.maxLost,
                 short |-> (row.short \/ (~apart /\ Len(reg) < 6))]
      /\ row.nr \in 0..LastRow /\ row.lost \in 0..row.nr /\ row.maxLost \in Nat
      /\ row.lost <= row.maxLost
  BY <1>1 DEF ReadingInv, RowShaped, Begun
<1>5. n \in 1..LastRow /\ LastRow \in 1..99
  <2>1. LastRow \in 1..99
    BY TextsAssumption
  <2>2. row.nr < LastRow /\ row.nr \in 0..LastRow
    BY <1>1, <1>4, Zenon
  <2> QED
    BY <2>1, <2>2
<1>6. RowShaped'
  <2>1. <<>> \in Seq({"plan", "sc", "revenire"})
    OBVIOUS
  <2>2. (row.short \/ (~apart /\ Len(reg) < 6)) \in BOOLEAN
    OBVIOUS
  <2>3. row'.nr \in 0..LastRow /\ row'.lost \in 0..row'.nr /\ row'.lost <= row'.maxLost
    BY <1>4, <1>5
  <2> HIDE DEF n
  <2> QED
    BY <1>4, <2>1, <2>2, <2>3 DEF RowShaped
<1>7. CountIsRight'
  <2> SUFFICES ASSUME Reliable'
               PROVE  /\ reader'.expected = row'.nr - row'.lost + 1
                      /\ row'.lost = 0 /\ reader'.block.nr = row'.nr
                      /\ reader'.block.reg = row'.reg
    BY DEF CountIsRight
  <2>1. row.maxLost = 0 \/ (row.maxLost <= 8 /\ ~row.short /\ (apart \/ ~(Len(reg) < 6)))
    <3>1. row'.maxLost = row.maxLost /\ row'.short = (row.short \/ (~apart /\ Len(reg) < 6))
      BY <1>4
    <3> QED
      BY <3>1, Zenon DEF Reliable
  <2>2. reader.expected = n - row.lost
    <3>1. Reliable
      BY <2>1 DEF Reliable
    <3>2. reader.expected = row.nr - row.lost + 1
      BY <1>1, <3>1 DEF ReadingInv, CountIsRight, Begun
    <3> QED
      BY <1>4, <3>2
  <2>3. row.lost \in 0..8 /\ row.lost < n
    BY <1>4, <2>1
  <2>4. row.lost = 0 \/ apart \/ Len(reg) >= 6
    <3>1. CASE row.maxLost = 0
      BY <1>4, <3>1
    <3>2. CASE apart \/ ~(Len(reg) < 6)
      <4>1. Len(reg) \in 4..6
        BY RegNumber
      <4>2. ~(Len(reg) < 6) => Len(reg) >= 6
        BY <4>1, SixAtMost, Zenon
      <4> QED
        BY <3>2, <4>2, Zenon
    <3> QED
      BY <2>1, <3>1, <3>2, Zenon
  <2> HIDE DEF n
  <2>5. pair = <<n, reg>>
    BY <1>5, <2>2, <2>3, <2>4, PairIsRight, Zenon DEF pair
  <2>6. n \in Nat /\ n # Missing
    BY <1>5, TextsAssumption
  <2>7. reader'.expected = n + 1
    BY <1>3, <2>5, <2>6
  <2>8. row'.nr = n /\ row'.lost = 0 /\ row'.reg = reg
    BY <1>4
  <2> QED
    BY <1>3, <2>5, <2>6, <2>7, <2>8
<1>8. WordsAreKept'
  BY <1>3, <1>4 DEF WordsAreKept
<1> QED
  BY <1>3, <1>6, <1>7, <1>8 DEF ReadingInv

(* The first line of a row is lost. *)
LEMMA RowIsLost ==
  ASSUME ReadingInv, LoseRow
  PROVE  ReadingInv'
<1> DEFINE m == IF row.lost + 1 > row.maxLost THEN row.lost + 1 ELSE row.maxLost
<1>1. /\ reader.at = "table" /\ row.nr < LastRow /\ reader' = reader
      /\ row' = [row EXCEPT !.nr = @ + 1, !.reg = Missing, !.lost = @ + 1, !.maxLost = m]
  BY DEF LoseRow
<1>2. Begun
  BY <1>1 DEF Begun
<1>3. ReaderShaped'
  BY <1>1 DEF ReadingInv, ReaderShaped
<1>4. /\ row = [nr |-> row.nr, reg |-> row.reg, words |-> row.words, lost |-> row.lost,
                maxLost |-> row.maxLost, short |-> row.short]
      /\ row.nr \in 0..LastRow /\ row.lost \in 0..row.nr /\ row.maxLost \in Nat
      /\ row.lost <= row.maxLost
      /\ row.short \in BOOLEAN
      /\ row.words \in Seq({"plan", "sc", "revenire"})
  BY <1>2 DEF ReadingInv, RowShaped
<1>5. m \in Nat /\ row.lost + 1 <= m /\ row.maxLost <= m /\ m # 0
  BY <1>4
<1> HIDE DEF m
<1>6. row' = [nr |-> row.nr + 1, reg |-> Missing, words |-> row.words, lost |-> row.lost + 1,
              maxLost |-> m, short |-> row.short]
  BY <1>1, <1>4
<1>7. RowShaped'
  <2>1. LastRow \in 1..99
    BY TextsAssumption
  <2>2. row.nr < LastRow /\ row.nr \in 0..LastRow /\ row.lost \in 0..row.nr
    BY <1>1, <1>4, Zenon
  <2>3. row.nr + 1 \in 0..LastRow /\ row.lost + 1 \in 0..(row.nr + 1)
    BY <2>1, <2>2
  <2> QED
    BY <1>4, <1>5, <1>6, <2>3 DEF RowShaped
<1>8. CountIsRight'
  <2> SUFFICES ASSUME Reliable' PROVE reader'.expected = row'.nr - row'.lost + 1
    BY <1>6 DEF CountIsRight, OnPage
  <2>1. m = 0 \/ (m <= 8 /\ ~row.short)
    BY <1>6 DEF Reliable
  <2>2. Reliable
    BY <1>4, <1>5, <2>1 DEF Reliable
  <2>3. reader.expected = row.nr - row.lost + 1
    BY <1>2, <2>2 DEF ReadingInv, CountIsRight
  <2>4. row'.nr = row.nr + 1 /\ row'.lost = row.lost + 1
    BY <1>6
  <2> QED
    BY <1>1, <1>4, <2>3, <2>4
<1>9. WordsAreKept'
  BY <1>6 DEF WordsAreKept, OnPage
<1> QED
  BY <1>3, <1>7, <1>8, <1>9 DEF ReadingInv

(* Another word of the row. *)
LEMMA WordIsPrinted ==
  ASSUME ReadingInv, NEW w \in {"plan", "sc", "revenire"}, PrintWord(w)
  PROVE  ReadingInv'
<1>1. /\ reader.at = "table" /\ row # Missing /\ OnPage
      /\ reader' = Agenda!ReadLine(reader, [sort |-> "text", words |-> <<w>>])
      /\ row' = [row EXCEPT !.words = Append(@, w)]
  <2>1. row.nr = 1 => row.nr > 0
    OBVIOUS
  <2> QED
    BY <2>1 DEF PrintWord, Reads, OnPage
<1>2. Begun
  BY <1>1 DEF Begun
<1>3. reader.any /\ reader.block.parts = row.words
  BY <1>1, <1>2 DEF ReadingInv, WordsAreKept
<1>4. reader' = [reader EXCEPT !.block.parts = @ \o <<w>>]
  BY <1>1, <1>3 DEF Agenda!ReadLine
<1>5. /\ reader'.expected = reader.expected /\ reader'.any = reader.any
      /\ reader'.block.nr = reader.block.nr /\ reader'.block.reg = reader.block.reg
      /\ reader'.block.parts = reader.block.parts \o <<w>>
      /\ ReaderShaped'
  BY <1>4 DEF ReadingInv, ReaderShaped
<1>6. /\ row = [nr |-> row.nr, reg |-> row.reg, words |-> row.words, lost |-> row.lost,
                maxLost |-> row.maxLost, short |-> row.short]
      /\ row.words \in Seq({"plan", "sc", "revenire"})
  BY <1>2 DEF ReadingInv, RowShaped
<1>7. /\ row'.nr = row.nr /\ row'.reg = row.reg /\ row'.lost = row.lost
      /\ row'.maxLost = row.maxLost /\ row'.short = row.short
      /\ row'.words = Append(row.words, w)
      /\ row' = [nr |-> row'.nr, reg |-> row'.reg, words |-> row'.words, lost |-> row'.lost,
                 maxLost |-> row'.maxLost, short |-> row'.short]
  BY <1>1, <1>6
<1>8. row'.words \in Seq({"plan", "sc", "revenire"}) /\ row'.words = row.words \o <<w>>
  BY <1>6, <1>7, AppendProperties, AppendIsConcat
<1>9. RowShaped'
  BY <1>2, <1>7, <1>8 DEF ReadingInv, RowShaped
<1>10. CountIsRight'
  BY <1>2, <1>5, <1>7 DEF ReadingInv, CountIsRight, Reliable, OnPage
<1>11. WordsAreKept'
  BY <1>3, <1>5, <1>8 DEF WordsAreKept
<1> QED
  BY <1>5, <1>9, <1>10, <1>11 DEF ReadingInv

(* A line that ends the heads of the columns, a sheet or the table. *)
LEMMA OnlyPlaceChanges ==
  ASSUME ReadingInv, row # Missing, row' = row,
         NEW at \in {"head", "table", "end"}, reader' = [reader EXCEPT !.at = at]
  PROVE  ReadingInv'
<1>1. /\ reader'.expected = reader.expected /\ reader'.any = reader.any
      /\ reader'.block = reader.block
      /\ ReaderShaped'
  BY DEF ReadingInv, ReaderShaped
<1> QED
  BY <1>1 DEF ReadingInv, RowShaped, CountIsRight, WordsAreKept, Reliable, OnPage, Begun

LEMMA AgendaIsBegun ==
  ASSUME NEW headed \in BOOLEAN, BeginAgenda(headed)
  PROVE  ReadingInv'
<1> DEFINE b == Agenda!Beginning(headed)
<1>1. b = [at |-> IF headed THEN "head" ELSE "table", expected |-> 1, any |-> FALSE,
           block |-> [nr |-> Missing, reg |-> Missing, parts |-> <<>>]]
  BY DEF Agenda!Beginning, Agenda!NoBlock
<1>2. reader' = Agenda!ReadLine(b, [sort |-> "letterhead"])
  BY DEF BeginAgenda
<1>3. reader' = b
  <2> HIDE DEF b
  <2>1. b.at = "head" \/ b.at = "table"
    BY <1>1
  <2>2. CASE b.at = "head"
    <3>1. [b EXCEPT !.at = "head"] = b
      BY <1>1, <2>2
    <3> QED
      BY <1>2, <2>2, <3>1 DEF Agenda!ReadLine
  <2>3. CASE b.at = "table"
    BY <1>2, <2>3 DEF Agenda!ReadLine
  <2> QED
    BY <2>1, <2>2, <2>3
<1>4. row' = [nr |-> 0, reg |-> <<>>, words |-> <<>>, lost |-> 0, maxLost |-> 0, short |-> FALSE]
  BY DEF BeginAgenda
<1> HIDE DEF b
<1>5. ReaderShaped'
  BY <1>1, <1>3 DEF ReaderShaped
<1>6. RowShaped'
  <2>1. 0 \in 0..LastRow
    <3>1. LastRow \in 1..99
      BY TextsAssumption
    <3> QED
      BY <3>1
  <2>2. <<>> \in Seq({"plan", "sc", "revenire"})
    OBVIOUS
  <2> QED
    BY <1>4, <2>1, <2>2 DEF RowShaped
<1>7. ~OnPage' /\ reader'.expected = 1
  BY <1>1, <1>3, <1>4 DEF OnPage
<1> QED
  BY <1>4, <1>5, <1>6, <1>7 DEF ReadingInv, CountIsRight, WordsAreKept

LEMMA ReadingStep ==
  ASSUME ReadingInv, [TextsNext]_textVars
  PROVE  ReadingInv'
<1>1. ASSUME row' = row, reader' = reader PROVE ReadingInv'
  BY <1>1 DEF ReadingInv, ReaderShaped, RowShaped, CountIsRight, WordsAreKept, Reliable,
              OnPage, Begun
<1>2. CASE \E w \in Vocabulary : AddWord(w)
  BY <1>1, <1>2 DEF AddWord
<1>3. CASE \E a \in Addresses : WriteAddress(a)
  BY <1>1, <1>3 DEF WriteAddress
<1>4. CASE \E headed \in BOOLEAN : BeginAgenda(headed)
  BY <1>4, AgendaIsBegun
<1>5. CASE Columns
  <2>1. /\ reader.at = "head" /\ row # Missing /\ row' = row
        /\ reader' = Agenda!ReadLine(reader, [sort |-> "columns"])
    BY <1>5 DEF Columns, Reads
  <2>2. reader' = [reader EXCEPT !.at = "table"]
    BY <2>1 DEF Agenda!ReadLine
  <2> QED
    BY <2>1, <2>2, OnlyPlaceChanges
<1>6. CASE \E reg \in RegNumbers, apart \in BOOLEAN : PrintRow(reg, apart)
  BY <1>6, RowIsPrinted
<1>7. CASE LoseRow
  BY <1>7, RowIsLost
<1>8. CASE \E w \in {"plan", "sc", "revenire"} : PrintWord(w)
  BY <1>8, WordIsPrinted
<1>9. CASE \E sort \in {"blank", "letterhead"} : TurnPage(sort)
  <2>1. PICK sort \in {"blank", "letterhead"} :
          /\ row # Missing /\ row' = row
          /\ reader' = Agenda!ReadLine(reader, [sort |-> sort])
    BY <1>9 DEF TurnPage, Reads
  <2>2. CASE reader.at = "head"
    <3>1. [reader EXCEPT !.at = "head"] = reader
      BY <2>2 DEF ReadingInv, ReaderShaped
    <3>2. reader' = reader
      BY <2>1, <2>2, <3>1 DEF Agenda!ReadLine
    <3> QED
      BY <1>1, <2>1, <3>2
  <2>3. CASE reader.at # "head"
    <3>1. reader' = reader
      BY <2>1, <2>3 DEF Agenda!ReadLine
    <3> QED
      BY <1>1, <2>1, <3>1
  <2> QED
    BY <2>2, <2>3
<1>10. CASE Sign
  <2>1. /\ reader.at = "table" /\ row # Missing /\ row' = row
        /\ reader' = Agenda!ReadLine(reader, [sort |-> "footer"])
    BY <1>10 DEF Sign, Reads
  <2>2. reader' = [reader EXCEPT !.at = "end"]
    BY <2>1 DEF Agenda!ReadLine
  <2> QED
    BY <2>1, <2>2, OnlyPlaceChanges
<1>11. CASE Below
  <2>1. reader' = reader /\ row' = row
    BY <1>11 DEF Below, Reads, Agenda!ReadLine
  <2> QED
    BY <1>1, <2>1
<1>12. CASE UNCHANGED textVars
  BY <1>1, <1>12 DEF textVars
<1> QED
  BY <1>2, <1>3, <1>4, <1>5, <1>6, <1>7, <1>8, <1>9, <1>10, <1>11, <1>12 DEF TextsNext

(* parse_agenda reads the number and the registration number of a row right, glued
   together or not: always as long as no row before was lost, and behind up to eight
   lost rows if the registration numbers that are glued have six digits. *)
THEOREM RowNumbersAreRead == TextsSpec => []NumbersAreRead
<1>1. ReadingInv => NumbersAreRead
  BY DEF ReadingInv, CountIsRight, Reliable, OnPage, Begun, NumbersAreRead
<1> QED
  BY <1>1, ReadingStarts, ReadingStep, PTL DEF TextsSpec

-----------------------------------------------------------------------------
(* A set of numbers has a least. *)
LEMMA LeastNumber ==
  ASSUME NEW I \in SUBSET Nat, I # {}
  PROVE  Agenda!Min(I) \in I /\ \A i \in I : Agenda!Min(I) <= i
<1>1. PICK n \in I : \A m \in I : ~ (<<m, n>> \in OpToRel(<, Nat))
  BY NatLessThanWellFounded, WFMin, Zenon
<1>2. ASSUME NEW m \in I PROVE n <= m
  <2>1. ~(m < n)
    BY <1>1 DEF OpToRel
  <2> QED
    BY <2>1
<1> QED
  BY <1>2 DEF Agenda!Min

(* The beneficiary is what stands before the first "plan", and nothing gets lost. *)
LEMMA BeneficiaryEndsAtPlan ==
  ASSUME NEW S, NEW words \in Seq(S), NEW s, s = Agenda!SplitBeneficiary(words)
  PROVE  /\ s.beneficiary \o s.description = words
         /\ (\E i \in 1..Len(words) : words[i] = "plan") => Head(s.description) = "plan"
         /\ \A i \in 1..Len(s.beneficiary) : s.beneficiary[i] # "plan"
<1> DEFINE I == {i \in 1..Len(words) : words[i] = "plan"}
           m == IF I # {} THEN Agenda!Min(I) ELSE 0
<1>1. s = IF m > 1 THEN [beneficiary |-> SubSeq(words, 1, m - 1),
                         description |-> SubSeq(words, m, Len(words))]
          ELSE [beneficiary |-> <<>>, description |-> words]
  BY DEF Agenda!SplitBeneficiary, Agenda!SelectInSeq
<1>2. Len(words) \in Nat
  OBVIOUS
<1>3. I \in SUBSET Nat
  BY <1>2
<1>4. CASE I = {}
  <2>1. m = 0
    BY <1>4
  <2> HIDE DEF m
  <2>2. s = [beneficiary |-> <<>>, description |-> words]
    BY <1>1, <2>1
  <2>3. <<>> \o words = words
    BY ConcatEmptySeq
  <2>4. ~ \E i \in 1..Len(words) : words[i] = "plan"
    BY <1>4
  <2>5. \A i \in 1..Len(<<>>) : FALSE
    OBVIOUS
  <2> QED
    BY <2>2, <2>3, <2>4, <2>5
<1>5. CASE I # {}
  <2>1. m \in I /\ \A i \in I : m <= i
    BY <1>3, <1>5, LeastNumber
  <2> HIDE DEF m
  <2>2. m \in 1..Len(words) /\ words[m] = "plan"
    BY <2>1
  <2>3. \A i \in 1..Len(words) : i < m => words[i] # "plan"
    BY <1>2, <2>1, <2>2
  <2> HIDE DEF I
  <2>4. CASE m = 1
    <3>1. s = [beneficiary |-> <<>>, description |-> words]
      BY <1>1, <2>4
    <3>2. <<>> \o words = words
      BY ConcatEmptySeq
    <3>3. Head(words) = "plan"
      BY <2>2, <2>4
    <3>4. \A i \in 1..Len(<<>>) : FALSE
      OBVIOUS
    <3> QED
      BY <3>1, <3>2, <3>3, <3>4
  <2>5. CASE m > 1
    <3> DEFINE b == SubSeq(words, 1, m - 1)
               d == SubSeq(words, m, Len(words))
    <3>1. s.beneficiary = b /\ s.description = d
      <4>1. s = [beneficiary |-> b, description |-> d]
        BY <1>1, <2>5, Zenon
      <4> HIDE DEF b, d
      <4> QED
        BY <4>1
    <3>2. b \o d = words
      <4> DEFINE k == m - 1
      <4>1. /\ 1 \in 1..Len(words) + 1 /\ k \in 0..Len(words)
            /\ Len(words) \in k..Len(words) /\ k + 1 = m
        BY <1>2, <2>2
      <4>2. 1 - 1 = 0
        OBVIOUS
      <4> HIDE DEF k
      <4>3. SubSeq(words, 1, k) \o SubSeq(words, k + 1, Len(words)) = SubSeq(words, 1, Len(words))
        BY <4>1, <4>2, ConcatAdjacentSubSeq
      <4>4. SubSeq(words, 1, Len(words)) = words
        BY SubSeqFull
      <4> QED
        BY <4>1, <4>3, <4>4 DEF k
    <3>3. Head(d) = "plan"
      <4>1. Len(words) \in m..Len(words)
        BY <1>2, <2>2
      <4> QED
        BY <2>2, <4>1, HeadTailOfSubSeq
    <3>4. ASSUME NEW i \in 1..Len(b) PROVE b[i] # "plan"
      <4> DEFINE k == m - 1
      <4>1. 1 \in Int /\ k \in Int /\ 1 <= k /\ k - 1 + 1 = k
        BY <1>2, <2>2, <2>5
      <4>2. \A j \in 1..k : words[j] \in S
        BY <1>2, <2>2
      <4> HIDE DEF k
      <4>3. /\ Len(SubSeq(words, 1, k)) = k
            /\ \A j \in 1 .. k - 1 + 1 : SubSeq(words, 1, k)[j] = words[1 + j - 1]
        BY <4>1, <4>2, SubSeqProperties
      <4>4. i \in 1..k
        BY <4>3 DEF k
      <4>5. 1 + i - 1 = i /\ i < m /\ i \in 1..Len(words)
        BY <1>2, <2>2, <4>4 DEF k
      <4>6. SubSeq(words, 1, k)[i] = words[i]
        BY <4>1, <4>3, <4>4, <4>5
      <4> QED
        BY <2>3, <4>5, <4>6 DEF k
    <3> QED
      BY <3>1, <3>2, <3>3, <3>4
  <2>6. m = 1 \/ m > 1
    BY <1>2, <2>2
  <2> QED
    BY <2>4, <2>5, <2>6, Zenon
<1> QED
  BY <1>4, <1>5

(* One word more of what Cleaned leaves, over what it left of those before. *)
Keep(upTo, words, n) ==
  IF n = 0 THEN <<>>
  ELSE IF words[n] = "revenire" THEN upTo[n - 1] ELSE Append(upTo[n - 1], words[n])

LEMMA CleaningEnds ==
  ASSUME NEW words, NEW N \in Nat
  PROVE  \E f : f = [n \in 0..N |-> Keep(f, words, n)]
<1> DEFINE Ends(k) == \E f : f = [n \in 0..k |-> Keep(f, words, n)]
           T == {k \in Nat : Ends(k)}
<1>1. 0 \in T
  <2> DEFINE f == [n \in 0..0 |-> <<>>]
  <2>1. \A n \in 0..0 : Keep(f, words, n) = <<>>
    BY DEF Keep
  <2>2. f = [n \in 0..0 |-> Keep(f, words, n)]
    BY <2>1
  <2>3. Ends(0)
    BY <2>2
  <2> QED
    BY <2>3
<1>2. ASSUME NEW k \in T PROVE k + 1 \in T
  <2>1. PICK f : f = [n \in 0..k |-> Keep(f, words, n)]
    OBVIOUS
  <2> DEFINE g == [n \in 0..(k + 1) |-> IF n <= k THEN f[n] ELSE Keep(f, words, n)]
  <2>2. ASSUME NEW n \in 0..(k + 1) PROVE g[n] = Keep(g, words, n)
    <3>1. n <= k => n \in 0..k
      OBVIOUS
    <3>2. \A x \in 0..k : f[x] = Keep(f, words, x)
      BY <2>1, Zenon
    <3>3. g[n] = Keep(f, words, n)
      BY <3>1, <3>2
    <3>4. CASE n = 0
      BY <3>3, <3>4 DEF Keep
    <3>5. CASE n # 0
      <4>1. n - 1 \in 0..(k + 1) /\ n - 1 <= k
        BY <3>5
      <4>2. g[n - 1] = f[n - 1]
        BY <4>1
      <4> HIDE DEF g
      <4> QED
        BY <3>3, <3>5, <4>2 DEF Keep
    <3> QED
      BY <3>4, <3>5
  <2>3. g = [n \in 0..(k + 1) |-> Keep(g, words, n)]
    BY <2>2
  <2>4. Ends(k + 1)
    BY <2>3
  <2> QED
    BY <2>4
<1> HIDE DEF T
<1>3. T \in SUBSET Nat
  BY DEF T
<1>4. T = Nat
  BY <1>1, <1>2, <1>3, NatInductionOfSet
<1> QED
  BY <1>4 DEF T

LEMMA CleanedInSteps ==
  ASSUME NEW words, Len(words) \in Nat
  PROVE  \E f : /\ f = [n \in 0..Len(words) |-> Keep(f, words, n)]
                /\ Agenda!Cleaned(words) = f[Len(words)]
<1> DEFINE Is(f) == f = [n \in 0..Len(words) |-> Keep(f, words, n)]
           f == CHOOSE f : Is(f)
<1>1. \E g : Is(g)
  BY CleaningEnds
<1>2. Is(f)
  BY <1>1
<1>3. Agenda!Cleaned(words) = f[Len(words)]
  BY DEF Agenda!Cleaned, Keep
<1> QED
  BY <1>2, <1>3

(* The first n words that are kept. *)
Kept(words, n) == {j \in 1..n : words[j] # "revenire"}

LEMMA KeptGrows ==
  ASSUME NEW words, NEW n \in Nat
  PROVE  /\ IsFiniteSet(Kept(words, n)) /\ Cardinality(Kept(words, n)) \in Nat
         /\ Kept(words, 0) = {} /\ Cardinality(Kept(words, 0)) = 0
         /\ words[n + 1] = "revenire" => Kept(words, n + 1) = Kept(words, n)
         /\ words[n + 1] # "revenire" =>
              /\ Kept(words, n + 1) = Kept(words, n) \cup {n + 1}
              /\ Cardinality(Kept(words, n + 1)) = Cardinality(Kept(words, n)) + 1
<1>1. \A m \in Nat : IsFiniteSet(Kept(words, m)) /\ Cardinality(Kept(words, m)) \in Nat
  <2> TAKE m \in Nat
  <2>1. IsFiniteSet(1..m)
    BY FS_Interval
  <2>2. Kept(words, m) \in SUBSET (1..m)
    BY DEF Kept
  <2> QED
    BY <2>1, <2>2, FS_Subset, FS_CardinalityType
<1>2. Kept(words, 0) = {} /\ Cardinality(Kept(words, 0)) = 0
  BY FS_EmptySet DEF Kept
<1>3. 1..(n + 1) = (1..n) \cup {n + 1}
  OBVIOUS
<1>4. n + 1 \notin Kept(words, n)
  BY DEF Kept
<1>5. words[n + 1] = "revenire" => Kept(words, n + 1) = Kept(words, n)
  BY <1>3 DEF Kept
<1>6. words[n + 1] # "revenire" => Kept(words, n + 1) = Kept(words, n) \cup {n + 1}
  BY <1>3 DEF Kept
<1>7. Cardinality(Kept(words, n) \cup {n + 1}) = Cardinality(Kept(words, n)) + 1
  BY <1>1, <1>4, FS_AddElement
<1> QED
  BY <1>1, <1>2, <1>5, <1>6, <1>7

(* Cleaned takes out every "revenire" and leaves the other words in their order. *)
LEMMA CleanedKeepsOrder ==
  ASSUME NEW S, NEW words \in Seq(S), NEW c, c = Agenda!Cleaned(words)
  PROVE  /\ c \in Seq(S)
         /\ Len(c) = Cardinality(Kept(words, Len(words)))
         /\ \A i \in Kept(words, Len(words)) :
              /\ Cardinality(Kept(words, i)) \in 1..Len(c)
              /\ c[Cardinality(Kept(words, i))] = words[i]
<1> DEFINE N == Len(words)
<1>1. N \in Nat /\ \A i \in 1..N : words[i] \in S
  OBVIOUS
<1>2. PICK f : f = [n \in 0..N |-> Keep(f, words, n)] /\ c = f[N]
  BY <1>1, CleanedInSteps
<1>3. \A n \in 0..N : f[n] = Keep(f, words, n)
  BY <1>2, Zenon
<1> HIDE DEF N
<1> DEFINE Holds(n) == /\ f[n] \in Seq(S)
                       /\ Len(f[n]) = Cardinality(Kept(words, n))
                       /\ \A i \in Kept(words, n) :
                            /\ Cardinality(Kept(words, i)) \in 1..Len(f[n])
                            /\ f[n][Cardinality(Kept(words, i))] = words[i]
           T == {n \in Nat : n <= N => Holds(n)}
<1>4. 0 \in T
  <2>1. f[0] = <<>>
    BY <1>1, <1>3 DEF Keep
  <2>2. Kept(words, 0) = {} /\ Cardinality(Kept(words, 0)) = 0
    BY KeptGrows
  <2>3. <<>> \in Seq(S) /\ Len(<<>>) = 0
    OBVIOUS
  <2>4. Holds(0)
    BY <2>1, <2>2, <2>3
  <2> QED
    BY <2>4
<1>5. ASSUME NEW n \in T PROVE n + 1 \in T
  <2>1. n \in Nat
    OBVIOUS
  <2> SUFFICES ASSUME n + 1 <= N PROVE Holds(n + 1)
    BY <2>1
  <2>2. Holds(n)
    BY <1>1, <2>1
  <2>3. n + 1 \in 0..N /\ n + 1 \in 1..N /\ n + 1 # 0 /\ (n + 1) - 1 = n
    BY <1>1, <2>1
  <2>4. words[n + 1] \in S
    BY <1>1, <2>3
  <2>5. f[n + 1] = Keep(f, words, n + 1)
    BY <1>3, <2>3, Zenon
  <2> DEFINE x == f[n]
             y == f[n + 1]
             w == words[n + 1]
             k == Cardinality(Kept(words, n))
  <2>6. y = IF w = "revenire" THEN x ELSE Append(x, w)
    BY <2>3, <2>5 DEF Keep
  <2>7. /\ k \in Nat
        /\ w = "revenire" => Kept(words, n + 1) = Kept(words, n)
        /\ w # "revenire" => /\ Kept(words, n + 1) = Kept(words, n) \cup {n + 1}
                             /\ Cardinality(Kept(words, n + 1)) = k + 1
    BY <2>1, KeptGrows
  <2>8. CASE w = "revenire"
    BY <2>2, <2>6, <2>7, <2>8
  <2>9. CASE w # "revenire"
    <3>1. /\ x \in Seq(S) /\ Len(x) = k
          /\ \A i \in Kept(words, n) : /\ Cardinality(Kept(words, i)) \in 1..Len(x)
                                       /\ x[Cardinality(Kept(words, i))] = words[i]
      BY <2>2
    <3>2. w \in S
      BY <2>4
    <3>3. y = Append(x, w)
      BY <2>6, <2>9
    <3> HIDE DEF x, y, w, T
    <3>4. /\ y \in Seq(S) /\ Len(y) = Len(x) + 1 /\ y[Len(x) + 1] = w
          /\ \A i \in 1..Len(x) : y[i] = x[i]
      BY <3>1, <3>2, <3>3, AppendProperties
    <3>5. Len(y) = k + 1 /\ y[k + 1] = w /\ \A i \in 1..k : y[i] = x[i]
      BY <3>1, <3>4
    <3>6. Len(y) = Cardinality(Kept(words, n + 1))
      BY <2>7, <2>9, <3>5
    <3>7. ASSUME NEW i \in Kept(words, n + 1)
          PROVE  /\ Cardinality(Kept(words, i)) \in 1..Len(y)
                 /\ y[Cardinality(Kept(words, i))] = words[i]
      <4>1. CASE i = n + 1
        <5>1. Cardinality(Kept(words, i)) = k + 1
          BY <2>7, <2>9, <4>1
        <5>2. k + 1 \in 1..(k + 1)
          BY <2>7
        <5> QED
          BY <3>5, <4>1, <5>1, <5>2 DEF w
      <4>2. CASE i \in Kept(words, n)
        <5> DEFINE j == Cardinality(Kept(words, i))
        <5>1. j \in 1..k /\ x[j] = words[i]
          BY <3>1, <4>2
        <5> HIDE DEF j
        <5>2. y[j] = x[j]
          BY <3>5, <5>1
        <5>3. j \in 1..Len(y)
          <6>1. j \in 1..(k + 1)
            BY <2>7, <5>1
          <6> QED
            BY <3>5, <6>1, Zenon
        <5> QED
          BY <5>1, <5>2, <5>3 DEF j
      <4> QED
        BY <2>7, <2>9, <4>1, <4>2
    <3> QED
      BY <3>4, <3>6, <3>7 DEF y
  <2> QED
    BY <2>8, <2>9
<1> HIDE DEF T
<1>6. T \in SUBSET Nat
  BY DEF T
<1>7. T = Nat
  BY <1>4, <1>5, <1>6, NatInductionOfSet
<1>8. Holds(N)
  BY <1>1, <1>7 DEF T
<1> QED
  BY <1>2, <1>8 DEF N

LEMMA CleanedIsShorter ==
  ASSUME NEW S, NEW words \in Seq(S), NEW c, c = Agenda!Cleaned(words)
  PROVE  (\E i \in 1..Len(words) : words[i] = "revenire") <=> c # words
<1> DEFINE N == Len(words)
<1>1. N \in Nat /\ IsFiniteSet(1..N) /\ Cardinality(1..N) = N
  <2>1. N \in Nat
    OBVIOUS
  <2> HIDE DEF N
  <2> QED
    BY <2>1, FS_Interval
<1>2. /\ c \in Seq(S) /\ Len(c) = Cardinality(Kept(words, N))
      /\ \A i \in Kept(words, N) : c[Cardinality(Kept(words, i))] = words[i]
  BY CleanedKeepsOrder
<1>3. Kept(words, N) \in SUBSET (1..N)
  BY DEF Kept
<1>4. ASSUME NEW i \in 1..N, words[i] = "revenire" PROVE c # words
  <2>1. Kept(words, N) # 1..N
    BY <1>4 DEF Kept
  <2>2. Cardinality(Kept(words, N)) # N
    BY <1>1, <1>3, <2>1, FS_Subset
  <2> QED
    BY <1>2, <2>2
<1>5. ASSUME \A i \in 1..N : words[i] # "revenire" PROVE c = words
  <2>1. \A i \in 0..N : Kept(words, i) = 1..i
    BY <1>1, <1>5 DEF Kept
  <2>2. \A i \in 0..N : Cardinality(1..i) = i
    BY <1>1, FS_Interval
  <2>3. N \in 0..N /\ \A i \in 1..N : i \in 0..N
    BY <1>1
  <2>4. Len(c) = N
    BY <1>2, <2>1, <2>2, <2>3
  <2>5. \A i \in 1..N : c[i] = words[i]
    BY <1>2, <2>1, <2>2, <2>3
  <2> QED
    BY <1>2, <2>4, <2>5, SeqEqual
<1> QED
  BY <1>4, <1>5

(* parse_agenda puts the words of a row in their place: every word but "revenire" is
   in its beneficiary or description, in the order of the page, "revenire" is noted,
   the description begins with its first word and takes nothing of the beneficiary,
   over the ends of lines and sheets and with nothing from below the signature. *)
THEOREM AgendasAreReadWhole == TextsSpec => []RowsAreReadWhole
<1>1. ASSUME ReadingInv PROVE RowsAreReadWhole
  <2> DEFINE W == {"plan", "sc", "revenire"}
             words == row.words
             made == Agenda!Assemble(words)
             said == made.beneficiary \o made.description
             c == Agenda!Cleaned(words)
             s == Agenda!SplitBeneficiary(c)
  <2>1. SUFFICES ASSUME Begun, OnPage
                 PROVE  /\ Len(said) = Cardinality(Kept(words, Len(words)))
                        /\ \A i \in Kept(words, Len(words)) :
                             said[Cardinality(Kept(words, i))] = words[i]
                        /\ made.revenire <=> said # words
                        /\ Contains(said, "plan") => Head(made.description) = "plan"
                        /\ ~Contains(made.beneficiary, "plan")
    <3>1. Begun /\ OnPage => reader.block.parts = row.words
      BY <1>1 DEF ReadingInv, WordsAreKept
    <3> QED
      BY <3>1 DEF RowsAreReadWhole, Begun, OnPage, Kept
  <2>2. words \in Seq(W)
    BY <1>1, <2>1 DEF ReadingInv, RowShaped
  <2> HIDE DEF W, words
  <2>3. /\ made.beneficiary = s.beneficiary /\ made.description = s.description
        /\ made.revenire = Agenda!Contains(words, "revenire")
    BY DEF Agenda!Assemble
  <2> HIDE DEF made, s
  <2>4. /\ c \in Seq(W)
        /\ Len(c) = Cardinality(Kept(words, Len(words)))
        /\ \A i \in Kept(words, Len(words)) : c[Cardinality(Kept(words, i))] = words[i]
    BY <2>2, CleanedKeepsOrder
  <2>5. (\E i \in 1..Len(words) : words[i] = "revenire") <=> c # words
    BY <2>2, CleanedIsShorter
  <2> HIDE DEF c
  <2>6. /\ s.beneficiary \o s.description = c
        /\ (\E i \in 1..Len(c) : c[i] = "plan") => Head(s.description) = "plan"
        /\ \A i \in 1..Len(s.beneficiary) : s.beneficiary[i] # "plan"
    BY <2>4, BeneficiaryEndsAtPlan DEF s
  <2>7. said = c
    BY <2>3, <2>6
  <2>8. made.revenire <=> c # words
    BY <2>3, <2>5 DEF Agenda!Contains
  <2> HIDE DEF said
  <2> QED
    BY <2>3, <2>4, <2>6, <2>7, <2>8 DEF Contains
<1> QED
  BY <1>1, ReadingStarts, ReadingStep, PTL DEF TextsSpec

-----------------------------------------------------------------------------
(* One piece more of what FlattenSeq puts together, after the pieces before it. *)
Joint(upTo, seqs, i) == IF i = 1 THEN seqs[i] ELSE upTo[i - 1] \o seqs[i]

LEMMA JoiningEnds ==
  ASSUME NEW seqs, NEW N \in Nat, N # 0
  PROVE  \E f : f = [i \in 1..N |-> Joint(f, seqs, i)]
<1> DEFINE Ends(k) == \E f : f = [i \in 1..k |-> Joint(f, seqs, i)]
           T == {k \in Nat : Ends(k)}
<1>1. 0 \in T
  <2> DEFINE f == [i \in 1..0 |-> <<>>]
  <2>1. f = [i \in 1..0 |-> Joint(f, seqs, i)]
    OBVIOUS
  <2>2. Ends(0)
    BY <2>1
  <2> QED
    BY <2>2
<1>2. ASSUME NEW k \in T PROVE k + 1 \in T
  <2>1. PICK f : f = [i \in 1..k |-> Joint(f, seqs, i)]
    OBVIOUS
  <2> DEFINE g == [i \in 1..(k + 1) |-> IF i <= k THEN f[i] ELSE Joint(f, seqs, i)]
  <2>2. ASSUME NEW i \in 1..(k + 1) PROVE g[i] = Joint(g, seqs, i)
    <3>1. i <= k => i \in 1..k
      OBVIOUS
    <3>2. \A x \in 1..k : f[x] = Joint(f, seqs, x)
      BY <2>1, Zenon
    <3>3. g[i] = Joint(f, seqs, i)
      BY <3>1, <3>2
    <3>4. CASE i = 1
      BY <3>3, <3>4 DEF Joint
    <3>5. CASE i # 1
      <4>1. i - 1 \in 1..(k + 1) /\ i - 1 <= k
        BY <3>5
      <4>2. g[i - 1] = f[i - 1]
        BY <4>1
      <4> HIDE DEF g
      <4> QED
        BY <3>3, <3>5, <4>2 DEF Joint
    <3> QED
      BY <3>4, <3>5
  <2>3. g = [i \in 1..(k + 1) |-> Joint(g, seqs, i)]
    BY <2>2
  <2>4. Ends(k + 1)
    BY <2>3
  <2> QED
    BY <2>4
<1> HIDE DEF T
<1>3. T \in SUBSET Nat
  BY DEF T
<1>4. T = Nat
  BY <1>1, <1>2, <1>3, NatInductionOfSet
<1> QED
  BY <1>4 DEF T

LEMMA JoinedInSteps ==
  ASSUME NEW seqs, Len(seqs) \in Nat, Len(seqs) # 0
  PROVE  \E f : /\ f = [i \in 1..Len(seqs) |-> Joint(f, seqs, i)]
                /\ FlattenSeq(seqs) = f[Len(seqs)]
<1> DEFINE Is(f) == f = [i \in 1..Len(seqs) |-> Joint(f, seqs, i)]
           f == CHOOSE f : Is(f)
<1>1. \E g : Is(g)
  BY JoiningEnds
<1>2. Is(f)
  BY <1>1
<1>3. FlattenSeq(seqs) = f[Len(seqs)]
  BY DEF FlattenSeq, Joint
<1> QED
  BY <1>2, <1>3

(* What Written puts for a word. *)
Piece(w, how) == IF w \in DOMAIN how THEN how[w] ELSE <<w>>

(* A text is written out word by word: f[n] is what stands there for its first n. *)
Writes(f, words, how) ==
  /\ f[0] = <<>>
  /\ \A n \in 1..Len(words) : f[n] = f[n - 1] \o Piece(words[n], how)
  /\ Written(words, how) = f[Len(words)]

LEMMA WrittenInSteps ==
  ASSUME NEW W, NEW S, NEW how, NEW words \in Seq(W), \A w \in W : Piece(w, how) \in Seq(S)
  PROVE  \E f : Writes(f, words, how) /\ \A n \in 0..Len(words) : f[n] \in Seq(S)
<1> DEFINE N == Len(words)
           seqs == [i \in DOMAIN words |-> Piece(words[i], how)]
<1>1. N \in Nat /\ DOMAIN words = 1..N /\ \A i \in 1..N : words[i] \in W
  OBVIOUS
<1>2. seqs = [i \in 1..N |-> Piece(words[i], how)]
  BY <1>1
<1>3. Len(seqs) = N /\ \A i \in 1..N : seqs[i] = Piece(words[i], how)
  BY <1>1, <1>2
<1>4. Written(words, how) = FlattenSeq(seqs)
  BY DEF Written, Piece
<1>5. \A i \in 1..N : seqs[i] \in Seq(S)
  BY <1>1, <1>3
<1>6. N = 0 => seqs = <<>>
  BY <1>2
<1> HIDE DEF N, seqs
<1>7. CASE N = 0
  <2> DEFINE f == [n \in 0..0 |-> <<>>]
  <2>1. FlattenSeq(seqs) = <<>>
    BY <1>3, <1>6, <1>7 DEF FlattenSeq
  <2>2. f[0] = <<>>
    OBVIOUS
  <2>3. f[0] \in Seq(S)
    BY <2>2
  <2> HIDE DEF f
  <2>4. Writes(f, words, how)
    BY <1>4, <1>7, <2>1, <2>2 DEF Writes, N
  <2> QED
    BY <1>7, <2>3, <2>4 DEF N
<1>8. CASE N # 0
  <2>1. PICK g : g = [i \in 1..N |-> Joint(g, seqs, i)] /\ FlattenSeq(seqs) = g[N]
    BY <1>1, <1>3, <1>8, JoinedInSteps
  <2>2. \A i \in 1..N : g[i] = Joint(g, seqs, i)
    BY <2>1, Zenon
  <2> DEFINE f == [n \in 0..N |-> IF n = 0 THEN <<>> ELSE g[n]]
             T == {n \in Nat : n <= N => f[n] \in Seq(S)}
  <2>3. f[0] = <<>> /\ \A n \in 1..N : f[n] = g[n]
    BY <1>1
  <2> HIDE DEF f
  <2>4. 0 \in T
    <3>1. f[0] \in Seq(S)
      BY <2>3
    <3> QED
      BY <3>1
  <2>5. ASSUME NEW n \in T PROVE n + 1 \in T
    <3>1. SUFFICES ASSUME n + 1 <= N PROVE f[n + 1] \in Seq(S)
      OBVIOUS
    <3>2. n \in Nat /\ n + 1 \in 1..N /\ (n + 1) - 1 = n /\ f[n] \in Seq(S)
      BY <1>1, <3>1
    <3>3. f[n + 1] = Joint(g, seqs, n + 1)
      BY <2>2, <2>3, <3>2, Zenon
    <3>4. CASE n = 0
      BY <1>5, <3>2, <3>3, <3>4 DEF Joint
    <3>5. CASE n # 0
      <4>1. n \in 1..N /\ n + 1 # 1
        BY <1>1, <3>1, <3>2, <3>5
      <4>2. f[n + 1] = f[n] \o seqs[n + 1]
        BY <2>3, <3>2, <3>3, <4>1 DEF Joint
      <4>3. seqs[n + 1] \in Seq(S)
        BY <1>5, <3>2
      <4> QED
        BY <3>2, <4>2, <4>3, ConcatProperties
    <3> QED
      BY <3>4, <3>5
  <2> HIDE DEF T
  <2>6. T = Nat
    <3>1. T \in SUBSET Nat
      BY DEF T
    <3> QED
      BY <2>4, <2>5, <3>1, NatInductionOfSet
  <2>7. \A n \in 0..N : f[n] \in Seq(S)
    BY <1>1, <2>6 DEF T
  <2>8. ASSUME NEW n \in 1..N PROVE f[n] = f[n - 1] \o Piece(words[n], how)
    <3>1. f[n] = Joint(g, seqs, n) /\ seqs[n] = Piece(words[n], how) /\ seqs[n] \in Seq(S)
      BY <1>3, <1>5, <2>2, <2>3, Zenon
    <3>2. CASE n = 1
      <4>1. f[n] = seqs[n] /\ f[n - 1] = <<>>
        BY <2>3, <3>1, <3>2 DEF Joint
      <4> QED
        BY <3>1, <4>1, ConcatEmptySeq
    <3>3. CASE n # 1
      <4>1. n - 1 \in 1..N
        BY <1>1, <3>3
      <4> QED
        BY <2>3, <3>1, <3>3, <4>1 DEF Joint
    <3> QED
      BY <3>2, <3>3
  <2>9. N \in 1..N
    BY <1>1, <1>8
  <2>10. Written(words, how) = f[N]
    BY <1>4, <2>1, <2>3, <2>9
  <2> QED
    BY <2>3, <2>7, <2>8, <2>10 DEF Writes, N
<1> QED
  BY <1>7, <1>8

(* A phrase whose last word stands in a piece of a text only if the piece is the
   phrase is found behind the piece where it was before, and in the piece itself. *)
LEMMA FoundInPieces ==
  ASSUME NEW S, NEW x \in Seq(S), NEW y \in Seq(S), NEW phrase \in Seq(S), phrase # <<>>,
         \A k \in 1..Len(y) : y[k] = phrase[Len(phrase)] => y = phrase
  PROVE  Class!Has(x \o y, phrase) <=> Class!Has(x, phrase) \/ y = phrase
<1> DEFINE m == Len(x)
           n == Len(y)
           q == Len(phrase)
           z == x \o y
<1>1. m \in Nat /\ n \in Nat /\ q \in Nat /\ q # 0 /\ DOMAIN phrase = 1..q /\ DOMAIN x = 1..m
  OBVIOUS
<1>2. z \in Seq(S) /\ Len(z) = m + n
      /\ \A i \in 1..(m + n) : z[i] = IF i <= m THEN x[i] ELSE y[i - m]
  BY ConcatProperties
<1>3. DOMAIN z = 1..(m + n)
  BY <1>2
<1>4. \A k \in 1..n : y[k] = phrase[q] => y = phrase
  OBVIOUS
<1> DEFINE InX(i) == i + q - 1 <= m /\ \A j \in 1..q : x[i + j - 1] = phrase[j]
           InZ(i) == i + q - 1 <= m + n /\ \A j \in 1..q : z[i + j - 1] = phrase[j]
<1>5. Class!Has(x, phrase) <=> \E i \in 1..m : InX(i)
  BY <1>1 DEF Class!Has, Class!StandsAt
<1>6. Class!Has(z, phrase) <=> \E i \in 1..(m + n) : InZ(i)
  BY <1>1, <1>2, <1>3 DEF Class!Has, Class!StandsAt
<1> HIDE DEF m, n, q, z
<1>7. ASSUME NEW i \in 1..m, InX(i) PROVE i \in 1..(m + n) /\ InZ(i)
  <2>1. i \in 1..(m + n) /\ i + q - 1 <= m + n
    BY <1>1, <1>7
  <2>2. ASSUME NEW j \in 1..q PROVE z[i + j - 1] = phrase[j]
    <3>1. i + j - 1 \in 1..(m + n) /\ i + j - 1 <= m
      BY <1>1, <1>7
    <3> QED
      BY <1>2, <1>7, <3>1
  <2> QED
    BY <2>1, <2>2
<1>8. ASSUME y = phrase PROVE m + 1 \in 1..(m + n) /\ InZ(m + 1)
  <2>1. n = q
    BY <1>8 DEF n, q
  <2>2. m + 1 \in 1..(m + n) /\ (m + 1) + q - 1 <= m + n
    BY <1>1, <2>1
  <2>3. ASSUME NEW j \in 1..q PROVE z[(m + 1) + j - 1] = phrase[j]
    <3>1. (m + 1) + j - 1 \in 1..(m + n) /\ ~((m + 1) + j - 1 <= m)
          /\ ((m + 1) + j - 1) - m = j
      BY <1>1, <2>1
    <3> QED
      BY <1>2, <1>8, <3>1
  <2> QED
    BY <2>2, <2>3
<1>9. ASSUME NEW i \in 1..(m + n), InZ(i) PROVE y = phrase \/ (i \in 1..m /\ InX(i))
  <2>1. q \in 1..q /\ i + q - 1 \in 1..(m + n)
    BY <1>1, <1>9
  <2>2. z[i + q - 1] = phrase[q]
    BY <1>9, <2>1
  <2>3. CASE i + q - 1 <= m
    <3>1. i \in 1..m
      BY <1>1, <2>3
    <3>2. ASSUME NEW j \in 1..q PROVE x[i + j - 1] = phrase[j]
      <4>1. i + j - 1 \in 1..(m + n) /\ i + j - 1 <= m
        BY <1>1, <2>3
      <4> QED
        BY <1>2, <1>9, <4>1
    <3> QED
      BY <2>3, <3>1, <3>2
  <2>4. CASE ~(i + q - 1 <= m)
    <3>1. (i + q - 1) - m \in 1..n
      BY <1>1, <2>1, <2>4
    <3>2. z[i + q - 1] = y[(i + q - 1) - m]
      BY <1>2, <2>1, <2>4
    <3> QED
      BY <1>4, <2>2, <3>1, <3>2
  <2> QED
    BY <2>3, <2>4
<1> HIDE DEF InX, InZ
<1> QED
  BY <1>5, <1>6, <1>7, <1>8, <1>9 DEF z

(* A word stands in two texts put together if it stands in one of them. *)
LEMMA ContainedInPieces ==
  ASSUME NEW S, NEW x \in Seq(S), NEW y \in Seq(S), NEW w
  PROVE  Class!Contains(x \o y, w) <=> Class!Contains(x, w) \/ Class!Contains(y, w)
<1> DEFINE m == Len(x)
           n == Len(y)
           z == x \o y
<1>1. m \in Nat /\ n \in Nat
  OBVIOUS
<1>2. Len(z) = m + n /\ \A i \in 1..(m + n) : z[i] = IF i <= m THEN x[i] ELSE y[i - m]
  BY ConcatProperties
<1>3. /\ Class!Contains(x, w) <=> \E i \in 1..m : x[i] = w
      /\ Class!Contains(y, w) <=> \E i \in 1..n : y[i] = w
      /\ Class!Contains(z, w) <=> \E i \in 1..(m + n) : z[i] = w
  BY <1>2 DEF Class!Contains
<1> HIDE DEF m, n, z
<1>4. ASSUME NEW i \in 1..m PROVE i \in 1..(m + n) /\ z[i] = x[i]
  <2>1. i \in 1..(m + n) /\ i <= m
    BY <1>1
  <2> QED
    BY <1>2, <2>1
<1>5. ASSUME NEW i \in 1..n PROVE m + i \in 1..(m + n) /\ z[m + i] = y[i]
  <2>1. m + i \in 1..(m + n) /\ ~(m + i <= m) /\ (m + i) - m = i
    BY <1>1
  <2> QED
    BY <1>2, <2>1
<1>6. ASSUME NEW i \in 1..(m + n)
      PROVE  (i \in 1..m /\ z[i] = x[i]) \/ (i - m \in 1..n /\ z[i] = y[i - m])
  <2>1. i <= m => i \in 1..m
    OBVIOUS
  <2>2. ~(i <= m) => i - m \in 1..n
    BY <1>1
  <2> QED
    BY <1>2, <2>1, <2>2
<1> QED
  BY <1>3, <1>4, <1>5, <1>6 DEF z

(* A phrase is in no text that has none of its words. *)
LEMMA FoundNowhere ==
  ASSUME NEW S, NEW T, NEW x \in Seq(S), NEW phrase \in Seq(T), phrase # <<>>, S \cap T = {}
  PROVE  ~Class!Has(x, phrase)
<1>1. 1 \in DOMAIN phrase /\ phrase[1] \in T
  OBVIOUS
<1> SUFFICES ASSUME NEW i \in DOMAIN x, Class!StandsAt(phrase, x, i) PROVE FALSE
  BY DEF Class!Has
<1>2. x[i + 1 - 1] = phrase[1]
  BY <1>1 DEF Class!StandsAt
<1>3. i + 1 - 1 = i /\ x[i] \in S
  OBVIOUS
<1> QED
  BY <1>1, <1>2, <1>3

Plans == {"puz", "pud"}

(* The words of S, none of a title, spell out the abbreviations; the last word of one
   is nowhere else in them. *)
Spells(how, S) ==
  /\ DOMAIN how = Plans
  /\ S \cap Vocabulary = {}
  /\ \A p \in Plans : how[p] \in Seq(S) /\ how[p] # <<>>
  /\ \A p, q \in Plans : \A k \in 1..Len(how[q]) : how[q][k] = how[p][Len(how[p])] => p = q

LetterWords == {"p", "u", "z", "d"}
PhraseWords == {"plan", "urbanistic", "zonal", "de", "detaliu"}

LEMMA ThreeWords ==
  ASSUME NEW S, NEW a \in S, NEW b \in S, NEW c \in S
  PROVE  <<a, b, c>> \in Seq(S) /\ Len(<<a, b, c>>) = 3
OBVIOUS

LEMMA FourWords ==
  ASSUME NEW S, NEW a \in S, NEW b \in S, NEW c \in S, NEW d \in S
  PROVE  <<a, b, c, d>> \in Seq(S) /\ Len(<<a, b, c, d>>) = 4
OBVIOUS

LEMMA LettersSpell == Spells(Class!Letters, LetterWords)
<1>1. /\ DOMAIN Class!Letters = Plans
      /\ Class!Letters["puz"] = <<"p", "u", "z">> /\ Class!Letters["pud"] = <<"p", "u", "d">>
  BY DEF Class!Letters, Plans
<1>2. \A p \in Plans : Class!Letters[p] \in Seq(LetterWords) /\ Len(Class!Letters[p]) = 3
  <2>1. {"p", "u", "z", "d"} \subseteq LetterWords
    BY DEF LetterWords
  <2>2. "p" \in LetterWords /\ "u" \in LetterWords /\ "z" \in LetterWords /\ "d" \in LetterWords
    BY <2>1
  <2> HIDE DEF LetterWords
  <2>3. /\ <<"p", "u", "z">> \in Seq(LetterWords) /\ Len(<<"p", "u", "z">>) = 3
        /\ <<"p", "u", "d">> \in Seq(LetterWords) /\ Len(<<"p", "u", "d">>) = 3
    BY <2>2, ThreeWords, Zenon
  <2> QED
    BY <1>1, <2>3, Zenon DEF Plans
<1>3. \A p \in Plans : Class!Letters[p] # <<>>
  <2>1. Len(<<>>) = 0
    OBVIOUS
  <2> QED
    BY <1>2, <2>1
<1>4. LetterWords \cap Vocabulary = {}
  BY DEF LetterWords, Vocabulary
<1>5. \A p, q \in Plans : \A k \in 1..3 : Class!Letters[q][k] = Class!Letters[p][3] => p = q
  BY <1>1 DEF Plans
<1> QED
  BY <1>1, <1>2, <1>3, <1>4, <1>5 DEF Spells

LEMMA PhrasesSpell == Spells(Class!Phrase, PhraseWords)
<1>1. /\ DOMAIN Class!Phrase = Plans
      /\ Class!Phrase["puz"] = <<"plan", "urbanistic", "zonal">>
      /\ Class!Phrase["pud"] = <<"plan", "urbanistic", "de", "detaliu">>
  BY DEF Class!Phrase, Plans
<1>2. /\ \A p \in Plans : Class!Phrase[p] \in Seq(PhraseWords)
      /\ Len(Class!Phrase["puz"]) = 3 /\ Len(Class!Phrase["pud"]) = 4
  <2>1. /\ "plan" \in PhraseWords /\ "urbanistic" \in PhraseWords /\ "zonal" \in PhraseWords
        /\ "de" \in PhraseWords /\ "detaliu" \in PhraseWords
    BY DEF PhraseWords
  <2>2. /\ <<"plan", "urbanistic", "zonal">> \in Seq(PhraseWords)
        /\ Len(<<"plan", "urbanistic", "zonal">>) = 3
    BY <2>1, ThreeWords, Zenon
  <2>3. /\ <<"plan", "urbanistic", "de", "detaliu">> \in Seq(PhraseWords)
        /\ Len(<<"plan", "urbanistic", "de", "detaliu">>) = 4
    BY <2>1, FourWords, Zenon
  <2> QED
    BY <1>1, <2>2, <2>3, Zenon DEF Plans
<1>3. \A p \in Plans : Class!Phrase[p] # <<>>
  <2>1. Len(<<>>) = 0
    OBVIOUS
  <2>2. Class!Phrase["puz"] # <<>>
    BY <1>2, <2>1
  <2>3. Class!Phrase["pud"] # <<>>
    BY <1>2, <2>1
  <2> QED
    BY <2>2, <2>3, Zenon DEF Plans
<1>4. PhraseWords \cap Vocabulary = {}
  BY DEF PhraseWords, Vocabulary
<1>5. /\ \A k \in 1..3 : Class!Phrase["puz"][k] # "detaliu"
      /\ \A k \in 1..4 : Class!Phrase["pud"][k] # "zonal"
  BY <1>1
<1>6. /\ Class!Phrase["puz"][Len(Class!Phrase["puz"])] = "zonal"
      /\ Class!Phrase["pud"][Len(Class!Phrase["pud"])] = "detaliu"
  BY <1>1, <1>2
<1>7. \A p, q \in Plans : \A k \in 1..Len(Class!Phrase[q]) :
        Class!Phrase[q][k] = Class!Phrase[p][Len(Class!Phrase[p])] => p = q
  BY <1>2, <1>5, <1>6 DEF Plans
<1> QED
  BY <1>1, <1>3, <1>2, <1>4, <1>7 DEF Spells

(* In a text written out, an abbreviation of the text is found as it is spelled and
   no longer as it was; every other word stands where a reader expects it. *)
LEMMA WrittenSaysTheSame ==
  ASSUME NEW how, NEW S, Spells(how, S), NEW words \in Seq(Vocabulary)
  PROVE  /\ Written(words, how) \in Seq((Vocabulary \ Plans) \cup S)
         /\ \A p \in Plans : Class!Has(Written(words, how), how[p]) <=> Class!Contains(words, p)
         /\ \A w \in Vocabulary \ Plans :
              Class!Contains(Written(words, how), w) <=> Class!Contains(words, w)
<1> DEFINE N == Len(words)
           A == (Vocabulary \ Plans) \cup S
<1>1. N \in Nat /\ \A i \in 1..N : words[i] \in Vocabulary
  OBVIOUS
<1>2. /\ DOMAIN how = Plans /\ S \cap Vocabulary = {}
      /\ \A p \in Plans : how[p] \in Seq(S) /\ how[p] # <<>>
      /\ \A p, q \in Plans : \A k \in 1..Len(how[q]) : how[q][k] = how[p][Len(how[p])] => p = q
  BY Zenon DEF Spells
<1>3. ASSUME NEW w \in Vocabulary PROVE Piece(w, how) \in Seq(A)
  <2>1. CASE w \in Plans
    <3>1. how[w] \in Seq(S) /\ S \subseteq A
      BY <1>2, <2>1
    <3> QED
      BY <1>2, <2>1, <3>1, SeqMonotonic DEF Piece
  <2>2. CASE w \notin Plans
    <3>1. w \in A
      BY <2>2
    <3> QED
      BY <1>2, <2>2, <3>1 DEF Piece
  <2> QED
    BY <2>1, <2>2
<1>4. PICK f : Writes(f, words, how) /\ \A n \in 0..N : f[n] \in Seq(A)
  <2> HIDE DEF A
  <2> QED
    BY <1>3, WrittenInSteps
<1>5. \A p \in Plans : how[p] \in Seq(A)
  <2>1. S \subseteq A
    OBVIOUS
  <2> QED
    BY <1>2, <2>1, SeqMonotonic
<1>6. \A n \in 1..N : f[n] = f[n - 1] \o Piece(words[n], how)
  BY <1>4 DEF Writes
<1>7. f[0] = <<>> /\ Written(words, how) = f[N]
  BY <1>4 DEF Writes
<1> HIDE DEF A, N
<1> DEFINE Named(w, n) == \E i \in 1..n : words[i] = w
           Holds(n) == /\ \A p \in Plans : Class!Has(f[n], how[p]) <=> Named(p, n)
                       /\ \A w \in Vocabulary \ Plans : Class!Contains(f[n], w) <=> Named(w, n)
           T == {n \in Nat : n <= N => Holds(n)}
<1>8. 0 \in T
  <2>1. \A w : ~Named(w, 0)
    OBVIOUS
  <2>2. \A w : ~Class!Contains(f[0], w)
    BY <1>7 DEF Class!Contains
  <2>3. \A p : ~Class!Has(f[0], how[p])
    BY <1>7 DEF Class!Has
  <2> HIDE DEF Named
  <2>4. Holds(0)
    BY <2>1, <2>2, <2>3
  <2> QED
    BY <2>4
<1>9. ASSUME NEW n \in T PROVE n + 1 \in T
  <2>1. SUFFICES ASSUME n + 1 <= N PROVE Holds(n + 1)
    OBVIOUS
  <2> DEFINE v == words[n + 1]
             y == Piece(v, how)
  <2>2. n \in Nat /\ n + 1 \in 1..N /\ n \in 0..N /\ (n + 1) - 1 = n /\ Holds(n)
    BY <1>1, <2>1
  <2>3. v \in Vocabulary /\ f[n] \in Seq(A) /\ f[n + 1] = f[n] \o y
    BY <1>1, <1>4, <1>6, <2>2 DEF N
  <2>4. y \in Seq(A)
    BY <1>3, <2>3
  <2>5. \A w : Named(w, n + 1) <=> Named(w, n) \/ v = w
    BY <2>2
  <2> HIDE DEF v, Named
  <2>6. v \in Plans => y = how[v]
    BY <1>2 DEF Piece
  <2>7. v \notin Plans => y = <<v>>
    BY <1>2 DEF Piece
  <2> HIDE DEF y
  <2>8. ASSUME NEW p \in Plans PROVE Class!Has(f[n + 1], how[p]) <=> Named(p, n + 1)
    <3> DEFINE last == how[p][Len(how[p])]
    <3>0. last \in S
      BY <1>2
    <3>1. \A k \in 1..Len(y) : y[k] = last => y = how[p]
      <4>1. CASE v \in Plans
        BY <1>2, <2>6, <4>1
      <4>2. CASE v \notin Plans
        <5>1. v # last
          BY <1>2, <2>3, <3>0
        <5>2. Len(y) = 1 /\ y[1] = v
          BY <2>7, <4>2
        <5> HIDE DEF last
        <5> QED
          BY <5>1, <5>2
      <4> QED
        BY <4>1, <4>2
    <3>2. y = how[p] <=> v = p
      <4>1. CASE v \in Plans
        <5>1. Len(how[p]) \in 1..Len(how[p])
          BY <1>2
        <5>2. how[v] = how[p] => v = p
          BY <1>2, <4>1, <5>1
        <5> QED
          BY <2>6, <4>1, <5>2
      <4>2. CASE v \notin Plans
        <5>1. y = <<v>> /\ v # p
          BY <2>7, <4>2
        <5>2. how[p] # <<v>>
          BY <1>2, <2>3
        <5> QED
          BY <5>1, <5>2
      <4> QED
        BY <4>1, <4>2
    <3>3. Class!Has(f[n] \o y, how[p]) <=> Class!Has(f[n], how[p]) \/ y = how[p]
      BY <1>2, <1>5, <2>3, <2>4, <3>1, FoundInPieces
    <3> QED
      BY <2>2, <2>3, <2>5, <3>2, <3>3
  <2>9. ASSUME NEW w \in Vocabulary \ Plans
        PROVE  Class!Contains(f[n + 1], w) <=> Named(w, n + 1)
    <3>1. Class!Contains(y, w) <=> v = w
      <4>1. CASE v \in Plans
        <5>1. y \in Seq(S)
          BY <1>2, <2>6, <4>1
        <5>2. ~Class!Contains(y, w)
          BY <1>2, <5>1 DEF Class!Contains
        <5> QED
          BY <4>1, <5>2
      <4>2. CASE v \notin Plans
        <5>1. Len(y) = 1 /\ y[1] = v
          BY <2>7, <4>2
        <5> QED
          BY <5>1 DEF Class!Contains
      <4> QED
        BY <4>1, <4>2
    <3>2. Class!Contains(f[n] \o y, w) <=> Class!Contains(f[n], w) \/ Class!Contains(y, w)
      BY <2>3, <2>4, ContainedInPieces
    <3> QED
      BY <2>2, <2>3, <2>5, <3>1, <3>2
  <2> QED
    BY <2>8, <2>9
<1> HIDE DEF T
<1>10. T = Nat
  <2>1. T \in SUBSET Nat
    BY DEF T
  <2> QED
    BY <1>8, <1>9, <2>1, NatInductionOfSet
<1>11. Holds(N)
  BY <1>1, <1>10 DEF T
<1>12. \A w : Class!Contains(words, w) <=> Named(w, N)
  BY DEF Class!Contains, N
<1>13. Written(words, how) \in Seq(A)
  BY <1>1, <1>4, <1>7
<1> HIDE DEF Named
<1> QED
  BY <1>7, <1>11, <1>12, <1>13 DEF A

(* What stands in a text at j if its p-th word, and no other, is spelled out. *)
SpelledOnce(words, p, j) ==
  IF j < p THEN words[j]
  ELSE IF j <= p + 2 THEN Class!Letters[words[p]][j - p + 1] ELSE words[j - 2]

LEMMA WrittenOnce ==
  ASSUME NEW words \in Seq(Vocabulary), NEW p \in Nat, p # 0,
         \A i \in 1..Len(words) : words[i] \in Plans <=> i = p
  PROVE  LET a == Written(words, Class!Letters)
         IN /\ Len(a) = IF Len(words) < p THEN Len(words) ELSE Len(words) + 2
            /\ \A j \in 1..Len(a) : a[j] = SpelledOnce(words, p, j)
<1> DEFINE N == Len(words)
           how == Class!Letters
           A == Vocabulary \cup LetterWords
<1>1. N \in Nat /\ \A i \in 1..N : words[i] \in Vocabulary /\ (words[i] \in Plans <=> i = p)
  OBVIOUS
<1>2. DOMAIN how = Plans /\ \A q \in Plans : how[q] \in Seq(LetterWords)
  BY LettersSpell, Zenon DEF Spells
<1>3. \A q \in Plans : Len(how[q]) = 3
  BY DEF Class!Letters, Plans
<1>4. LetterWords \subseteq A /\ Vocabulary \subseteq A
  OBVIOUS
<1> HIDE DEF how, A
<1>5. \A q \in Plans : how[q] \in Seq(A)
  BY <1>2, <1>4, SeqMonotonic
<1>6. ASSUME NEW w \in Vocabulary PROVE Piece(w, how) \in Seq(A)
  <2>1. w \in A
    BY <1>4
  <2> QED
    BY <1>2, <1>5, <2>1 DEF Piece
<1>7. PICK f : Writes(f, words, how) /\ \A n \in 0..N : f[n] \in Seq(A)
  BY <1>6, WrittenInSteps
<1>8. f[0] = <<>> /\ Written(words, how) = f[N]
  BY <1>7 DEF Writes
<1>9. \A n \in 1..N : f[n] = f[n - 1] \o Piece(words[n], how)
  BY <1>7 DEF Writes
<1> HIDE DEF N
<1> DEFINE Size(n) == IF n < p THEN n ELSE n + 2
           Holds(n) == /\ Len(f[n]) = Size(n)
                       /\ \A j \in 1..Size(n) : f[n][j] = SpelledOnce(words, p, j)
           T == {n \in Nat : n <= N => Holds(n)}
<1>10. 0 \in T
  <2>1. Size(0) = 0
    OBVIOUS
  <2> HIDE DEF Size
  <2>2. Len(f[0]) = 0
    BY <1>8
  <2>3. 1..0 = {}
    OBVIOUS
  <2> QED
    BY <2>1, <2>2, <2>3
<1>11. ASSUME NEW n \in T PROVE n + 1 \in T
  <2>1. SUFFICES ASSUME n + 1 <= N PROVE Holds(n + 1)
    OBVIOUS
  <2> DEFINE v == words[n + 1]
             y == Piece(v, how)
             x == f[n]
             z == f[n + 1]
  <2>2. n \in Nat /\ n + 1 \in 1..N /\ n \in 0..N /\ (n + 1) - 1 = n /\ Holds(n)
    BY <1>1, <2>1
  <2>3. v \in Vocabulary /\ (v \in Plans <=> n + 1 = p)
    BY <1>1, <2>2
  <2>4. x \in Seq(A) /\ z = x \o y /\ y \in Seq(A)
    BY <1>6, <1>7, <1>9, <2>2, <2>3
  <2>5. /\ Len(x) = Size(n)
        /\ \A j \in 1..Size(n) : x[j] = SpelledOnce(words, p, j)
    BY <2>2
  <2>6. v \in Plans => y = how[v] /\ Len(y) = 3
    BY <1>2, <1>3 DEF Piece
  <2>7. v \notin Plans => Len(y) = 1 /\ y[1] = v
    BY <1>2 DEF Piece
  <2> HIDE DEF y, x, z
  <2>8. Len(z) = Len(x) + Len(y)
        /\ \A j \in 1..Len(x) + Len(y) : z[j] = IF j <= Len(x) THEN x[j] ELSE y[j - Len(x)]
    BY <2>4, ConcatProperties
  <2>9. CASE n + 1 = p
    <3>1. Size(n) = n /\ Size(n + 1) = n + 3
      BY <2>2, <2>9
    <3>2. Len(x) = n /\ Len(y) = 3 /\ y = how[v]
      BY <2>3, <2>5, <2>6, <2>9, <3>1
    <3>3. ASSUME NEW j \in 1..(n + 3) PROVE z[j] = SpelledOnce(words, p, j)
      <4>1. CASE j <= n
        <5>1. j \in 1..n
          BY <4>1
        <5> QED
          BY <2>2, <2>5, <2>8, <3>1, <3>2, <4>1, <5>1
      <4>2. CASE ~(j <= n)
        <5>1. z[j] = y[j - n]
          BY <2>2, <2>8, <3>2, <4>2
        <5>2. ~(j < p) /\ j <= p + 2 /\ j - p + 1 = j - n
          BY <2>2, <2>9, <4>2
        <5>3. SpelledOnce(words, p, j) = how[words[p]][j - p + 1]
          BY <5>2 DEF SpelledOnce, how
        <5> QED
          BY <2>9, <3>2, <5>1, <5>2, <5>3 DEF v
      <4> QED
        BY <4>1, <4>2
    <3>4. Len(z) = Size(n + 1)
      BY <2>2, <2>8, <3>1, <3>2
    <3> QED
      BY <3>1, <3>3, <3>4 DEF z
  <2>10. CASE n + 1 # p
    <3>1. Size(n + 1) = Size(n) + 1 /\ Size(n) \in Nat
      BY <2>2, <2>10
    <3>2. SpelledOnce(words, p, Size(n) + 1) = v
      <4>1. CASE n + 1 < p
        BY <2>2, <4>1 DEF SpelledOnce, v
      <4>2. CASE ~(n + 1 < p)
        <5>1. Size(n) + 1 = n + 3 /\ ~(n + 3 < p) /\ ~(n + 3 <= p + 2) /\ (n + 3) - 2 = n + 1
          BY <2>2, <2>10, <4>2
        <5> QED
          BY <5>1 DEF SpelledOnce, v
      <4> QED
        BY <4>1, <4>2
    <3> HIDE DEF Size
    <3>3. Len(x) = Size(n) /\ Len(y) = 1 /\ y[1] = v
      BY <2>3, <2>5, <2>7, <2>10
    <3>4. Len(z) = Size(n + 1)
      BY <2>8, <3>1, <3>3
    <3>5. ASSUME NEW j \in 1..(Size(n) + 1) PROVE z[j] = SpelledOnce(words, p, j)
      <4>1. CASE j <= Size(n)
        <5>1. j \in 1..Size(n)
          BY <3>1, <4>1
        <5> QED
          BY <2>5, <2>8, <3>3, <4>1, <5>1
      <4>2. CASE ~(j <= Size(n))
        <5>1. j = Size(n) + 1 /\ j - Size(n) = 1
          BY <3>1, <4>2
        <5>2. z[j] = y[j - Size(n)]
          BY <2>8, <3>3, <4>2
        <5> QED
          BY <3>2, <3>3, <5>1, <5>2
      <4> QED
        BY <4>1, <4>2
    <3> QED
      BY <3>1, <3>4, <3>5 DEF z
  <2> QED
    BY <2>9, <2>10
<1> HIDE DEF T
<1>12. T = Nat
  <2>1. T \in SUBSET Nat
    BY DEF T
  <2> QED
    BY <1>10, <1>11, <2>1, NatInductionOfSet
<1>13. Holds(N)
  BY <1>1, <1>12 DEF T
<1> QED
  BY <1>8, <1>13 DEF N, how

(* An abbreviation leads a text if it is among the first words and no word of Stop
   stands before it: of the only one of a text it does not matter how it is written. *)
LEMMA LeadsAsWritten ==
  ASSUME NEW words \in Seq(Vocabulary), NEW p \in Nat, p # 0, NEW ab \in Plans,
         \A i \in 1..Len(words) : words[i] \in Plans <=> i = p
  PROVE  Class!LeadsWithAbbrev(Written(words, Class!Letters), ab)
           <=> Class!LeadsWithAbbrev(words, ab)
<1> DEFINE N == Len(words)
           a == Written(words, Class!Letters)
           M == IF N < p THEN N ELSE N + 2
           Led == /\ p <= N /\ p <= Leading /\ words[p] = ab
                  /\ \A j \in 1..(p - 1) : words[j] \notin Class!Stop
<1>1. N \in Nat /\ DOMAIN words = 1..N
      /\ \A i \in 1..N : words[i] \in Vocabulary /\ (words[i] \in Plans <=> i = p)
  OBVIOUS
<1>2. Len(a) = M /\ \A j \in 1..M : a[j] = SpelledOnce(words, p, j)
  BY WrittenOnce
<1>3. a \in Seq((Vocabulary \ Plans) \cup LetterWords)
  BY LettersSpell, WrittenSaysTheSame
<1>4. DOMAIN a = 1..M /\ M \in Nat
  BY <1>1, <1>2, <1>3
<1>5. \A j \in 1..M : a[j] \in (Vocabulary \ Plans) \cup LetterWords
  BY <1>3, <1>4
<1> HIDE DEF a, N
<1>6. ASSUME NEW q \in Plans
      PROVE  /\ Len(Class!Letters[q]) = 3 /\ DOMAIN Class!Letters[q] = 1..3
             /\ Class!Letters[q][1] = "p" /\ Class!Letters[q][2] = "u"
             /\ Class!Letters[q][3] = IF q = "puz" THEN "z" ELSE "d"
  BY DEF Class!Letters, Plans
<1>7. Plans \cap Class!Stop = {} /\ LetterWords \cap Class!Stop = {}
      /\ Plans \cap LetterWords = {} /\ Vocabulary \cap LetterWords = {}
  BY DEF Plans, LetterWords, Class!Stop, Vocabulary
<1>8. Class!LeadsWithAbbrev(words, ab) <=> Led
  <2>1. ASSUME NEW i \in 1..N PROVE ~Class!StandsAt(Class!Letters[ab], words, i)
    <3>1. SUFFICES ASSUME Class!StandsAt(Class!Letters[ab], words, i) PROVE FALSE
      OBVIOUS
    <3>2. words[i + 1 - 1] = "p"
      BY <1>6, <3>1 DEF Class!StandsAt
    <3>3. i + 1 - 1 = i /\ "p" \in LetterWords
      BY DEF LetterWords
    <3> QED
      BY <1>1, <1>7, <3>2, <3>3
  <2>2. ASSUME Class!LeadsWithAbbrev(words, ab) PROVE Led
    <3>1. PICK i \in 1..N : /\ i <= Leading
                            /\ \A j \in 1..i : words[j] \notin Class!Stop
                            /\ words[i] = ab
      BY <1>1, <2>1, <2>2 DEF Class!LeadsWithAbbrev
    <3>2. i = p
      BY <1>1, <3>1
    <3>3. p <= N /\ \A j \in 1..(p - 1) : j \in 1..p
      BY <3>2
    <3> QED
      BY <3>1, <3>2, <3>3
  <2>3. ASSUME Led PROVE Class!LeadsWithAbbrev(words, ab)
    <3>1. p \in DOMAIN words
      BY <1>1, <2>3
    <3>2. ASSUME NEW j \in 1..p PROVE words[j] \notin Class!Stop
      <4>1. j = p \/ j \in 1..(p - 1)
        OBVIOUS
      <4> QED
        BY <1>7, <2>3, <4>1
    <3> QED
      BY <2>3, <3>1, <3>2 DEF Class!LeadsWithAbbrev
  <2> QED
    BY <2>2, <2>3
<1>9. ASSUME NEW j \in 1..M, j < p PROVE a[j] = words[j] /\ j \in 1..N
  <2>1. j \in 1..N
    BY <1>1, <1>9
  <2> QED
    BY <1>2, <1>9, <2>1 DEF SpelledOnce
<1>10. p <= N => M = N + 2 /\ p \in 1..N /\ words[p] \in Plans
  BY <1>1
<1>11. ASSUME p <= N, NEW k \in 1..3
       PROVE  p + k - 1 \in 1..M /\ a[p + k - 1] = Class!Letters[words[p]][k]
  <2>1. p + k - 1 \in 1..M /\ ~(p + k - 1 < p) /\ p + k - 1 <= p + 2 /\ (p + k - 1) - p + 1 = k
    BY <1>1, <1>10, <1>11
  <2> HIDE DEF M
  <2> QED
    BY <1>2, <2>1 DEF SpelledOnce
<1>12. ASSUME NEW i \in 1..M, a[i] = "p" PROVE i = p /\ p <= N
  <2>0. "p" \in LetterWords
    BY DEF LetterWords
  <2>1. ~(i < p)
    BY <1>1, <1>7, <1>9, <1>12, <2>0
  <2>2. p <= N
    BY <1>1, <2>1
  <2>3. CASE i <= p + 2
    <3>1. PICK k \in 1..3 : i = p + k - 1
      <4>1. i - p + 1 \in 1..3 /\ i = p + (i - p + 1) - 1
        BY <1>1, <2>1, <2>3
      <4> QED
        BY <4>1
    <3>2. Class!Letters[words[p]][k] = "p"
      BY <1>11, <1>12, <2>2, <3>1
    <3>3. k = 1
      BY <1>6, <1>10, <2>2, <3>2
    <3> QED
      BY <2>2, <3>1, <3>3
  <2>4. CASE ~(i <= p + 2)
    <3>1. i - 2 \in 1..N
      BY <1>1, <1>10, <2>2, <2>4
    <3>2. a[i] = words[i - 2]
      BY <1>2, <2>1, <2>4 DEF SpelledOnce
    <3> QED
      BY <1>1, <1>7, <1>12, <2>0, <3>1, <3>2
  <2> QED
    BY <2>3, <2>4
<1>13. Class!LeadsWithAbbrev(a, ab) <=> Led
  <2>1. ASSUME Class!LeadsWithAbbrev(a, ab) PROVE Led
    <3>1. PICK i \in 1..M : /\ i <= Leading
                            /\ \A j \in 1..i : a[j] \notin Class!Stop
                            /\ a[i] = ab \/ Class!StandsAt(Class!Letters[ab], a, i)
      BY <1>4, <2>1 DEF Class!LeadsWithAbbrev
    <3>2. a[i] # ab
      BY <1>5, <1>7
    <3>3. Class!StandsAt(Class!Letters[ab], a, i)
      BY <3>1, <3>2
    <3>4. a[i + 1 - 1] = "p" /\ a[i + 3 - 1] = Class!Letters[ab][3]
      BY <1>6, <3>3 DEF Class!StandsAt
    <3>5. i + 1 - 1 = i
      OBVIOUS
    <3>6. i = p /\ p <= N
      BY <1>12, <3>4, <3>5
    <3>7. a[p + 3 - 1] = Class!Letters[words[p]][3]
      BY <1>11, <3>6
    <3>8. words[p] = ab
      BY <1>6, <1>10, <3>4, <3>6, <3>7 DEF Plans
    <3>9. ASSUME NEW j \in 1..(p - 1) PROVE words[j] \notin Class!Stop
      <4>1. j \in 1..i /\ j \in 1..M /\ j < p
        BY <1>4, <3>6
      <4> QED
        BY <1>9, <3>1, <4>1
    <3> QED
      BY <3>1, <3>6, <3>8, <3>9
  <2>2. ASSUME Led PROVE Class!LeadsWithAbbrev(a, ab)
    <3>1. p <= N /\ p \in 1..M
      BY <1>1, <1>10, <2>2
    <3>2. Class!StandsAt(Class!Letters[ab], a, p)
      <4>1. p + 3 - 1 <= Len(a)
        BY <1>1, <1>2, <1>10, <3>1
      <4> QED
        BY <1>6, <1>11, <2>2, <3>1, <4>1 DEF Class!StandsAt
    <3>3. ASSUME NEW j \in 1..p PROVE a[j] \notin Class!Stop
      <4>1. CASE j = p
        <5>1. p + 1 - 1 = p
          OBVIOUS
        <5>2. a[p] = "p" /\ "p" \in LetterWords
          BY <1>6, <1>10, <1>11, <3>1, <5>1 DEF LetterWords
        <5> QED
          BY <1>7, <4>1, <5>2
      <4>2. CASE j # p
        <5>1. j \in 1..(p - 1) /\ j \in 1..M /\ j < p
          BY <1>4, <3>1, <4>2
        <5> QED
          BY <1>9, <2>2, <5>1
      <4> QED
        BY <4>1, <4>2
    <3> QED
      BY <1>4, <2>2, <3>1, <3>2, <3>3 DEF Class!LeadsWithAbbrev
  <2> QED
    BY <2>1, <2>2
<1> QED
  BY <1>8, <1>13 DEF a

(* A title is filed by the abbreviations it names and by nothing else. *)
LEMMA TitleFiledByNames ==
  ASSUME NEW x, NEW words,
         Class!Contains(x, "oportunitate") <=> Class!Contains(words, "oportunitate"),
         \A p \in Plans : Class!HasAbbrev(x, p) \/ Class!Has(x, Class!Phrase[p])
                            <=> Class!Contains(words, p)
  PROVE  Class!ClassifyTitle(x) =
           (IF Class!Contains(words, "oportunitate") THEN "AVIZ_OPORTUNITATE"
            ELSE IF Class!Contains(words, "puz") THEN "PUZ"
            ELSE IF Class!Contains(words, "pud") THEN "PUD" ELSE "ALTELE")
<1>1. "puz" \in Plans /\ "pud" \in Plans
  BY DEF Plans
<1>2. /\ Class!HasAbbrev(x, "puz") \/ Class!Has(x, Class!Phrase["puz"])
           <=> Class!Contains(words, "puz")
      /\ Class!HasAbbrev(x, "pud") \/ Class!Has(x, Class!Phrase["pud"])
           <=> Class!Contains(words, "pud")
  BY <1>1
<1> QED
  BY <1>2 DEF Class!ClassifyTitle

LEMMA NamesOfTitle ==
  ASSUME NEW words \in Seq(Vocabulary), NEW p \in Plans
  PROVE  /\ Class!HasAbbrev(words, p) \/ Class!Has(words, Class!Phrase[p])
              <=> Class!Contains(words, p)
         /\ Class!HasAbbrev(Written(words, Class!Letters), p)
              \/ Class!Has(Written(words, Class!Letters), Class!Phrase[p])
              <=> Class!Contains(words, p)
         /\ Class!HasAbbrev(Written(words, Class!Phrase), p)
              \/ Class!Has(Written(words, Class!Phrase), Class!Phrase[p])
              <=> Class!Contains(words, p)
         /\ ~Class!Has(words, Class!Phrase[p])
         /\ ~Class!Has(Written(words, Class!Letters), Class!Phrase[p])
<1> DEFINE l == Written(words, Class!Letters)
           h == Written(words, Class!Phrase)
           L == (Vocabulary \ Plans) \cup LetterWords
           P == (Vocabulary \ Plans) \cup PhraseWords
<1>1. l \in Seq(L) /\ (Class!Has(l, Class!Letters[p]) <=> Class!Contains(words, p))
  BY LettersSpell, WrittenSaysTheSame
<1>2. h \in Seq(P) /\ (Class!Has(h, Class!Phrase[p]) <=> Class!Contains(words, p))
  BY PhrasesSpell, WrittenSaysTheSame
<1> HIDE DEF l, h
<1>3. /\ Class!Letters[p] \in Seq(LetterWords) /\ Class!Letters[p] # <<>>
      /\ Class!Phrase[p] \in Seq(PhraseWords) /\ Class!Phrase[p] # <<>>
      /\ Vocabulary \cap LetterWords = {} /\ Vocabulary \cap PhraseWords = {}
  BY LettersSpell, PhrasesSpell DEF Spells
<1>4. LetterWords \cap PhraseWords = {}
  BY DEF LetterWords, PhraseWords
<1>5. L \cap PhraseWords = {} /\ P \cap LetterWords = {} /\ p \notin L /\ p \notin P
  <2>1. p \in Vocabulary
    BY DEF Plans, Vocabulary
  <2> QED
    BY <1>3, <1>4, <2>1
<1> HIDE DEF L, P
<1>6. ~Class!Has(words, Class!Letters[p]) /\ ~Class!Has(words, Class!Phrase[p])
  BY <1>3, FoundNowhere
<1>7. ~Class!Has(l, Class!Phrase[p]) /\ ~Class!Has(h, Class!Letters[p])
  BY <1>1, <1>2, <1>3, <1>5, FoundNowhere
<1>8. ~Class!Contains(l, p) /\ ~Class!Contains(h, p)
  BY <1>1, <1>2, <1>5 DEF Class!Contains
<1> QED
  BY <1>1, <1>2, <1>6, <1>7, <1>8 DEF Class!HasAbbrev, l, h

(* Any purpose that names at most one plan is filed as it is with its letters apart. *)
LEMMA PurposeFiledAsWritten ==
  ASSUME NEW words \in Seq(Vocabulary),
         Cardinality({i \in DOMAIN words : words[i] \in Plans}) <= 1
  PROVE  Class!ClassifyScop(Written(words, Class!Letters)) = Class!ClassifyScop(words)
<1> DEFINE N == Len(words)
           named == {i \in 1..N : words[i] \in Plans}
           a == Written(words, Class!Letters)
<1>1. N \in Nat /\ DOMAIN words = 1..N
  OBVIOUS
<1>2. Cardinality(named) <= 1
  BY <1>1
<1>3. IsFiniteSet(named) /\ Cardinality(named) \in Nat
  <2>1. IsFiniteSet(1..N) /\ named \in SUBSET (1..N)
    BY <1>1, FS_Interval
  <2> QED
    BY <2>1, FS_Subset, FS_CardinalityType
<1>4. \E p \in Nat : p # 0 /\ \A i \in 1..N : words[i] \in Plans <=> i = p
  <2>1. CASE named = {}
    <3>1. N + 1 \in Nat /\ N + 1 # 0 /\ N + 1 \notin 1..N
      BY <1>1
    <3> QED
      BY <2>1, <3>1
  <2>2. CASE named # {}
    <3>1. PICK p \in 1..N : words[p] \in Plans
      BY <2>2
    <3>2. \A i \in named : i = p
      <4>1. SUFFICES ASSUME NEW i \in named, i # p PROVE FALSE
        OBVIOUS
      <4>2. {i} \cup {p} \in SUBSET named /\ Cardinality({i} \cup {p}) = 2
        <5>1. IsFiniteSet({i}) /\ Cardinality({i}) = 1 /\ p \notin {i}
          BY <4>1, FS_Singleton
        <5>2. Cardinality({i} \cup {p}) = 1 + 1
          BY <5>1, FS_AddElement
        <5>3. {i} \cup {p} \in SUBSET named
          BY <3>1
        <5> QED
          BY <5>2, <5>3
      <4>3. Cardinality({i} \cup {p}) <= Cardinality(named)
        BY <1>3, <4>2, FS_Subset
      <4> QED
        BY <1>2, <1>3, <4>2, <4>3
    <3>3. p \in Nat /\ p # 0
      BY <3>1
    <3> QED
      BY <3>1, <3>2, <3>3
  <2> QED
    BY <2>1, <2>2
<1>5. PICK p \in Nat : p # 0 /\ \A i \in 1..N : words[i] \in Plans <=> i = p
  BY <1>4
<1>6. \A ab \in Plans : Class!LeadsWithAbbrev(a, ab) <=> Class!LeadsWithAbbrev(words, ab)
  BY <1>5, LeadsAsWritten
<1>7. \A ab \in Plans : ~Class!Has(words, Class!Phrase[ab]) /\ ~Class!Has(a, Class!Phrase[ab])
  BY NamesOfTitle
<1>8. \A w \in Vocabulary \ Plans : Class!Contains(a, w) <=> Class!Contains(words, w)
  BY LettersSpell, WrittenSaysTheSame
<1> HIDE DEF a, N, named
<1>9. \A ab \in Plans : Class!Asks(a, ab) <=> Class!Asks(words, ab)
  BY <1>6, <1>7 DEF Class!Asks
<1>10. Class!Asks(a, "puz") = Class!Asks(words, "puz")
  BY <1>9 DEF Plans, Class!Asks
<1>11. Class!Asks(a, "pud") = Class!Asks(words, "pud")
  BY <1>9 DEF Plans, Class!Asks
<1>12. /\ Class!Contains(a, "works") = Class!Contains(words, "works")
       /\ Class!Contains(a, "ops") = Class!Contains(words, "ops")
       /\ Class!Contains(a, "informare") = Class!Contains(words, "informare")
  <2>1. /\ "works" \in Vocabulary \ Plans /\ "ops" \in Vocabulary \ Plans
        /\ "informare" \in Vocabulary \ Plans
    BY DEF Vocabulary, Plans
  <2> QED
    BY <1>8, <2>1 DEF Class!Contains
<1>13. Class!ClassifyScop(a) = Class!ClassifyScop(words)
  BY <1>10, <1>11, <1>12, Zenon DEF Class!ClassifyScop
<1> QED
  BY <1>13 DEF a

(* However many words the city's titles and purposes have: an abbreviation with its
   letters apart, or spelled out in a title, is recognised as the abbreviation is,
   nothing else is taken for one, and a purpose that names one plan is filed as before,
   wherever leads_with_abbrev stops to look. *)
THEOREM WritingIsIrrelevant == TextsSpec => []WritingDoesNotMatter
<1> DEFINE Words == text \in Seq(Vocabulary)
<1>1. TextsInit => Words
  BY DEF TextsInit
<1>2. Words /\ [TextsNext]_textVars => Words'
  <2> SUFFICES ASSUME Words, [TextsNext]_textVars PROVE Words'
    OBVIOUS
  <2>1. ASSUME NEW w \in Vocabulary, AddWord(w) PROVE Words'
    <3>1. text' = Append(text, w)
      BY <2>1 DEF AddWord
    <3> QED
      BY <3>1, AppendProperties
  <2>2. CASE text' = text
    BY <2>2
  <2>3. (\E w \in Vocabulary : AddWord(w)) \/ text' = text
    BY DEF TextsNext, textVars, WriteAddress, BeginAgenda, Columns, PrintRow, LoseRow,
           PrintWord, TurnPage, Sign, Below, Reads
  <2> QED
    BY <2>1, <2>2, <2>3
<1>3. Words => WritingDoesNotMatter
  <2> SUFFICES ASSUME Words PROVE WritingDoesNotMatter
    OBVIOUS
  <2> DEFINE l == Written(text, Class!Letters)
             h == Written(text, Class!Phrase)
             o == "oportunitate"
  <2>1. o \in Vocabulary \ Plans
    BY DEF Vocabulary, Plans
  <2>2. /\ Class!Contains(l, o) <=> Class!Contains(text, o)
        /\ Class!Contains(h, o) <=> Class!Contains(text, o)
    BY <2>1, LettersSpell, PhrasesSpell, WrittenSaysTheSame
  <2> HIDE DEF l, h
  <2>3. \A p \in Plans :
          /\ Class!HasAbbrev(text, p) \/ Class!Has(text, Class!Phrase[p])
               <=> Class!Contains(text, p)
          /\ Class!HasAbbrev(l, p) \/ Class!Has(l, Class!Phrase[p]) <=> Class!Contains(text, p)
          /\ Class!HasAbbrev(h, p) \/ Class!Has(h, Class!Phrase[p]) <=> Class!Contains(text, p)
    BY NamesOfTitle DEF l, h
  <2>4. /\ Class!ClassifyTitle(l) = Class!ClassifyTitle(text)
        /\ Class!ClassifyTitle(h) = Class!ClassifyTitle(text)
    BY <2>2, <2>3, TitleFiledByNames, Zenon
  <2>5. Quantify(DOMAIN text, LAMBDA i : text[i] \in {"puz", "pud"})
          = Cardinality({i \in DOMAIN text : text[i] \in Plans})
    BY DEF Quantify, Plans
  <2>6. Cardinality({i \in DOMAIN text : text[i] \in Plans}) <= 1
          => Class!ClassifyScop(l) = Class!ClassifyScop(text)
    BY PurposeFiledAsWritten DEF l
  <2> QED
    BY <2>4, <2>5, <2>6 DEF WritingDoesNotMatter, l, h
<1> QED
  BY <1>1, <1>2, <1>3, PTL DEF TextsSpec

-----------------------------------------------------------------------------
(* FlattenSeq puts its pieces together in their order, whatever they are. *)
LEMMA WorkFlattens == ASSUME NEW seqs PROVE Work!FlattenSeq(seqs) = FlattenSeq(seqs)
BY DEF Work!FlattenSeq, FlattenSeq

LEMMA FlattenedType ==
  ASSUME NEW S, NEW seqs \in Seq(Seq(S))
  PROVE  /\ FlattenSeq(seqs) \in Seq(S)
         /\ FlattenSeq(<<>>) = <<>>
<1> DEFINE N == Len(seqs)
<1>1. N \in Nat /\ \A i \in 1..N : seqs[i] \in Seq(S)
  OBVIOUS
<1>2. FlattenSeq(<<>>) = <<>>
  <2>1. Len(<<>>) = 0
    OBVIOUS
  <2> QED
    BY <2>1 DEF FlattenSeq
<1>3. CASE N = 0
  <2>1. seqs = <<>> /\ <<>> \in Seq(S)
    BY <1>3
  <2> QED
    BY <1>2, <2>1
<1>4. CASE N # 0
  <2>1. PICK f : f = [i \in 1..N |-> Joint(f, seqs, i)] /\ FlattenSeq(seqs) = f[N]
    BY <1>1, <1>4, JoinedInSteps
  <2>2. \A i \in 1..N : f[i] = Joint(f, seqs, i)
    BY <2>1, Zenon
  <2> HIDE DEF N
  <2> DEFINE T == {n \in Nat : n + 1 <= N => f[n + 1] \in Seq(S)}
  <2>3. 0 \in T
    <3>1. 1 \in 1..N
      BY <1>1, <1>4
    <3>2. f[1] = seqs[1]
      BY <2>2, <3>1 DEF Joint
    <3>3. f[0 + 1] \in Seq(S)
      BY <1>1, <3>1, <3>2
    <3> QED
      BY <3>3
  <2>4. ASSUME NEW n \in T PROVE n + 1 \in T
    <3>1. SUFFICES ASSUME (n + 1) + 1 <= N PROVE f[(n + 1) + 1] \in Seq(S)
      OBVIOUS
    <3>2. (n + 1) + 1 \in 1..N /\ (n + 1) + 1 # 1 /\ ((n + 1) + 1) - 1 = n + 1
      BY <1>1, <3>1
    <3>3. f[n + 1] \in Seq(S)
      BY <1>1, <3>1
    <3>4. f[(n + 1) + 1] = f[n + 1] \o seqs[(n + 1) + 1]
      BY <2>2, <3>2 DEF Joint
    <3>5. seqs[(n + 1) + 1] \in Seq(S)
      BY <1>1, <3>2
    <3> QED
      BY <3>3, <3>4, <3>5, ConcatProperties
  <2> HIDE DEF T
  <2>5. T = Nat
    <3>1. T \in SUBSET Nat
      BY DEF T
    <3> QED
      BY <2>3, <2>4, <3>1, NatInductionOfSet
  <2>6. N - 1 \in T /\ (N - 1) + 1 = N
    BY <1>1, <1>4, <2>5
  <2>7. f[N] \in Seq(S)
    BY <1>1, <2>6 DEF T
  <2> QED
    BY <1>2, <2>1, <2>7
<1> QED
  BY <1>3, <1>4

LEMMA FlattenedAppend ==
  ASSUME NEW S, NEW seqs \in Seq(Seq(S)), NEW p \in Seq(S)
  PROVE  FlattenSeq(Append(seqs, p)) = FlattenSeq(seqs) \o p
<1> DEFINE N == Len(seqs)
           more == Append(seqs, p)
<1>1. N \in Nat /\ \A i \in 1..N : seqs[i] \in Seq(S)
  OBVIOUS
<1>2. Len(more) = N + 1 /\ more[N + 1] = p /\ \A i \in 1..N : more[i] = seqs[i]
  OBVIOUS
<1> HIDE DEF more
<1>3. PICK g : g = [i \in 1..(N + 1) |-> Joint(g, more, i)] /\ FlattenSeq(more) = g[N + 1]
  <2>1. Len(more) \in Nat /\ Len(more) # 0
    BY <1>1, <1>2
  <2>2. \E g : /\ g = [i \in 1..Len(more) |-> Joint(g, more, i)]
               /\ FlattenSeq(more) = g[Len(more)]
    BY <2>1, JoinedInSteps
  <2> HIDE DEF N
  <2> QED
    BY <1>2, <2>2
<1>4. \A i \in 1..(N + 1) : g[i] = Joint(g, more, i)
  BY <1>3, Zenon
<1>5. CASE N = 0
  <2>1. 1 \in 1..(N + 1) /\ N + 1 = 1
    BY <1>5
  <2>2. g[1] = p
    BY <1>2, <1>4, <2>1 DEF Joint
  <2>3. seqs = <<>>
    BY <1>5
  <2>4. FlattenSeq(seqs) \o p = p
    BY <2>3, FlattenedType, ConcatEmptySeq
  <2> QED
    BY <1>3, <2>1, <2>2, <2>4 DEF more
<1>6. CASE N # 0
  <2>1. PICK f : f = [i \in 1..N |-> Joint(f, seqs, i)] /\ FlattenSeq(seqs) = f[N]
    BY <1>1, <1>6, JoinedInSteps
  <2>2. \A i \in 1..N : f[i] = Joint(f, seqs, i)
    BY <2>1, Zenon
  <2> HIDE DEF N
  <2> DEFINE T == {n \in Nat : n + 1 <= N => g[n + 1] = f[n + 1]}
  <2>3. 0 \in T
    <3>1. 1 \in 1..N /\ 1 \in 1..(N + 1)
      BY <1>1, <1>6
    <3>2. f[1] = seqs[1] /\ g[1] = more[1]
      BY <1>4, <2>2, <3>1 DEF Joint
    <3>3. g[0 + 1] = f[0 + 1]
      BY <1>2, <3>1, <3>2
    <3> QED
      BY <3>3
  <2>4. ASSUME NEW n \in T PROVE n + 1 \in T
    <3>1. SUFFICES ASSUME (n + 1) + 1 <= N PROVE g[(n + 1) + 1] = f[(n + 1) + 1]
      OBVIOUS
    <3>2. /\ (n + 1) + 1 \in 1..N /\ (n + 1) + 1 \in 1..(N + 1)
          /\ (n + 1) + 1 # 1 /\ ((n + 1) + 1) - 1 = n + 1
      BY <1>1, <3>1
    <3>3. g[n + 1] = f[n + 1]
      BY <1>1, <3>1
    <3>4. f[(n + 1) + 1] = f[n + 1] \o seqs[(n + 1) + 1]
      BY <2>2, <3>2 DEF Joint
    <3>5. g[(n + 1) + 1] = g[n + 1] \o more[(n + 1) + 1]
      BY <1>4, <3>2 DEF Joint
    <3> QED
      BY <1>2, <3>2, <3>3, <3>4, <3>5
  <2> HIDE DEF T
  <2>5. T = Nat
    <3>1. T \in SUBSET Nat
      BY DEF T
    <3> QED
      BY <2>3, <2>4, <3>1, NatInductionOfSet
  <2>6. N - 1 \in T /\ (N - 1) + 1 = N
    BY <1>1, <1>6, <2>5
  <2>7. g[N] = f[N]
    BY <1>1, <2>6 DEF T
  <2>8. N + 1 \in 1..(N + 1) /\ N + 1 # 1 /\ (N + 1) - 1 = N
    BY <1>1, <1>6
  <2>9. g[N + 1] = g[N] \o p
    BY <1>2, <1>4, <2>8 DEF Joint
  <2> QED
    BY <1>3, <2>1, <2>7, <2>9 DEF more
<1> QED
  BY <1>5, <1>6

LEMMA FlattenedConcat ==
  ASSUME NEW S, NEW x \in Seq(Seq(S)), NEW y \in Seq(Seq(S))
  PROVE  FlattenSeq(x \o y) = FlattenSeq(x) \o FlattenSeq(y)
<1> DEFINE Q == Seq(S)
           Holds(z) == FlattenSeq(x \o z) = FlattenSeq(x) \o FlattenSeq(z)
           T == {n \in Nat : \A z \in Seq(Q) : Len(z) = n => Holds(z)}
<1>1. 0 \in T
  <2>1. ASSUME NEW z \in Seq(Q), Len(z) = 0 PROVE Holds(z)
    <3>1. z = <<>> /\ x \o z = x
      BY <2>1, ConcatEmptySeq
    <3>2. FlattenSeq(z) = <<>> /\ FlattenSeq(x) \in Seq(S)
      BY <3>1, FlattenedType
    <3> QED
      BY <3>1, <3>2, ConcatEmptySeq
  <2> HIDE DEF Holds
  <2> QED
    BY <2>1
<1>2. ASSUME NEW n \in T PROVE n + 1 \in T
  <2>1. ASSUME NEW z \in Seq(Q), Len(z) = n + 1 PROVE Holds(z)
    <3> HIDE DEF Q
    <3>1. z # <<>>
      <4>1. Len(<<>>) = 0 /\ n + 1 # 0
        OBVIOUS
      <4> QED
        BY <2>1, <4>1
    <3>2. PICK w \in Seq(Q), e \in Q : z = Append(w, e)
      BY <3>1, SequenceEmptyOrAppend
    <3>3. Len(w) = n
      BY <2>1, <3>2
    <3>4. Holds(w)
      BY <3>3
    <3> USE DEF Q
    <3>5. x \o z = Append(x \o w, e) /\ x \o w \in Seq(Q)
      <4>1. z = w \o <<e>> /\ <<e>> \in Seq(Q)
        BY <3>2, AppendIsConcat
      <4>2. x \o z = (x \o w) \o <<e>> /\ x \o w \in Seq(Q)
        BY <4>1, ConcatAssociative, ConcatProperties
      <4> QED
        BY <4>2, AppendIsConcat
    <3>6. /\ FlattenSeq(x \o z) = FlattenSeq(x \o w) \o e
          /\ FlattenSeq(z) = FlattenSeq(w) \o e
      BY <3>2, <3>5, FlattenedAppend
    <3> DEFINE a == FlattenSeq(x)
               b == FlattenSeq(w)
    <3>7. a \in Seq(S) /\ b \in Seq(S) /\ e \in Seq(S)
      BY FlattenedType
    <3> HIDE DEF a, b
    <3>8. (a \o b) \o e = a \o (b \o e)
      BY <3>7, ConcatAssociative
    <3> QED
      BY <3>4, <3>6, <3>8 DEF a, b
  <2> HIDE DEF Holds
  <2> QED
    BY <2>1
<1> HIDE DEF T
<1>3. T = Nat
  <2>1. T \in SUBSET Nat
    BY DEF T
  <2> QED
    BY <1>1, <1>2, <2>1, NatInductionOfSet
<1>4. Len(y) \in T
  BY <1>3
<1> QED
  BY <1>4 DEF T

LEMMA FlattenedOne ==
  ASSUME NEW S, NEW p \in Seq(S)
  PROVE  FlattenSeq(<<p>>) = p
<1>1. <<>> \in Seq(Seq(S)) /\ Append(<<>>, p) = <<p>>
  OBVIOUS
<1>2. FlattenSeq(Append(<<>>, p)) = FlattenSeq(<<>>) \o p
  BY <1>1, FlattenedAppend
<1>3. FlattenSeq(<<>>) = <<>>
  BY <1>1, FlattenedType
<1> QED
  BY <1>1, <1>2, <1>3, ConcatEmptySeq

-----------------------------------------------------------------------------
(* The first word of one kind in a text, as parse_work_address looks for it. *)
LEMMA FirstOfMarks ==
  ASSUME NEW S, NEW x \in Seq(S), NEW y \in Seq(S), NEW marks,
         \A i \in 1..Len(x) : x[i] \notin marks,
         y # <<>>, y[1] \in marks
  PROVE  Work!Min({i \in 1..Len(x \o y) : (x \o y)[i] \in marks}) = Len(x) + 1
<1> DEFINE z == x \o y
           m == Len(x)
           n == Len(y)
           I == {i \in 1..Len(z) : z[i] \in marks}
<1>1. m \in Nat /\ n \in Nat /\ n # 0
  OBVIOUS
<1>2. Len(z) = m + n /\ \A i \in 1..(m + n) : z[i] = IF i <= m THEN x[i] ELSE y[i - m]
  BY ConcatProperties
<1> HIDE DEF z, m, n
<1>3. m + 1 \in 1..(m + n) /\ ~(m + 1 <= m) /\ (m + 1) - m = 1
  BY <1>1
<1>4. z[m + 1] \in marks
  BY <1>2, <1>3
<1>5. ASSUME NEW i \in I PROVE m + 1 <= i
  <2>1. i \in 1..(m + n) /\ z[i] \in marks
    BY <1>2
  <2>2. CASE i <= m
    <3>1. i \in 1..m
      BY <2>2
    <3> QED
      BY <1>2, <2>1, <2>2, <3>1 DEF m
  <2> QED
    BY <1>1, <2>1, <2>2
<1>6. m + 1 \in I /\ I \subseteq Int
  BY <1>2, <1>3, <1>4
<1> HIDE DEF I
<1>7. \A j \in I : (\A i \in I : j <= i) => j = m + 1
  BY <1>1, <1>5, <1>6
<1>8. Work!Min(I) = m + 1
  BY <1>5, <1>6, <1>7 DEF Work!Min
<1> QED
  BY <1>8 DEF I, z, m

LEMMA BeforeMarks ==
  ASSUME NEW S, NEW x \in Seq(S), NEW y \in Seq(S), NEW marks,
         \A i \in 1..Len(x) : x[i] \notin marks,
         y = <<>> \/ y[1] \in marks
  PROVE  Work!Before(x \o y, marks) = x
<1> DEFINE z == x \o y
           I == {i \in 1..Len(z) : z[i] \in marks}
<1>1. Len(x) \in Nat /\ z \in Seq(S)
  BY ConcatProperties
<1>2. CASE y = <<>>
  <2>1. z = x
    BY <1>2, ConcatEmptySeq
  <2>2. I = {}
    BY <2>1
  <2> HIDE DEF z
  <2> QED
    BY <2>1, <2>2 DEF Work!Before, Work!SelectInSeq, z
<1>3. CASE y # <<>>
  <2>1. Work!Min(I) = Len(x) + 1
    BY <1>3, FirstOfMarks
  <2>2. I # {}
    <3>1. Len(z) = Len(x) + Len(y) /\ z[Len(x) + 1] = y[1] /\ Len(y) \in Nat \ {0}
      BY <1>3, ConcatProperties
    <3> HIDE DEF z
    <3>2. Len(x) + 1 \in 1..Len(z) /\ z[Len(x) + 1] \in marks
      BY <1>1, <1>3, <3>1
    <3> QED
      BY <3>2
  <2>3. Len(x) + 1 # 0 /\ (Len(x) + 1) - 1 = Len(x)
    BY <1>1
  <2>4. SubSeq(z, 1, Len(x)) = x
    <3>1. CASE x = <<>>
      BY <3>1
    <3>2. CASE x # <<>>
      <4>1. 1 \in 1..Len(x) /\ Len(x) \in 1..Len(x)
        BY <3>2
      <4> QED
        BY <4>1, SubSeqOfConcat1, SubSeqFull
    <3> QED
      BY <3>1, <3>2
  <2>5. Work!SelectInSeq(z, LAMBDA w : w \in marks) = Len(x) + 1
    BY <2>1, <2>2 DEF Work!SelectInSeq
  <2> HIDE DEF z, I
  <2>6. Work!Before(z, marks) = SubSeq(z, 1, Len(x))
    BY <2>3, <2>5 DEF Work!Before
  <2> QED
    BY <2>4, <2>6 DEF z
<1> QED
  BY <1>2, <1>3

Kinds == {"zona", "str"}

(* What an address is made of. *)
Words ==
  (UNION {ToSet(name) : name \in Names}) \cup Numbers \cup Kinds
    \cup {"comma", "nr", "fn", "judetul", "municipiul", "cluj", "napoca", "bl", "7"}

LEMMA NameIsRight ==
  ASSUME NEW name \in Names
  PROVE  /\ name \in Seq(Words) /\ name # <<>> /\ name[1] \in Words
         /\ name[1] \notin Kinds \cup {"judetul", "municipiul"}
         /\ \A i \in 1..Len(name) : name[i] \notin Numbers \cup {"comma", "nr", "dash"}
         /\ name # <<"cluj">> /\ name # <<"cluj", "napoca">>
<1>1. /\ name \in Seq(ToSet(name)) /\ name # <<>>
      /\ ToSet(name) \cap (Numbers \cup {"comma", "nr", "dash"}) = {}
      /\ Head(name) \notin {"judetul", "municipiul", "zona", "str"}
      /\ name \notin {<<"cluj">>, <<"cluj", "napoca">>}
  BY AddressAssumption
<1>2. ToSet(name) \subseteq Words
  BY DEF Words
<1>3. name \in Seq(Words)
  BY <1>1, <1>2, SeqMonotonic
<1>4. Head(name) = name[1] /\ name[1] \in Words /\ DOMAIN name = 1..Len(name)
  BY <1>1, <1>3
<1>5. \A i \in 1..Len(name) : name[i] \in ToSet(name)
  BY <1>4 DEF ToSet
<1>6. name[1] \notin Kinds \cup {"judetul", "municipiul"}
  BY <1>1, <1>4 DEF Kinds
<1> QED
  BY <1>1, <1>3, <1>4, <1>5, <1>6

(* street_of drops up to three kinds of street and what follows the name. *)
LEMMA StreetIsRead ==
  ASSUME NEW kinds \in Seq(Kinds), Len(kinds) <= 3, NEW name \in Names,
         NEW rest \in Seq(Words),
         rest = <<>> \/ rest[1] \in Numbers \cup {"comma", "nr", "dash"}
  PROVE  Work!StreetOf(kinds \o (name \o rest)) = name
<1> DEFINE k == Len(kinds)
           y == name \o rest
           z == kinds \o y
           marks == Words \ Kinds
           I == {i \in 1..Len(z) : z[i] \in marks}
<1>1. /\ name \in Seq(Words) /\ name # <<>> /\ name[1] \notin Kinds /\ name[1] \in Words
      /\ \A i \in 1..Len(name) : name[i] \notin Numbers \cup {"comma", "nr", "dash"}
  BY NameIsRight
<1>2. kinds \in Seq(Words) /\ k \in Nat /\ \A i \in 1..k : kinds[i] \in Kinds
  <2>1. Kinds \subseteq Words
    BY DEF Words
  <2> QED
    BY <2>1, SeqMonotonic
<1>3. y \in Seq(Words) /\ Len(y) \in Nat /\ Len(y) # 0 /\ y[1] = name[1]
  BY <1>1, ConcatProperties
<1>4. y # <<>> /\ y[1] \in marks
  BY <1>1, <1>3
<1> HIDE DEF y
<1>5. /\ z \in Seq(Words) /\ Len(z) = k + Len(y)
      /\ \A i \in 1..(k + Len(y)) : z[i] = IF i <= k THEN kinds[i] ELSE y[i - k]
  BY <1>2, <1>3, ConcatProperties
<1>6. Work!Min(I) = k + 1
  <2>1. \A i \in 1..Len(kinds) : kinds[i] \notin marks
    BY <1>2
  <2> HIDE DEF marks
  <2> QED
    BY <1>2, <1>3, <1>4, <2>1, FirstOfMarks
<1>7. k + 1 \in I
  <2>1. k + 1 \in 1..(k + Len(y)) /\ ~(k + 1 <= k) /\ (k + 1) - k = 1
    BY <1>2, <1>3
  <2> HIDE DEF z
  <2> QED
    BY <1>4, <1>5, <2>1
<1>8. I = {i \in 1..Len(z) : z[i] \notin Kinds}
  BY <1>5
<1> HIDE DEF I
<1>9. Work!SelectInSeq(z, LAMBDA w : w \notin {"zona", "str"}) = k + 1
  BY <1>6, <1>7, <1>8 DEF Work!SelectInSeq, Kinds
<1> HIDE DEF z
<1>10. Work!WithoutStreetWords(z) = SubSeq(z, k + 1, Len(z))
  <2>0. k \in Nat /\ k <= 3
    BY <1>2
  <2> HIDE DEF k
  <2>1. k + 1 # 0 /\ (k + 1) - 1 = k /\ (IF k < 3 THEN k ELSE 3) = k
    BY <2>0
  <2> QED
    BY <1>9, <2>1 DEF Work!WithoutStreetWords
<1>11. SubSeq(z, k + 1, Len(z)) = y
  <2> DEFINE t == SubSeq(z, k + 1, Len(z))
  <2>1. \A i \in (k + 1)..Len(z) : z[i] \in Words
    <3>1. \A i \in (k + 1)..Len(z) : i \in 1..Len(z)
      BY <1>2
    <3> QED
      BY <1>5, <3>1
  <2>2. k + 1 \in Int /\ Len(z) \in Int /\ k + 1 <= Len(z) /\ Len(z) - (k + 1) + 1 = Len(y)
    BY <1>2, <1>3, <1>5
  <2>3. /\ t \in Seq(Words) /\ Len(t) = Len(y)
        /\ \A i \in 1..Len(y) : t[i] = z[(k + 1) + i - 1]
    BY <2>1, <2>2, SubSeqProperties
  <2> HIDE DEF t
  <2>4. ASSUME NEW i \in 1..Len(y) PROVE t[i] = y[i]
    <3>1. /\ (k + 1) + i - 1 \in 1..(k + Len(y)) /\ ~((k + 1) + i - 1 <= k)
          /\ ((k + 1) + i - 1) - k = i
      BY <1>2, <1>3
    <3> QED
      BY <1>5, <2>3, <3>1
  <2>5. t = y
    BY <1>3, <2>3, <2>4, SeqEqual
  <2> QED
    BY <2>5 DEF t
<1>12. Work!Before(y, Numbers \cup {"comma", "nr", "dash"}) = name
  BY <1>1, BeforeMarks DEF y
<1>13. Work!StreetOf(z) = name
  BY <1>10, <1>11, <1>12 DEF Work!StreetOf
<1> QED
  BY <1>13 DEF z, y

-----------------------------------------------------------------------------
(* Kept leaves out the segments that say nothing of the street, one by one. *)
Filtered(s) == IF s = <<>> \/ Work!IsAdmin(s) THEN <<>> ELSE << s >>

LEMMA KeptFlattens ==
  ASSUME NEW raw
  PROVE  Work!Kept(raw) = FlattenSeq([i \in DOMAIN raw |-> Filtered(raw[i])])
BY WorkFlattens DEF Work!Kept, Filtered

LEMMA FilteredType ==
  ASSUME NEW S, NEW raw \in Seq(Seq(S))
  PROVE  [i \in DOMAIN raw |-> Filtered(raw[i])] \in Seq(Seq(Seq(S)))
<1>1. \A s \in Seq(S) : Filtered(s) \in Seq(Seq(S))
  BY DEF Filtered
<1> HIDE DEF Filtered
<1>2. DOMAIN raw = 1..Len(raw) /\ Len(raw) \in Nat /\ \A i \in 1..Len(raw) : raw[i] \in Seq(S)
  OBVIOUS
<1>3. \A i \in 1..Len(raw) : Filtered(raw[i]) \in Seq(Seq(S))
  BY <1>1, <1>2
<1> DEFINE n == Len(raw)
           f == [i \in 1..n |-> Filtered(raw[i])]
           Q == Seq(Seq(S))
<1>4. n \in Nat /\ \A i \in 1..n : Filtered(raw[i]) \in Q
  BY <1>2, <1>3
<1> HIDE DEF n, Q
<1>5. f \in Seq(Q)
  BY <1>4
<1> QED
  BY <1>2, <1>5 DEF n, Q

LEMMA KeptConcat ==
  ASSUME NEW S, NEW x \in Seq(Seq(S)), NEW y \in Seq(Seq(S))
  PROVE  Work!Kept(x \o y) = Work!Kept(x) \o Work!Kept(y)
<1> DEFINE m == Len(x)
           n == Len(y)
           z == x \o y
           fx == [i \in DOMAIN x |-> Filtered(x[i])]
           fy == [i \in DOMAIN y |-> Filtered(y[i])]
           fz == [i \in DOMAIN z |-> Filtered(z[i])]
           Q == Seq(Seq(S))
<1>1. m \in Nat /\ n \in Nat /\ DOMAIN x = 1..m /\ DOMAIN y = 1..n
  OBVIOUS
<1>2. z \in Seq(Seq(S)) /\ Len(z) = m + n
      /\ \A i \in 1..(m + n) : z[i] = IF i <= m THEN x[i] ELSE y[i - m]
  BY ConcatProperties
<1>3. fx \in Seq(Q) /\ fy \in Seq(Q) /\ fz \in Seq(Q)
  BY <1>2, FilteredType
<1>4. DOMAIN z = 1..(m + n)
  BY <1>2
<1>5. /\ Len(fx) = m /\ \A i \in 1..m : fx[i] = Filtered(x[i])
      /\ Len(fy) = n /\ \A i \in 1..n : fy[i] = Filtered(y[i])
      /\ Len(fz) = m + n /\ \A i \in 1..(m + n) : fz[i] = Filtered(z[i])
  BY <1>1, <1>4
<1> HIDE DEF m, n, z, fx, fy, fz
<1>6. fx \o fy \in Seq(Q) /\ Len(fx \o fy) = m + n
      /\ \A i \in 1..(m + n) : (fx \o fy)[i] = IF i <= m THEN fx[i] ELSE fy[i - m]
  BY <1>3, <1>5, ConcatProperties
<1>7. ASSUME NEW i \in 1..(m + n) PROVE fz[i] = (fx \o fy)[i]
  <2>1. i <= m => i \in 1..m
    OBVIOUS
  <2>2. ~(i <= m) => i - m \in 1..n
    BY <1>1
  <2> QED
    BY <1>2, <1>5, <1>6, <2>1, <2>2
<1>8. fz = fx \o fy
  BY <1>3, <1>5, <1>6, <1>7, SeqEqual
<1>9. FlattenSeq(fz) = FlattenSeq(fx) \o FlattenSeq(fy)
  BY <1>3, <1>8, FlattenedConcat
<1> QED
  BY <1>9, KeptFlattens DEF fx, fy, fz, z

LEMMA KeptOne ==
  ASSUME NEW S, NEW s \in Seq(S)
  PROVE  Work!Kept(<<s>>) = Filtered(s)
<1>1. [i \in DOMAIN <<s>> |-> Filtered(<<s>>[i])] = << Filtered(s) >>
  OBVIOUS
<1>2. Filtered(s) \in Seq(Seq(S))
  BY DEF Filtered
<1> QED
  BY <1>1, <1>2, KeptFlattens, FlattenedOne

(* The segments that are kept are joined by commas. *)
LEMMA JoinedSegments ==
  ASSUME NEW S, "comma" \in S, NEW segments \in Seq(Seq(S)), segments # <<>>, NEW s \in Seq(S)
  PROVE  /\ Work!Joined(Append(segments, s)) = Work!Joined(segments) \o (<<"comma">> \o s)
         /\ Work!Joined(<<s>>) = s
<1> DEFINE Put(i, t) == IF i = 1 THEN t ELSE <<"comma">> \o t
           n == Len(segments)
           more == Append(segments, s)
           f == [i \in DOMAIN segments |-> Put(i, segments[i])]
           g == [i \in DOMAIN more |-> Put(i, more[i])]
           Q == Seq(S)
<1>1. n \in Nat /\ n # 0 /\ DOMAIN segments = 1..n /\ \A i \in 1..n : segments[i] \in Q
  OBVIOUS
<1>2. /\ Len(more) = n + 1 /\ more[n + 1] = s /\ \A i \in 1..n : more[i] = segments[i]
      /\ DOMAIN more = 1..(n + 1)
  OBVIOUS
<1>3. ASSUME NEW t \in Q, NEW i PROVE Put(i, t) \in Q
  <2>1. <<"comma">> \in Seq(S)
    OBVIOUS
  <2> QED
    BY <2>1, ConcatProperties
<1>4. Work!Joined(segments) = FlattenSeq(f) /\ Work!Joined(more) = FlattenSeq(g)
  BY WorkFlattens DEF Work!Joined
<1>5. Work!Joined(<<s>>) = s
  <2>1. [i \in DOMAIN <<s>> |-> Put(i, <<s>>[i])] = <<s>>
    OBVIOUS
  <2>2. Work!Joined(<<s>>) = FlattenSeq([i \in DOMAIN <<s>> |-> Put(i, <<s>>[i])])
    BY WorkFlattens DEF Work!Joined
  <2> QED
    BY <2>1, <2>2, FlattenedOne
<1> HIDE DEF n, more, Put
<1>6. f = [i \in 1..n |-> Put(i, segments[i])] /\ \A i \in 1..n : Put(i, segments[i]) \in Q
  BY <1>1, <1>3
<1>7. g = [i \in 1..(n + 1) |-> Put(i, more[i])]
  BY <1>2
<1> HIDE DEF f, g, Q
<1>8. f \in Seq(Q) /\ Len(f) = n /\ \A i \in 1..n : f[i] = Put(i, segments[i])
  BY <1>1, <1>6
<1>9. Put(n + 1, s) = <<"comma">> \o s
  BY <1>1 DEF Put
<1>10. s \in Q
  BY DEF Q
<1>11. Put(n + 1, s) \in Q
  BY <1>3, <1>10
<1>12. g = Append(f, Put(n + 1, s))
  <2> DEFINE h == Append(f, Put(n + 1, s))
  <2>1. /\ h \in Seq(Q) /\ Len(h) = n + 1 /\ h[n + 1] = Put(n + 1, s)
        /\ \A i \in 1..n : h[i] = f[i]
    BY <1>8, <1>11, AppendProperties
  <2> HIDE DEF h
  <2>2. ASSUME NEW i \in 1..(n + 1) PROVE g[i] = h[i] /\ g[i] \in Q
    <3>1. g[i] = Put(i, more[i])
      BY <1>7
    <3>2. i = n + 1 \/ i \in 1..n
      BY <1>1
    <3> QED
      BY <1>2, <1>6, <1>8, <1>11, <2>1, <3>1, <3>2
  <2>3. g \in Seq(Q) /\ Len(g) = n + 1
    BY <1>1, <1>7, <2>2
  <2> QED
    BY <2>1, <2>2, <2>3, SeqEqual DEF h
<1>13. FlattenSeq(g) = FlattenSeq(f) \o Put(n + 1, s)
  BY <1>8, <1>11, <1>12, FlattenedAppend DEF Q
<1> QED
  BY <1>4, <1>5, <1>9, <1>13 DEF more

(* A segment with a street in it is kept, however it begins and whatever follows. *)
LEMMA StreetIsKept ==
  ASSUME NEW kinds \in Seq(Kinds), NEW name \in Names, NEW rest \in Seq(Words)
  PROVE  LET c == (kinds \o name) \o rest
         IN Filtered(c) = << c >> /\ c # <<>> /\ c \in Seq(Words)
<1> DEFINE k == Len(kinds)
           m == Len(name)
           n == Len(rest)
           s == kinds \o name
           c == s \o rest
<1>1. /\ name \in Seq(Words) /\ name # <<>> /\ name[1] \in Words
      /\ name[1] \notin Kinds \cup {"judetul", "municipiul"}
      /\ name # <<"cluj">> /\ name # <<"cluj", "napoca">>
  BY NameIsRight
<1>2. kinds \in Seq(Words) /\ k \in Nat /\ \A i \in 1..k : kinds[i] \in Kinds
  <2>1. Kinds \subseteq Words
    BY DEF Words
  <2> QED
    BY <2>1, SeqMonotonic
<1>3. m \in Nat /\ m # 0 /\ n \in Nat
  BY <1>1
<1>4. /\ s \in Seq(Words) /\ Len(s) = k + m
      /\ \A i \in 1..(k + m) : s[i] = IF i <= k THEN kinds[i] ELSE name[i - k]
  BY <1>1, <1>2, ConcatProperties
<1> HIDE DEF s
<1>5. /\ c \in Seq(Words) /\ Len(c) = k + m + n
      /\ \A i \in 1..(k + m + n) : c[i] = IF i <= k + m THEN s[i] ELSE rest[i - (k + m)]
  <2>1. /\ c \in Seq(Words) /\ Len(c) = Len(s) + n
        /\ \A i \in 1..Len(s) + n : c[i] = IF i <= Len(s) THEN s[i] ELSE rest[i - Len(s)]
    <3>1. s \in Seq(Words)
      BY <1>4
    <3> QED
      BY <3>1, ConcatProperties
  <2> HIDE DEF c, k, m, n
  <2> QED
    BY <1>4, <2>1
<1> HIDE DEF k, m, n, c
<1>6. 1 \in 1..(k + m) /\ 1 \in 1..(k + m + n) /\ 1 <= k + m
  BY <1>2, <1>3
<1>7. c[1] = s[1]
  BY <1>5, <1>6
<1>8. k # 0 => c[1] \in Kinds
  <2>1. k # 0 => 1 \in 1..k /\ 1 <= k
    BY <1>2
  <2> QED
    BY <1>2, <1>4, <1>6, <1>7, <2>1
<1>9. k = 0 => s = name /\ c[1] = name[1]
  <2>1. k = 0 => kinds = <<>>
    BY DEF k
  <2>2. k = 0 => s = name
    BY <1>1, <2>1, ConcatEmptySeq DEF s
  <2> QED
    BY <1>7, <2>2
<1>10. c # <<>>
  <2>1. Len(c) # 0
    BY <1>2, <1>3, <1>5
  <2>2. Len(<<>>) = 0
    OBVIOUS
  <2> QED
    BY <2>1, <2>2
<1>11. Head(c) = c[1]
  BY <1>5, <1>10
<1>12. c[1] \notin {"judetul", "municipiul"}
  BY <1>1, <1>8, <1>9 DEF Kinds
<1>13. c # <<"cluj">> /\ c # <<"cluj", "napoca">>
  <2>1. SUFFICES ASSUME c[1] = "cluj", Len(c) = 1 \/ Len(c) = 2,
                        c = <<"cluj">> \/ c = <<"cluj", "napoca">>
                 PROVE  FALSE
    <3>1. c = <<"cluj">> => c[1] = "cluj" /\ Len(c) = 1
      OBVIOUS
    <3>2. c = <<"cluj", "napoca">> => c[1] = "cluj" /\ Len(c) = 2
      OBVIOUS
    <3> QED
      BY <3>1, <3>2
  <2>2. k = 0
    BY <1>8, <2>1 DEF Kinds
  <2>3. s = name /\ name[1] = "cluj"
    BY <1>9, <2>1, <2>2
  <2>4. m # 1
    <3>1. SUFFICES ASSUME m = 1 PROVE FALSE
      OBVIOUS
    <3>2. name = <<"cluj">>
      BY <1>1, <2>3, <3>1 DEF m
    <3> QED
      BY <1>1, <3>2
  <2>5. n = 0
    BY <1>3, <1>5, <2>1, <2>2, <2>4
  <2>6. c = name
    <3>1. rest = <<>>
      BY <2>5 DEF n
    <3> QED
      BY <1>1, <2>3, <3>1, ConcatEmptySeq DEF c
  <2> QED
    BY <1>1, <2>1, <2>6
<1>14. ~Work!IsAdmin(c)
  BY <1>11, <1>12, <1>13 DEF Work!IsAdmin
<1>15. Filtered(c) = << c >>
  BY <1>10, <1>14 DEF Filtered
<1> QED
  BY <1>5, <1>10, <1>15 DEF c, s

LEMMA OtherSegments ==
  /\ \A n \in Numbers : Filtered(<<"nr", n>>) = << <<"nr", n>> >> /\ <<"nr", n>> \in Seq(Words)
  /\ Filtered(<<"fn">>) = << <<"fn">> >> /\ <<"fn">> \in Seq(Words)
  /\ Filtered(<<"bl", "7">>) = << <<"bl", "7">> >> /\ <<"bl", "7">> \in Seq(Words)
  /\ Filtered(<<"municipiul", "cluj">>) = <<>> /\ <<"municipiul", "cluj">> \in Seq(Words)
  /\ Filtered(<<"judetul", "cluj">>) = <<>> /\ <<"judetul", "cluj">> \in Seq(Words)
  /\ Filtered(<<"cluj", "napoca">>) = <<>> /\ <<"cluj", "napoca">> \in Seq(Words)
<1>1. /\ Numbers \subseteq Words
      /\ "nr" \in Words /\ "fn" \in Words /\ "bl" \in Words /\ "7" \in Words
      /\ "municipiul" \in Words /\ "cluj" \in Words /\ "napoca" \in Words /\ "judetul" \in Words
  BY DEF Words
<1>2. ASSUME NEW n \in Numbers
      PROVE  Filtered(<<"nr", n>>) = << <<"nr", n>> >> /\ <<"nr", n>> \in Seq(Words)
  <2>1. <<"nr", n>> # <<"cluj">> /\ <<"nr", n>> # <<"cluj", "napoca">> /\ <<"nr", n>> # <<>>
    OBVIOUS
  <2>2. Head(<<"nr", n>>) = "nr"
    OBVIOUS
  <2>3. <<"nr", n>> \in Seq(Words)
    BY <1>1
  <2> QED
    BY <2>1, <2>2, <2>3 DEF Filtered, Work!IsAdmin
<1>3. Filtered(<<"fn">>) = << <<"fn">> >> /\ <<"fn">> \in Seq(Words)
  <2>1. <<"fn">> # <<"cluj">> /\ <<"fn">> # <<"cluj", "napoca">> /\ <<"fn">> # <<>>
    OBVIOUS
  <2>2. Head(<<"fn">>) = "fn" /\ <<"fn">> \in Seq(Words)
    BY <1>1
  <2> QED
    BY <2>1, <2>2 DEF Filtered, Work!IsAdmin
<1>4. Filtered(<<"bl", "7">>) = << <<"bl", "7">> >> /\ <<"bl", "7">> \in Seq(Words)
  <2>1. <<"bl", "7">> # <<"cluj">> /\ <<"bl", "7">> # <<"cluj", "napoca">> /\ <<"bl", "7">> # <<>>
    OBVIOUS
  <2>2. Head(<<"bl", "7">>) = "bl" /\ <<"bl", "7">> \in Seq(Words)
    BY <1>1
  <2> QED
    BY <2>1, <2>2 DEF Filtered, Work!IsAdmin
<1>5. Filtered(<<"municipiul", "cluj">>) = <<>> /\ <<"municipiul", "cluj">> \in Seq(Words)
  BY <1>1 DEF Filtered, Work!IsAdmin
<1>6. Filtered(<<"judetul", "cluj">>) = <<>> /\ <<"judetul", "cluj">> \in Seq(Words)
  BY <1>1 DEF Filtered, Work!IsAdmin
<1>7. Filtered(<<"cluj", "napoca">>) = <<>> /\ <<"cluj", "napoca">> \in Seq(Words)
  BY <1>1 DEF Filtered, Work!IsAdmin
<1> QED
  BY <1>2, <1>3, <1>4, <1>5, <1>6, <1>7

LEMMA TwoTogether ==
  ASSUME NEW S, NEW a \in S, NEW b \in S
  PROVE  <<a, b>> \in Seq(S) /\ <<a>> \o <<b>> = <<a, b>>
<1>1. /\ <<a>> \in Seq(S) /\ Len(<<a>>) = 1 /\ <<a>>[1] = a
      /\ <<b>> \in Seq(S) /\ Len(<<b>>) = 1 /\ <<b>>[1] = b
  OBVIOUS
<1>2. <<a, b>> \in Seq(S) /\ Len(<<a, b>>) = 2 /\ <<a, b>>[1] = a /\ <<a, b>>[2] = b
  OBVIOUS
<1> DEFINE z == <<a>> \o <<b>>
<1>3. z \in Seq(S) /\ Len(z) = 2
      /\ \A i \in 1..2 : z[i] = IF i <= 1 THEN <<a>>[i] ELSE <<b>>[i - 1]
  BY <1>1, ConcatProperties
<1> HIDE DEF z
<1>4. z[1] = a /\ z[2] = b
  BY <1>1, <1>3
<1>5. \A i \in 1..2 : z[i] = <<a, b>>[i]
  BY <1>2, <1>4
<1>6. z = <<a, b>>
  BY <1>2, <1>3, <1>5, SeqEqual
<1> QED
  BY <1>2, <1>6 DEF z

LEMMA ThreeTogether ==
  ASSUME NEW S, NEW a \in S, NEW b \in S, NEW c \in S
  PROVE  <<a, b, c>> \in Seq(S) /\ <<a>> \o <<b, c>> = <<a, b, c>>
<1>1. /\ <<a>> \in Seq(S) /\ Len(<<a>>) = 1 /\ <<a>>[1] = a
      /\ <<b, c>> \in Seq(S) /\ Len(<<b, c>>) = 2 /\ <<b, c>>[1] = b /\ <<b, c>>[2] = c
  OBVIOUS
<1>2. /\ <<a, b, c>> \in Seq(S) /\ Len(<<a, b, c>>) = 3
      /\ <<a, b, c>>[1] = a /\ <<a, b, c>>[2] = b /\ <<a, b, c>>[3] = c
  OBVIOUS
<1> DEFINE z == <<a>> \o <<b, c>>
<1>3. z \in Seq(S) /\ Len(z) = 3
      /\ \A i \in 1..3 : z[i] = IF i <= 1 THEN <<a>>[i] ELSE <<b, c>>[i - 1]
  BY <1>1, ConcatProperties
<1> HIDE DEF z
<1>4. z[1] = a /\ z[2] = b /\ z[3] = c
  BY <1>1, <1>3
<1>5. \A i \in 1..3 : z[i] = <<a, b, c>>[i]
  BY <1>2, <1>4
<1>6. z = <<a, b, c>>
  BY <1>2, <1>3, <1>5, SeqEqual
<1> QED
  BY <1>2, <1>6 DEF z

(* What stands around the street: the county before it is left out, a block behind it
   stays. *)
LEMMA SegmentsAround ==
  /\ \A before \in {<<>>, << <<"judetul", "cluj">>, <<"cluj", "napoca">> >>} :
       before \in Seq(Seq(Words)) /\ Work!Kept(before) = <<>>
  /\ \A after \in {<<>>, << <<"municipiul", "cluj">> >>, << <<"bl", "7">> >>} :
       after \in Seq(Seq(Words)) /\ Work!Kept(after) \in {<<>>, << <<"bl", "7">> >>}
<1>1. <<>> \in Seq(Seq(Words)) /\ Work!Kept(<<>>) = <<>>
  <2>1. [i \in DOMAIN <<>> |-> Filtered(<<>>[i])] = <<>>
    OBVIOUS
  <2>2. <<>> \in Seq(Seq(Words))
    OBVIOUS
  <2> QED
    BY <2>1, <2>2, KeptFlattens, FlattenedType
<1>2. ASSUME NEW s \in Seq(Words)
      PROVE  <<s>> \in Seq(Seq(Words)) /\ Work!Kept(<<s>>) = Filtered(s)
  BY KeptOne
<1> DEFINE j == <<"judetul", "cluj">>
           c == <<"cluj", "napoca">>
<1>3. <<j, c>> \in Seq(Seq(Words)) /\ Work!Kept(<<j, c>>) = <<>>
  <2>1. /\ j \in Seq(Words) /\ Filtered(j) = <<>>
        /\ c \in Seq(Words) /\ Filtered(c) = <<>>
    BY OtherSegments
  <2> HIDE DEF j, c
  <2>2. <<j, c>> = <<j>> \o <<c>> /\ <<j, c>> \in Seq(Seq(Words))
    BY <2>1, TwoTogether
  <2>3. /\ <<j>> \in Seq(Seq(Words)) /\ Work!Kept(<<j>>) = <<>>
        /\ <<c>> \in Seq(Seq(Words)) /\ Work!Kept(<<c>>) = <<>>
    BY <1>2, <2>1
  <2>4. Work!Kept(<<j>> \o <<c>>) = <<>> \o <<>>
    BY <2>3, KeptConcat
  <2>5. <<>> \o <<>> = <<>>
    OBVIOUS
  <2> QED
    BY <2>2, <2>4, <2>5
<1>4. << <<"municipiul", "cluj">> >> \in Seq(Seq(Words))
      /\ Work!Kept(<< <<"municipiul", "cluj">> >>) = <<>>
  BY <1>2, OtherSegments
<1>5. << <<"bl", "7">> >> \in Seq(Seq(Words))
      /\ Work!Kept(<< <<"bl", "7">> >>) = << <<"bl", "7">> >>
  BY <1>2, OtherSegments
<1> QED
  BY <1>1, <1>3, <1>4, <1>5, Zenon

LEMMA SegmentsKept ==
  ASSUME NEW before \in {<<>>, << <<"judetul", "cluj">>, <<"cluj", "napoca">> >>},
         NEW after \in {<<>>, << <<"municipiul", "cluj">> >>, << <<"bl", "7">> >>},
         NEW core \in Seq(Seq(Words)), Work!Kept(core) = core
  PROVE  Work!Kept((before \o core) \o after) = core \o Work!Kept(after)
<1>1. /\ before \in Seq(Seq(Words)) /\ Work!Kept(before) = <<>>
      /\ after \in Seq(Seq(Words))
  BY SegmentsAround
<1>2. before \o core \in Seq(Seq(Words)) /\ Work!Kept(before \o core) = <<>> \o core
  BY <1>1, KeptConcat, ConcatProperties
<1>3. <<>> \o core = core
  BY ConcatEmptySeq
<1>4. Work!Kept((before \o core) \o after) = Work!Kept(before \o core) \o Work!Kept(after)
  BY <1>1, <1>2, KeptConcat
<1> QED
  BY <1>2, <1>3, <1>4

LEMMA JoinedWithRest ==
  ASSUME NEW core \in Seq(Seq(Words)), core # <<>>, Work!Joined(core) \in Seq(Words),
         NEW kept \in {<<>>, << <<"bl", "7">> >>}
  PROVE  \E rest \in Seq(Words) :
           /\ rest = <<>> \/ rest[1] = "comma"
           /\ \A i \in 1..Len(rest) : rest[i] # "nr"
           /\ Work!Joined(core \o kept) = Work!Joined(core) \o rest
           /\ core \o kept # <<>> /\ Head(core \o kept) = Head(core)
<1>1. CASE kept = <<>>
  <2>1. core \o kept = core
    BY <1>1, ConcatEmptySeq
  <2>2. <<>> \in Seq(Words) /\ Work!Joined(core) \o <<>> = Work!Joined(core)
    BY ConcatEmptySeq
  <2>3. \A i \in 1..Len(<<>>) : <<>>[i] # "nr"
    OBVIOUS
  <2> QED
    BY <2>1, <2>2, <2>3
<1>2. CASE kept = << <<"bl", "7">> >>
  <2> DEFINE b == <<"bl", "7">>
             r == <<"comma", "bl", "7">>
  <2>1. "comma" \in Words /\ "bl" \in Words /\ "7" \in Words
    BY DEF Words
  <2>2. b \in Seq(Words) /\ r \in Seq(Words) /\ <<"comma">> \o b = r
    BY <2>1, ThreeTogether
  <2>3. r[1] = "comma" /\ \A i \in 1..Len(r) : r[i] # "nr"
    OBVIOUS
  <2> HIDE DEF b, r
  <2>4. core \o kept = Append(core, b)
    BY <1>2, <2>2, AppendIsConcat DEF b
  <2>5. Work!Joined(Append(core, b)) = Work!Joined(core) \o r
    BY <2>1, <2>2, JoinedSegments
  <2>6. Append(core, b) # <<>> /\ Head(Append(core, b)) = Head(core)
    BY <2>2, AppendProperties, HeadTailAppend
  <2> QED
    BY <2>2, <2>3, <2>4, <2>5, <2>6
<1> QED
  BY <1>1, <1>2

(* The number behind "nr" is read up to the next comma, and the street before it. *)
LEMMA MarkedIsRead ==
  ASSUME NEW raw, Work!Kept(raw) # <<>>, NEW pre \in Seq(Words), NEW n \in Numbers,
         NEW rest \in Seq(Words), rest = <<>> \/ rest[1] = "comma",
         \A i \in 1..Len(pre) : pre[i] # "nr",
         Work!Joined(Work!Kept(raw)) = pre \o (<<"nr">> \o (<<n>> \o rest))
  PROVE  Work!ParseWorkAddress(raw) = [street |-> Work!StreetOf(pre), number |-> <<n>>]
<1> DEFINE y == <<n>> \o rest
           x == <<"nr">> \o y
           z == Work!Joined(Work!Kept(raw))
           m == Len(pre)
           I == {i \in 1..Len(z) : z[i] \in {"nr"}}
<1>1. n \in Words /\ n # "comma" /\ n # "nr" /\ n # "fn" /\ "nr" \in Words
  BY AddressAssumption DEF Words
<1>2. <<n>> \in Seq(Words) /\ Len(<<n>>) = 1 /\ <<n>>[1] = n
  BY <1>1
<1>3. y \in Seq(Words) /\ Len(y) \in Nat
  BY <1>2, ConcatProperties
<1>4. <<"nr">> \in Seq(Words) /\ Len(<<"nr">>) = 1 /\ <<"nr">>[1] = "nr"
  BY <1>1
<1> HIDE DEF y
<1>5. x \in Seq(Words) /\ Len(x) = 1 + Len(y) /\ x[1] = "nr" /\ x # <<>>
      /\ \A i \in 1..(1 + Len(y)) : x[i] = IF i <= 1 THEN "nr" ELSE y[i - 1]
  <2>1. /\ x \in Seq(Words) /\ Len(x) = 1 + Len(y)
        /\ \A i \in 1..(1 + Len(y)) : x[i] = IF i <= 1 THEN <<"nr">>[i] ELSE y[i - 1]
    BY <1>3, <1>4, ConcatProperties
  <2>2. 1 \in 1..(1 + Len(y)) /\ \A i \in 1..(1 + Len(y)) : i <= 1 => i = 1
    BY <1>3
  <2>3. Len(<<>>) = 0 /\ 1 + Len(y) # 0
    BY <1>3
  <2> HIDE DEF x
  <2> QED
    BY <1>4, <2>1, <2>2, <2>3
<1>6. z = pre \o x
  BY DEF y
<1> HIDE DEF x, z
<1>7. m \in Nat /\ z \in Seq(Words) /\ Len(z) = m + 1 + Len(y)
      /\ \A i \in 1..(m + (1 + Len(y))) : z[i] = IF i <= m THEN pre[i] ELSE x[i - m]
  <2>1. /\ m \in Nat /\ z \in Seq(Words) /\ Len(z) = m + Len(x)
        /\ \A i \in 1..(m + Len(x)) : z[i] = IF i <= m THEN pre[i] ELSE x[i - m]
    <3>1. x \in Seq(Words)
      BY <1>5
    <3> QED
      BY <1>6, <3>1, ConcatProperties
  <2>2. Len(x) = 1 + Len(y)
    BY <1>5
  <2> HIDE DEF m
  <2> QED
    BY <1>3, <2>1, <2>2
<1>8. Work!Min(I) = m + 1
  <2> DEFINE marks == {"nr"}
  <2>1. \A i \in 1..Len(pre) : pre[i] \notin marks
    OBVIOUS
  <2>2. x \in Seq(Words) /\ x # <<>> /\ x[1] \in marks
    BY <1>5
  <2> HIDE DEF marks
  <2>3. Work!Min({i \in 1..Len(pre \o x) : (pre \o x)[i] \in marks}) = Len(pre) + 1
    BY <2>1, <2>2, FirstOfMarks
  <2> QED
    BY <1>6, <2>3 DEF marks
<1>9. I = {i \in 1..Len(z) : z[i] = "nr"}
  OBVIOUS
<1>10. I # {}
  <2>1. m + 1 \in 1..(m + (1 + Len(y))) /\ ~(m + 1 <= m) /\ (m + 1) - m = 1
    BY <1>3, <1>7
  <2>2. z[m + 1] = "nr"
    BY <1>5, <1>7, <2>1
  <2>3. m + 1 \in 1..Len(z)
    BY <1>3, <1>7
  <2> QED
    BY <2>2, <2>3
<1> HIDE DEF I
<1>11. Work!SelectInSeq(z, LAMBDA w : w = "nr") = m + 1
  BY <1>8, <1>9, <1>10 DEF Work!SelectInSeq
<1>12. SubSeq(z, 1, m) = pre
  <2>1. CASE pre = <<>>
    BY <1>7, <2>1 DEF m
  <2>2. CASE pre # <<>>
    <3>1. 1 \in 1..m /\ m \in 1..m
      BY <2>2
    <3> QED
      BY <1>5, <1>6, <3>1, SubSeqOfConcat1, SubSeqFull DEF m
  <2> QED
    BY <2>1, <2>2
<1> HIDE DEF m
<1>13. SubSeq(z, m + 2, Len(z)) = y
  <2> DEFINE t == SubSeq(z, m + 2, Len(z))
  <2>1. \A i \in (m + 2)..Len(z) : z[i] \in Words
    <3>1. \A i \in (m + 2)..Len(z) : i \in 1..Len(z)
      BY <1>7
    <3> QED
      BY <1>7, <3>1
  <2>2. m + 2 \in Int /\ Len(z) \in Int /\ Len(z) - (m + 2) + 1 = Len(y)
        /\ (m + 2 <= Len(z) \/ (Len(y) = 0 /\ ~(m + 2 <= Len(z))))
    BY <1>3, <1>7
  <2>3. /\ t \in Seq(Words) /\ Len(t) = Len(y)
        /\ \A i \in 1..Len(y) : t[i] = z[(m + 2) + i - 1]
    BY <2>1, <2>2, SubSeqProperties
  <2> HIDE DEF t
  <2>4. ASSUME NEW i \in 1..Len(y) PROVE t[i] = y[i]
    <3>1. /\ (m + 2) + i - 1 \in 1..(m + (1 + Len(y))) /\ ~((m + 2) + i - 1 <= m)
          /\ ((m + 2) + i - 1) - m = i + 1 /\ i + 1 \in 1..(1 + Len(y))
          /\ ~(i + 1 <= 1) /\ (i + 1) - 1 = i
      BY <1>3, <1>7
    <3>2. z[(m + 2) + i - 1] = x[i + 1]
      BY <1>7, <3>1
    <3>3. x[i + 1] = y[i]
      BY <1>5, <3>1
    <3> QED
      BY <2>3, <3>2, <3>3
  <2>5. t = y
    BY <1>3, <2>3, <2>4, SeqEqual
  <2> QED
    BY <2>5 DEF t
<1>14. Work!Before(y, {"comma"}) = <<n>>
  <2>1. \A i \in 1..Len(<<n>>) : <<n>>[i] \notin {"comma"}
    BY <1>1, <1>2
  <2>2. rest = <<>> \/ rest[1] \in {"comma"}
    OBVIOUS
  <2> QED
    BY <1>2, <2>1, <2>2, BeforeMarks DEF y
<1>15. m + 1 > 0 /\ (m + 1) + 1 = m + 2 /\ (m + 1) - 1 = m
  BY <1>7
<1>16. <<n>> # <<"fn">> /\ <<n>> # <<"f", "n">>
  BY <1>1
<1> QED
  BY <1>11, <1>12, <1>13, <1>14, <1>15, <1>16 DEF Work!ParseWorkAddress, z

(* Without "nr" the last word of the first segment may be the number. *)
LEMMA UnmarkedIsRead ==
  ASSUME NEW raw, Work!Kept(raw) # <<>>, NEW c \in Seq(Words), Head(Work!Kept(raw)) = c,
         NEW z \in Seq(Words), Work!Joined(Work!Kept(raw)) = z,
         \A i \in 1..Len(z) : z[i] # "nr"
  PROVE  Work!ParseWorkAddress(raw) =
           [street |-> Work!StreetOf(c),
            number |-> IF c[Len(c)] \in Numbers /\ Len(c) > 1 THEN << c[Len(c)] >> ELSE <<>>]
<1>1. {i \in 1..Len(z) : z[i] = "nr"} = {}
  OBVIOUS
<1>2. Work!SelectInSeq(z, LAMBDA w : w = "nr") = 0
  BY <1>1 DEF Work!SelectInSeq
<1>3. \A n \in Numbers : <<n>> # <<"fn">> /\ <<n>> # <<"f", "n">>
  BY AddressAssumption
<1>4. Work!Last(c) = c[Len(c)]
  BY DEF Work!Last
<1> DEFINE number == IF c[Len(c)] \in Numbers /\ Len(c) > 1 THEN << c[Len(c)] >> ELSE <<>>
<1>5. (IF number \in {<<"fn">>, <<"f", "n">>} THEN <<>> ELSE number) = number
  BY <1>3
<1>6. ~(0 > 0)
  OBVIOUS
<1> QED
  BY <1>2, <1>4, <1>5, <1>6 DEF Work!ParseWorkAddress

LEMMA InNeither ==
  ASSUME NEW S, NEW x \in Seq(S), NEW y \in Seq(S), NEW w,
         \A i \in 1..Len(x) : x[i] # w, \A i \in 1..Len(y) : y[i] # w
  PROVE  \A i \in 1..Len(x \o y) : (x \o y)[i] # w
<1>1. ~Class!Contains(x, w) /\ ~Class!Contains(y, w)
  BY DEF Class!Contains
<1>2. ~Class!Contains(x \o y, w)
  BY <1>1, ContainedInPieces
<1> QED
  BY <1>2 DEF Class!Contains

Unmarked == {x \in Seq(Words) : \A i \in 1..Len(x) : x[i] # "nr"}

LEMMA PutTogether ==
  /\ \A x, y \in Seq(Words) : x \o y \in Seq(Words)
  /\ \A x, y, z \in Seq(Words) : (x \o y) \o z = x \o (y \o z)
  /\ \A x, y \in Unmarked : x \o y \in Unmarked
<1>1. ASSUME NEW x \in Seq(Words), NEW y \in Seq(Words) PROVE x \o y \in Seq(Words)
  BY ConcatProperties
<1>2. ASSUME NEW x \in Seq(Words), NEW y \in Seq(Words), NEW z \in Seq(Words)
      PROVE  (x \o y) \o z = x \o (y \o z)
  BY ConcatAssociative
<1>3. ASSUME NEW x \in Unmarked, NEW y \in Unmarked PROVE x \o y \in Unmarked
  <2>1. /\ x \in Seq(Words) /\ \A i \in 1..Len(x) : x[i] # "nr"
        /\ y \in Seq(Words) /\ \A i \in 1..Len(y) : y[i] # "nr"
    BY Zenon DEF Unmarked
  <2>2. \A i \in 1..Len(x \o y) : (x \o y)[i] # "nr"
    BY <2>1, InNeither, Zenon
  <2> QED
    BY <1>1, <2>1, <2>2, Zenon DEF Unmarked
<1> QED
  BY <1>1, <1>2, <1>3, Zenon

LEMMA JoinedFew ==
  /\ \A x \in Seq(Words) :
       /\ <<x>> \in Seq(Seq(Words)) /\ <<x>> # <<>> /\ Head(<<x>>) = x
       /\ Work!Joined(<<x>>) = x
  /\ \A x, y \in Seq(Words) :
       /\ <<x, y>> \in Seq(Seq(Words)) /\ <<x, y>> # <<>> /\ Head(<<x, y>>) = x
       /\ Work!Joined(<<x, y>>) = x \o (<<"comma">> \o y)
<1>1. "comma" \in Words
  BY DEF Words
<1>2. ASSUME NEW x \in Seq(Words), NEW y \in Seq(Words)
      PROVE  /\ <<x>> \in Seq(Seq(Words)) /\ <<x>> # <<>> /\ Head(<<x>>) = x
             /\ <<x, y>> \in Seq(Seq(Words)) /\ <<x, y>> # <<>> /\ Head(<<x, y>>) = x
             /\ <<x, y>> = Append(<<x>>, y)
  BY <1>2
<1>3. ASSUME NEW x \in Seq(Words), NEW y \in Seq(Words)
      PROVE  /\ Work!Joined(<<x>>) = x
             /\ Work!Joined(<<x, y>>) = x \o (<<"comma">> \o y)
  <2>1. <<x>> \in Seq(Seq(Words)) /\ <<x>> # <<>> /\ <<x, y>> = Append(<<x>>, y)
    BY <1>2, Zenon
  <2>2. /\ Work!Joined(Append(<<x>>, y)) = Work!Joined(<<x>>) \o (<<"comma">> \o y)
        /\ Work!Joined(<<x>>) = x
    BY <1>1, <2>1, JoinedSegments, Zenon
  <2> QED
    BY <2>1, <2>2, Zenon
<1> QED
  BY <1>2, <1>3, Zenon

(* The ways of writing one and the same street and number, each with what is kept
   behind it. *)
LEMMA StylesAreRead ==
  ASSUME NEW kinds \in Seq(Kinds), Len(kinds) <= 3, NEW name \in Names, NEW raw,
         NEW kept \in {<<>>, << <<"bl", "7">> >>}
  PROVE  LET street == kinds \o name
         IN /\ \A n \in Numbers :
                 /\ Work!Kept(raw) = << (street \o <<"nr">>) \o <<n>> >> \o kept
                      => Work!ParseWorkAddress(raw) = [street |-> name, number |-> <<n>>]
                 /\ Work!Kept(raw) = << street, <<"nr">> \o <<n>> >> \o kept
                      => Work!ParseWorkAddress(raw) = [street |-> name, number |-> <<n>>]
                 /\ Work!Kept(raw) = << street \o <<n>> >> \o kept
                      => Work!ParseWorkAddress(raw) = [street |-> name, number |-> <<n>>]
            /\ Work!Kept(raw) = << street, <<"fn">> >> \o kept
                 => Work!ParseWorkAddress(raw) = [street |-> name, number |-> <<>>]
<1> DEFINE street == kinds \o name
           nr == <<"nr">>
           comma == <<"comma">>
           fn == <<"fn">>
<1>1. /\ name \in Seq(Words) /\ name # <<>>
      /\ \A i \in 1..Len(name) : name[i] \notin Numbers \cup {"comma", "nr", "dash"}
  BY NameIsRight
<1>2. kinds \in Seq(Words) /\ \A i \in 1..Len(kinds) : kinds[i] # "nr"
  <2>1. Kinds \subseteq Words /\ "nr" \notin Kinds
    BY DEF Words, Kinds
  <2> QED
    BY <2>1, SeqMonotonic
<1>3. street \in Seq(Words) /\ \A i \in 1..Len(street) : street[i] # "nr"
  <2>1. \A i \in 1..Len(name) : name[i] # "nr"
    BY <1>1
  <2>2. name \in Unmarked /\ kinds \in Unmarked
    BY <1>1, <1>2, <2>1, Zenon DEF Unmarked
  <2> QED
    BY <2>2, PutTogether, Zenon DEF Unmarked
<1>4. /\ "nr" \in Words /\ "comma" \in Words /\ "fn" \in Words /\ Numbers \subseteq Words
      /\ "nr" \notin Numbers
  BY AddressAssumption DEF Words
<1>5. /\ nr \in Seq(Words) /\ comma \in Seq(Words) /\ fn \in Seq(Words)
      /\ \A n \in Numbers : <<n>> \in Seq(Words)
  BY <1>4
<1>6. /\ \A i \in 1..Len(comma) : comma[i] # "nr"
      /\ \A i \in 1..Len(fn) : fn[i] # "nr"
      /\ \A n \in Numbers : \A i \in 1..Len(<<n>>) : <<n>>[i] # "nr"
  BY <1>4
<1>7. ASSUME NEW rest \in Seq(Words), rest = <<>> \/ rest[1] \in Numbers \cup {"comma", "nr", "dash"}
      PROVE  Work!StreetOf(street \o rest) = name
  <2>1. street \o rest = kinds \o (name \o rest)
    BY <1>1, <1>2, <1>7, PutTogether, Zenon
  <2> QED
    BY <1>7, <2>1, StreetIsRead
<1>8. Work!StreetOf(street) = name
  <2>1. <<>> \in Seq(Words) /\ street \o <<>> = street
    BY <1>3, ConcatEmptySeq
  <2> QED
    BY <1>7, <2>1
<1>9. comma[1] = "comma" /\ comma # <<>>
  OBVIOUS
<1>10. name[Len(name)] \notin Numbers /\ street[Len(street)] = name[Len(name)]
  <2>1. Len(name) \in 1..Len(name) /\ Len(name) \in Nat /\ Len(kinds) \in Nat
    BY <1>1, <1>2
  <2>2. Len(street) = Len(kinds) + Len(name)
        /\ street[Len(kinds) + Len(name)] = name[Len(name)]
    <3>1. /\ Len(street) = Len(kinds) + Len(name)
          /\ \A i \in 1..(Len(kinds) + Len(name)) :
               street[i] = IF i <= Len(kinds) THEN kinds[i] ELSE name[i - Len(kinds)]
      BY <1>1, <1>2, ConcatProperties
    <3> DEFINE k == Len(kinds)
               m == Len(name)
    <3> HIDE DEF k, m, street
    <3>2. k + m \in 1..(k + m) /\ ~(k + m <= k) /\ (k + m) - k = m
      BY <2>1 DEF k, m
    <3> QED
      BY <3>1, <3>2 DEF k, m
  <2> QED
    BY <1>1, <2>1, <2>2
<1> HIDE DEF street, nr, comma, fn
<1>11. ASSUME NEW n \in Numbers, Work!Kept(raw) = << (street \o nr) \o <<n>> >> \o kept
       PROVE  Work!ParseWorkAddress(raw) = [street |-> name, number |-> <<n>>]
  <2> DEFINE c == (street \o nr) \o <<n>>
             core == <<c>>
  <2>1. c \in Seq(Words)
    BY <1>3, <1>5, PutTogether, Zenon
  <2>2. core \in Seq(Seq(Words)) /\ core # <<>> /\ Work!Joined(core) = c
    BY <2>1, JoinedFew, Zenon
  <2>3. PICK rest \in Seq(Words) :
           /\ rest = <<>> \/ rest[1] = "comma"
           /\ Work!Joined(core \o kept) = c \o rest
           /\ core \o kept # <<>>
    BY <2>1, <2>2, JoinedWithRest
  <2>4. c \o rest = street \o (nr \o (<<n>> \o rest))
    <3>1. <<n>> \in Seq(Words) /\ street \o nr \in Seq(Words)
      BY <1>3, <1>5, PutTogether, Zenon
    <3>2. <<n>> \o rest \in Seq(Words)
      BY <2>3, <3>1, PutTogether, Zenon
    <3>3. c \o rest = (street \o nr) \o (<<n>> \o rest)
      BY <2>3, <3>1, PutTogether, Zenon
    <3>4. (street \o nr) \o (<<n>> \o rest) = street \o (nr \o (<<n>> \o rest))
      BY <1>3, <1>5, <3>2, PutTogether, Zenon
    <3> QED
      BY <3>3, <3>4, Zenon
  <2> QED
    BY <1>3, <1>8, <1>11, <2>3, <2>4, MarkedIsRead DEF nr
<1>12. ASSUME NEW n \in Numbers, Work!Kept(raw) = << street, nr \o <<n>> >> \o kept
       PROVE  Work!ParseWorkAddress(raw) = [street |-> name, number |-> <<n>>]
  <2> DEFINE d == nr \o <<n>>
             core == <<street, d>>
             pre == street \o comma
  <2>1. d \in Seq(Words) /\ pre \in Seq(Words)
    BY <1>3, <1>5, PutTogether, Zenon
  <2>2. \A i \in 1..Len(pre) : pre[i] # "nr"
    <3>1. street \in Unmarked /\ comma \in Unmarked
      BY <1>3, <1>5, <1>6, Zenon DEF Unmarked
    <3> QED
      BY <3>1, PutTogether, Zenon DEF Unmarked
  <2> HIDE DEF d
  <2>3. core \in Seq(Seq(Words)) /\ core # <<>>
    BY <1>3, <2>1, JoinedFew, Zenon
  <2>4. Work!Joined(core) = street \o (comma \o d)
    BY <1>3, <2>1, JoinedFew, Zenon DEF comma
  <2>5. Work!Joined(core) \in Seq(Words)
    <3>1. comma \o d \in Seq(Words)
      BY <1>5, <2>1, PutTogether, Zenon
    <3>2. street \o (comma \o d) \in Seq(Words)
      BY <1>3, <3>1, PutTogether, Zenon
    <3> QED
      BY <2>4, <3>2, Zenon
  <2> HIDE DEF core
  <2>6. PICK rest \in Seq(Words) :
           /\ rest = <<>> \/ rest[1] = "comma"
           /\ Work!Joined(core \o kept) = (street \o (comma \o d)) \o rest
           /\ core \o kept # <<>>
    BY <2>3, <2>4, <2>5, JoinedWithRest
  <2>7. (street \o (comma \o d)) \o rest = pre \o (nr \o (<<n>> \o rest))
    <3>1. street \o (comma \o d) = pre \o d
      <4>1. (street \o comma) \o d = street \o (comma \o d)
        <5>1. street \in Seq(Words) /\ comma \in Seq(Words) /\ d \in Seq(Words)
          BY <1>3, <1>5, <2>1
        <5>2. \A x, y, z \in Seq(Words) : (x \o y) \o z = x \o (y \o z)
          BY PutTogether, Zenon
        <5> QED
          BY <5>1, <5>2, Zenon
      <4> QED
        BY <4>1
    <3>2. (pre \o d) \o rest = pre \o (d \o rest)
      BY <2>1, <2>6, PutTogether, Zenon
    <3>3. d \o rest = nr \o (<<n>> \o rest)
      BY <1>5, <2>6, PutTogether, Zenon DEF d
    <3> QED
      BY <3>1, <3>2, <3>3, Zenon
  <2>8. Work!StreetOf(pre) = name
    BY <1>5, <1>7, <1>9
  <2> HIDE DEF pre
  <2> QED
    BY <1>12, <2>1, <2>2, <2>6, <2>7, <2>8, MarkedIsRead DEF nr, core, d
<1>13. ASSUME NEW n \in Numbers, Work!Kept(raw) = << street \o <<n>> >> \o kept
       PROVE  Work!ParseWorkAddress(raw) = [street |-> name, number |-> <<n>>]
  <2> DEFINE c == street \o <<n>>
             core == <<c>>
  <2>1. c \in Seq(Words) /\ \A i \in 1..Len(c) : c[i] # "nr"
    <3>1. street \in Unmarked /\ <<n>> \in Unmarked
      BY <1>3, <1>5, <1>6, Zenon DEF Unmarked
    <3> QED
      BY <3>1, PutTogether, Zenon DEF Unmarked
  <2>2. core \in Seq(Seq(Words)) /\ core # <<>> /\ Work!Joined(core) = c /\ Head(core) = c
    BY <2>1, JoinedFew, Zenon
  <2>3. PICK rest \in Seq(Words) :
           /\ \A i \in 1..Len(rest) : rest[i] # "nr"
           /\ Work!Joined(core \o kept) = c \o rest
           /\ core \o kept # <<>> /\ Head(core \o kept) = c
    BY <2>1, <2>2, JoinedWithRest
  <2>4. c \o rest \in Seq(Words) /\ \A i \in 1..Len(c \o rest) : (c \o rest)[i] # "nr"
    <3>1. c \in Unmarked /\ rest \in Unmarked
      BY <2>1, <2>3, Zenon DEF Unmarked
    <3> QED
      BY <3>1, PutTogether, Zenon DEF Unmarked
  <2>5. c[Len(c)] = n /\ Len(c) > 1
    <3>1. Len(<<n>>) = 1 /\ <<n>>[1] = n
      OBVIOUS
    <3> DEFINE m == Len(street)
    <3>2. Len(c) = m + 1 /\ m \in Nat
          /\ \A i \in 1..(m + 1) : c[i] = IF i <= m THEN street[i] ELSE <<n>>[i - m]
      BY <1>3, <1>5, <3>1, ConcatProperties
    <3>3. m # 0
      <4>1. Len(name) \in Nat \ {0} /\ Len(kinds) \in Nat
        BY <1>1, <1>2
      <4>2. m = Len(kinds) + Len(name)
        BY <1>1, <1>2, ConcatProperties DEF street
      <4> HIDE DEF m
      <4> QED
        BY <4>1, <4>2
    <3> HIDE DEF m, c
    <3>4. m + 1 \in 1..(m + 1) /\ ~(m + 1 <= m) /\ (m + 1) - m = 1 /\ m + 1 > 1
      BY <3>2, <3>3
    <3>5. c[m + 1] = n
      BY <3>1, <3>2, <3>4
    <3> QED
      BY <3>2, <3>4, <3>5
  <2>6. Work!StreetOf(c) = name
    <3>1. <<n>>[1] \in Numbers
      OBVIOUS
    <3> QED
      BY <1>5, <1>7, <3>1
  <2> DEFINE z == c \o rest
  <2>7. z \in Seq(Words) /\ (\A i \in 1..Len(z) : z[i] # "nr")
        /\ Work!Joined(Work!Kept(raw)) = z /\ Work!Kept(raw) # <<>> /\ Head(Work!Kept(raw)) = c
    BY <1>13, <2>3, <2>4
  <2> HIDE DEF c, z
  <2>8. Work!ParseWorkAddress(raw) =
           [street |-> Work!StreetOf(c),
            number |-> IF c[Len(c)] \in Numbers /\ Len(c) > 1 THEN << c[Len(c)] >> ELSE <<>>]
    BY <2>1, <2>7, UnmarkedIsRead
  <2> QED
    BY <2>5, <2>6, <2>8
<1>14. ASSUME Work!Kept(raw) = << street, fn >> \o kept
       PROVE  Work!ParseWorkAddress(raw) = [street |-> name, number |-> <<>>]
  <2> DEFINE core == <<street, fn>>
             c == street \o (comma \o fn)
  <2>1. core \in Seq(Seq(Words)) /\ core # <<>> /\ Head(core) = street
    BY <1>3, <1>5, JoinedFew, Zenon
  <2>2. Work!Joined(core) = c
    BY <1>3, <1>5, JoinedFew, Zenon DEF comma
  <2>3. comma \o fn \in Seq(Words) /\ \A i \in 1..Len(comma \o fn) : (comma \o fn)[i] # "nr"
    <3>1. comma \in Unmarked /\ fn \in Unmarked
      BY <1>5, <1>6, Zenon DEF Unmarked
    <3> QED
      BY <3>1, PutTogether, Zenon DEF Unmarked
  <2>4. c \in Seq(Words) /\ \A i \in 1..Len(c) : c[i] # "nr"
    <3>1. street \in Unmarked /\ comma \o fn \in Unmarked
      BY <1>3, <2>3, Zenon DEF Unmarked
    <3> QED
      BY <3>1, PutTogether, Zenon DEF Unmarked
  <2> HIDE DEF c, core
  <2>5. PICK rest \in Seq(Words) :
           /\ \A i \in 1..Len(rest) : rest[i] # "nr"
           /\ Work!Joined(core \o kept) = c \o rest
           /\ core \o kept # <<>> /\ Head(core \o kept) = street
    BY <2>1, <2>2, <2>4, JoinedWithRest
  <2> DEFINE z == c \o rest
  <2>6. z \in Seq(Words) /\ \A i \in 1..Len(z) : z[i] # "nr"
    <3>1. c \in Unmarked /\ rest \in Unmarked
      BY <2>4, <2>5, Zenon DEF Unmarked
    <3> QED
      BY <3>1, PutTogether, Zenon DEF Unmarked
  <2>7. Work!Joined(Work!Kept(raw)) = z /\ Work!Kept(raw) # <<>>
        /\ Head(Work!Kept(raw)) = street
    BY <1>14, <2>5 DEF core
  <2> HIDE DEF z
  <2>8. Work!ParseWorkAddress(raw) =
          [street |-> Work!StreetOf(street),
           number |-> IF street[Len(street)] \in Numbers /\ Len(street) > 1
                      THEN << street[Len(street)] >> ELSE <<>>]
    BY <1>3, <2>6, <2>7, UnmarkedIsRead
  <2> QED
    BY <1>8, <1>10, <2>8
<1> QED
  BY <1>11, <1>12, <1>13, <1>14 DEF street, nr, fn

(* The segments that hold street and number are all kept. *)
LEMMA CoresAreKept ==
  ASSUME NEW kinds \in Seq(Kinds), NEW name \in Names
  PROVE  LET street == kinds \o name
             Stays(core) == core \in Seq(Seq(Words)) /\ Work!Kept(core) = core
         IN /\ \A n \in Numbers :
                 /\ Stays(<< (street \o <<"nr">>) \o <<n>> >>)
                 /\ Stays(<< street, <<"nr">> \o <<n>> >>)
                 /\ Stays(<< street \o <<n>> >>)
            /\ Stays(<< street, <<"fn">> >>)
<1> DEFINE street == kinds \o name
           Whole(s) == s \in Seq(Words) /\ Filtered(s) = <<s>>
           Stays(core) == core \in Seq(Seq(Words)) /\ Work!Kept(core) = core
<1>1. kinds \in Seq(Words) /\ name \in Seq(Words)
  <2>1. Kinds \subseteq Words
    BY DEF Words
  <2> QED
    BY <2>1, SeqMonotonic, NameIsRight
<1>2. street \in Seq(Words)
  BY <1>1, PutTogether, Zenon
<1>3. ASSUME NEW rest \in Seq(Words) PROVE Whole(street \o rest)
  BY <1>3, StreetIsKept
<1>4. Whole(street)
  <2>1. <<>> \in Seq(Words) /\ street \o <<>> = street
    BY <1>2, ConcatEmptySeq
  <2> QED
    BY <1>3, <2>1, Zenon
<1>5. Whole(<<"fn">>)
  BY OtherSegments
<1>6. ASSUME NEW n \in Numbers
      PROVE  /\ <<"nr">> \in Seq(Words) /\ <<n>> \in Seq(Words)
             /\ Whole(<<"nr">> \o <<n>>)
  <2>1. "nr" \in Words /\ n \in Words
    BY DEF Words
  <2>2. <<"nr">> \o <<n>> = <<"nr", n>>
    BY <2>1, TwoTogether, Zenon
  <2>3. Filtered(<<"nr", n>>) = << <<"nr", n>> >> /\ <<"nr", n>> \in Seq(Words)
    BY OtherSegments, Zenon
  <2>4. <<"nr">> \in Seq(Words) /\ <<n>> \in Seq(Words)
    BY <2>1
  <2> QED
    BY <2>2, <2>3, <2>4, Zenon
<1> HIDE DEF street
<1>7. ASSUME NEW s, Whole(s) PROVE Stays(<<s>>)
  <2>1. s \in Seq(Words) /\ Filtered(s) = <<s>>
    BY <1>7, Zenon
  <2>2. <<s>> \in Seq(Seq(Words))
    BY <2>1
  <2>3. Work!Kept(<<s>>) = <<s>>
    BY <2>1, KeptOne, Zenon
  <2> QED
    BY <2>2, <2>3, Zenon
<1>8. ASSUME NEW s, NEW t, Whole(s), Whole(t) PROVE Stays(<<s, t>>)
  <2>1. Stays(<<s>>) /\ Stays(<<t>>) /\ s \in Seq(Words) /\ t \in Seq(Words)
    BY <1>7, <1>8, Zenon
  <2>2. <<s, t>> \in Seq(Seq(Words)) /\ <<s>> \o <<t>> = <<s, t>>
    BY <2>1, TwoTogether, Zenon
  <2>3. Work!Kept(<<s>> \o <<t>>) = Work!Kept(<<s>>) \o Work!Kept(<<t>>)
    BY <2>1, KeptConcat, Zenon
  <2>4. Work!Kept(<<s, t>>) = <<s, t>>
    BY <2>1, <2>2, <2>3, Zenon
  <2> QED
    BY <2>2, <2>4, Zenon
<1>9. ASSUME NEW n \in Numbers
      PROVE  /\ Whole((street \o <<"nr">>) \o <<n>>)
             /\ Whole(street \o <<n>>)
  <2>1. <<"nr">> \in Seq(Words) /\ <<n>> \in Seq(Words) /\ <<"nr">> \o <<n>> \in Seq(Words)
    BY <1>6, Zenon
  <2>2. (street \o <<"nr">>) \o <<n>> = street \o (<<"nr">> \o <<n>>)
    <3>1. \A x, y, z \in Seq(Words) : (x \o y) \o z = x \o (y \o z)
      BY PutTogether, Zenon
    <3> QED
      BY <1>2, <2>1, <3>1, Zenon
  <2>3. Whole(street \o (<<"nr">> \o <<n>>)) /\ Whole(street \o <<n>>)
    BY <1>3, <2>1, Zenon
  <2> QED
    BY <2>2, <2>3, Zenon
<1> HIDE DEF Whole, Stays
<1>10. ASSUME NEW n \in Numbers
       PROVE  /\ Stays(<< (street \o <<"nr">>) \o <<n>> >>)
              /\ Stays(<< street, <<"nr">> \o <<n>> >>)
              /\ Stays(<< street \o <<n>> >>)
  BY <1>4, <1>6, <1>7, <1>8, <1>9, Zenon
<1>11. Stays(<< street, <<"fn">> >>)
  BY <1>4, <1>5, <1>8, Zenon
<1> QED
  BY <1>10, <1>11, Zenon DEF Stays, street

(* Street and number come out of an address as they were, in every way of writing it. *)
LEMMA AddressIsUnderstood ==
  ASSUME NEW a \in Addresses, a.number = <<>> <=> a.style = "without"
  PROVE  Work!ParseWorkAddress(Segments(a)) = [street |-> a.name, number |-> a.number]
<1> DEFINE street == a.kinds \o a.name
           kept == Work!Kept(a.after)
           Read == Work!ParseWorkAddress(Segments(a))
<1>1. /\ a.kinds \in BoundedSeq(Kinds, 3) /\ a.name \in Names
      /\ a.number \in {<<n>> : n \in Numbers} \cup {<<>>}
      /\ a.style \in {"marked", "marked apart", "bare", "without"}
      /\ a.before \in {<<>>, << <<"judetul", "cluj">>, <<"cluj", "napoca">> >>}
      /\ a.after \in {<<>>, << <<"municipiul", "cluj">> >>, << <<"bl", "7">> >>}
  BY DEF Addresses, Kinds
<1>2. a.kinds \in Seq(Kinds) /\ Len(a.kinds) <= 3
  <2>1. PICK m \in 0..3 : a.kinds \in [1..m -> Kinds]
    BY <1>1 DEF BoundedSeq, SeqOf
  <2> QED
    BY <2>1
<1>3. kept \in {<<>>, << <<"bl", "7">> >>}
  BY <1>1, SegmentsAround, Zenon
<1>4. ASSUME NEW core, core \in Seq(Seq(Words)), Work!Kept(core) = core,
             Segments(a) = (a.before \o core) \o a.after
      PROVE  Work!Kept(Segments(a)) = core \o kept
  BY <1>1, <1>4, SegmentsKept, Zenon
<1>5. CASE a.style = "without"
  <2> DEFINE core == << street, <<"fn">> >>
  <2>1. a.number = <<>>
    BY <1>5
  <2>2. Segments(a) = (a.before \o core) \o a.after
    BY <1>5 DEF Segments
  <2>3. core \in Seq(Seq(Words)) /\ Work!Kept(core) = core
    BY <1>1, <1>2, CoresAreKept, Zenon
  <2>4. Work!Kept(Segments(a)) = core \o kept
    BY <1>4, <2>2, <2>3, Zenon
  <2>5. Read = [street |-> a.name, number |-> <<>>]
    BY <1>1, <1>2, <1>3, <2>4, StylesAreRead, Zenon
  <2> QED
    BY <2>1, <2>5
<1>6. CASE a.style # "without"
  <2>1. PICK n \in Numbers : a.number = <<n>>
    BY <1>1, <1>6
  <2>2. \/ Segments(a) = (a.before \o << (street \o <<"nr">>) \o <<n>> >>) \o a.after
        \/ Segments(a) = (a.before \o << street, <<"nr">> \o <<n>> >>) \o a.after
        \/ Segments(a) = (a.before \o << street \o <<n>> >>) \o a.after
    <3>1. CASE a.style = "marked"
      BY <2>1, <3>1 DEF Segments
    <3>2. CASE a.style = "marked apart"
      BY <2>1, <3>2 DEF Segments
    <3>3. CASE a.style = "bare"
      BY <2>1, <3>3 DEF Segments
    <3> QED
      BY <1>1, <1>6, <3>1, <3>2, <3>3
  <2> DEFINE marked == << (street \o <<"nr">>) \o <<n>> >>
             apart == << street, <<"nr">> \o <<n>> >>
             bare == << street \o <<n>> >>
             Stays(core) == core \in Seq(Seq(Words)) /\ Work!Kept(core) = core
             Right(core) == Work!Kept(Segments(a)) = core \o kept
                              => Read = [street |-> a.name, number |-> <<n>>]
  <2>3. Stays(marked) /\ Stays(apart) /\ Stays(bare)
    BY <1>1, <1>2, CoresAreKept, Zenon
  <2>4. Right(marked) /\ Right(apart) /\ Right(bare)
    <3>1. Len(a.kinds) <= 3 /\ a.kinds \in Seq(Kinds) /\ a.name \in Names
      BY <1>1, <1>2, Zenon
    <3> QED
      BY <1>3, <3>1, StylesAreRead, Zenon
  <2>5. ASSUME NEW core, Segments(a) = (a.before \o core) \o a.after, Stays(core), Right(core)
        PROVE  Read = [street |-> a.name, number |-> <<n>>]
    BY <1>4, <2>5, Zenon
  <2> HIDE DEF Stays, Right, Read, marked, apart, bare
  <2>6. Read = [street |-> a.name, number |-> <<n>>]
    <3>1. CASE Segments(a) = (a.before \o marked) \o a.after
      BY <2>3, <2>4, <2>5, <3>1, Zenon
    <3>2. CASE Segments(a) = (a.before \o apart) \o a.after
      BY <2>3, <2>4, <2>5, <3>2, Zenon
    <3>3. CASE Segments(a) = (a.before \o bare) \o a.after
      BY <2>3, <2>4, <2>5, <3>3, Zenon
    <3> QED
      BY <2>2, <3>1, <3>2, <3>3, Zenon DEF marked, apart, bare
  <2> QED
    BY <2>1, <2>6 DEF Read
<1> QED
  BY <1>5, <1>6

(* parse_work_address: of an address written in any of the ways met on the site, with
   as many kinds of street as street_of drops, come its street and its number. *)
THEOREM AddressesAreRead == TextsSpec => []AddressIsRead
<1> DEFINE Inv == address # Missing =>
                    /\ address \in Addresses
                    /\ address.number = <<>> <=> address.style = "without"
<1>1. TextsInit => Inv
  BY DEF TextsInit
<1>2. Inv /\ [TextsNext]_textVars => Inv'
  <2> SUFFICES ASSUME Inv, [TextsNext]_textVars PROVE Inv'
    OBVIOUS
  <2>1. ASSUME NEW a \in Addresses, WriteAddress(a) PROVE Inv'
    <3>1. address' = a /\ (a.number = <<>> <=> a.style = "without")
      BY <2>1 DEF WriteAddress
    <3> QED
      BY <3>1
  <2>2. CASE address' = address
    BY <2>2
  <2>3. (\E a \in Addresses : WriteAddress(a)) \/ address' = address
    BY DEF TextsNext, textVars, AddWord, BeginAgenda, Columns, PrintRow, LoseRow,
           PrintWord, TurnPage, Sign, Below, Reads
  <2> QED
    BY <2>1, <2>2, <2>3
<1>3. Inv => AddressIsRead
  BY AddressIsUnderstood DEF AddressIsRead
<1> QED
  BY <1>1, <1>2, <1>3, PTL DEF TextsSpec
=============================================================================
