------------------------------- MODULE Search -------------------------------
(***************************************************************************)
(* The search of projects and of certificates: from the form, a link or    *)
(* the API (crates/app/src/query.rs, api/handlers.rs, ui/home.rs) to the   *)
(* statements of Db::search and Db::search_certificates, page after page,  *)
(* while a sync writes.                                                    *)
(*                                                                         *)
(* A text is a set of words; normalisation and the match on the beginning  *)
(* of a word are left out.  A behaviour is about one of the two searches.  *)
(* The statements of a search are not in a transaction: a commit may come  *)
(* between the count, the page and the rows of the agendas.  Documents are *)
(* left out, and the rows of the agendas are not more than their LIMIT.    *)
(***************************************************************************)
EXTENDS Integers, FiniteSets, Sequences, SequencesExt

CONSTANTS
  Visitors,
  Words,
  Meetings,       \* numbered by date
  YearOf,         \* of each of these dates
  Projects,       \* their pages at the city
  TitleOf,        \* words of title and address of each project
  Certificates,   \* numbered by date
  CertificateOf,  \* kind, words of the list and words of the page of each
  Classify,       \* the category a text is given
  Typed,          \* what visitors write in a parameter `tip`
  None,
  Page,           \* SearchParams::PAGE, CertificateParams::PAGE
  MaxLimit,       \* SearchQuery::MAX_LIMIT
  MaxRows         \* bound: rows of an agenda

(* Category::ALL and CertificateKind::ALL, by their as_str. *)
Categories == {"AVIZ_OPORTUNITATE", "PUZ", "PUD", "ALTELE"}
CertificateKinds == {"INFORMARE", "CONSTRUIRE", "PUZ", "PUD", "OPERATIUNI", "ALTELE"}

(* A row of table items: id, meeting, words of the row of an agenda; and whether more
   than one meeting has listed it (history). *)
Item == [id: 1..Cardinality(Projects), meeting: Meetings,
         row: {None} \cup SUBSET Words, shared: BOOLEAN]

ASSUME SearchAssumption ==
  /\ Meetings \cup Certificates \subseteq Nat
  /\ IsFiniteSet(Projects) /\ IsFiniteSet(Certificates)
  /\ TitleOf \in [Projects -> SUBSET Words]
  /\ Classify \in [SUBSET Words -> Categories]
  /\ CertificateOf \in [Certificates -> [kind: CertificateKinds,
                                         list: SUBSET Words, page: SUBSET Words]]
  /\ {Page, MaxLimit} \subseteq Nat \ {0} /\ Page <= MaxLimit
  /\ None \notin Nat \cup Projects \cup CertificateKinds \cup Categories \cup Item
  /\ \A words \in SUBSET Words : words # None

VARIABLES
  subject,  \* what the visitors search: "projects" or "certificates"
  items,    \* table items
  rows,     \* table agenda_rows: of each meeting, words and project linked
  certs,    \* table certificates: the words indexed of each
  visit     \* the search of each visitor; `wanted`, `owed`, `torn` are history

vars == <<subject, items, rows, certs, visit>>

Years == {YearOf[e] : e \in DOMAIN YearOf}
Kinds == IF subject = "projects" THEN Categories ELSE CertificateKinds

-----------------------------------------------------------------------------
(* Category::from_str and CertificateKind::from_str; in capitals here. *)
CategoryOf(t) ==
  CASE t \in Categories -> t
    [] t \in {"AVIZ", "OPORTUNITATE"} -> "AVIZ_OPORTUNITATE"
    [] OTHER -> None

KindOf(t) ==
  CASE t \in CertificateKinds -> t
    [] t = "INFO" -> "INFORMARE"
    [] t \in {"CONSTR", "AUTORIZARE"} -> "CONSTRUIRE"
    [] t \in {"NOTARIAL", "CADASTRAL"} -> "OPERATIUNI"
    [] OTHER -> None

Named(t) == IF subject = "projects" THEN CategoryOf(t) ELSE KindOf(t)

(* Mutant: a name that is not known is a filter like the others. *)
NamedOf(typed) == {Named(t) : t \in typed}

KnownOf(typed) == {Named(t) : t \in typed} \ {None}

(* The query string: pairs of a key and a value, `tip` with a set of names. *)
LastOf(url, keys, otherwise) ==
  LET at == {i \in DOMAIN url : url[i][1] \in keys}
  IN IF at = {} THEN otherwise ELSE url[Max(at)][2]

(* Mutant: of several `tip` the last is taken, as of the other keys. *)
LastTip(url) == KnownOf(LastOf(url, {"tip"}, {}))

AllTips(url) == UNION {KnownOf(pair[2]) : pair \in {p \in ToSet(url) : p[1] = "tip"}}

(* SearchParams::from: the order and the repetition of categories do not matter. *)
SearchParams(url) ==
  [q |-> LastOf(url, {"q"}, {}), tip |-> AllTips(url),
   an |-> LastOf(url, {"an"}, None), offset |-> LastOf(url, {"de_la", "offset"}, 0)]

(* SearchParams::fmt: what is empty is left out. *)
Pair(key, value, empty) == IF value = empty THEN <<>> ELSE << <<key, value>> >>

Show(p) ==
  Pair("q", p.q, {}) \o Pair("tip", p.tip, {}) \o Pair("an", p.an, None)
    \o Pair("de_la", p.offset, 0)

(* The form of Home and Certificates, sent: a pair for each box that is ticked. *)
FormUrl(q, ticked, an) ==
  << <<"q", q>> >> \o [i \in 1..Cardinality(ticked) |-> <<"tip", {SetToSeq(ticked)[i]}>>]
    \o << <<"an", an>> >>

(* SearchParams::to_query. *)
ToQuery(p) ==
  [q |-> p.q, kinds |-> p.tip, year |-> p.an, limit |-> Page, offset |-> p.offset]

(* clamped_limit. *)
Limit(query) ==
  IF query.limit < 1 THEN 1 ELSE IF query.limit > MaxLimit THEN MaxLimit ELSE query.limit

-----------------------------------------------------------------------------
(* Filters: every word, one of the kinds if any is named, the year if one is. *)
Passes(query, words, kind, year) ==
  /\ query.q \subseteq words
  /\ query.kinds = {} \/ kind \in query.kinds
  /\ query.year \in {None, year}

(* Mutant: the text of the agenda is not indexed with the project. *)
TitleOnly(p) == TitleOf[p]

(* reindex_item. *)
ItemText(p) == TitleOf[p] \cup (IF items[p].row = None THEN {} ELSE items[p].row)

ProjectPasses(query, p) ==
  /\ items[p] # None
  /\ Passes(query, ItemText(p), Classify[TitleOf[p]], YearOf[items[p].meeting])

CertificatePasses(query, c) ==
  /\ certs[c] # None
  /\ Passes(query, certs[c], CertificateOf[c].kind, YearOf[c])

(* ORDER BY m.date DESC, i.id ASC. *)
ProjectBefore(p, o) ==
  \/ items[p].meeting > items[o].meeting
  \/ items[p].meeting = items[o].meeting /\ items[p].id < items[o].id

(* ... and of certificates by date DESC. *)
Precedes(e, o) == IF subject = "projects" THEN ProjectBefore(e, o) ELSE e > o

(* Everything the WHERE of a search leaves. *)
Hits(query) ==
  IF subject = "projects" THEN {p \in Projects : ProjectPasses(query, p)}
  ELSE {c \in Certificates : CertificatePasses(query, c)}

(* How many results are before one. *)
Rank(query, e) == Cardinality({o \in Hits(query) : Precedes(o, e)})

(* LIMIT OFFSET. *)
PageOf(query) ==
  {e \in Hits(query) : Rank(query, e) - query.offset \in 0..(Limit(query) - 1)}

(* Rows without a project; only if there is a text to search. *)
AgendaOnly(query) ==
  IF query.q = {} THEN {}
  ELSE UNION {{r \in rows[m] : /\ r.item = None
                               /\ Passes(query, r.words, Classify[r.words], YearOf[m])}
              : m \in Meetings}

-----------------------------------------------------------------------------
Away == [pc |-> "away"]

Sees(v, local) == visit' = [visit EXCEPT ![v] = local]

(* A new search: what is asked, what the visitor meant by it, where it is read. *)
Asks(v, query, wanted, pager) ==
  /\ Sees(v, [pc |-> "asked", query |-> query, wanted |-> wanted, pager |-> pager,
              total |-> 0, owed |-> {}, torn |-> FALSE])
  /\ UNCHANGED <<subject, items, rows, certs>>

Wanted(q, kinds, an) == [q |-> q, kinds |-> kinds, year |-> an]

SubmitForm(v, q, ticked, an) ==
  /\ visit[v].pc = "away"
  /\ Asks(v, ToQuery(SearchParams(FormUrl(q, ticked, an))), Wanted(q, ticked, an), TRUE)

(* A link from elsewhere; names that are not known are ignored. *)
OpenLink(v, q, typed, an) ==
  /\ visit[v].pc = "away"
  /\ Asks(v, ToQuery(SearchParams(<< <<"q", q>>, <<"tip", typed>>, <<"an", an>> >>)),
          Wanted(q, KnownOf(typed), an), TRUE)

(* The API refuses them, takes any limit and has no pager. *)
CallApi(v, q, typed, an, limit, offset) ==
  /\ visit[v].pc = "away"
  /\ \A t \in typed : Named(t) # None
  /\ Asks(v, [q |-> q, kinds |-> KnownOf(typed), year |-> an, limit |-> limit,
              offset |-> offset],
          Wanted(q, KnownOf(typed), an), FALSE)

(* The page on which the visitor begins to follow the links. *)
FirstOf(local) == local.pager /\ local.query.offset = 0

(* Mutant: the results are counted on the first page, and the number handed on. *)
CountedOnce(local, hits) == IF FirstOf(local) THEN Cardinality(hits) ELSE local.total

Counted(local, hits) == Cardinality(hits)

Count(v) ==
  LET local == visit[v]
      hits  == Hits(local.query)
  IN /\ local.pc = "asked"
     /\ Sees(v, [local EXCEPT !.pc = "counted", !.total = Counted(local, hits),
                              !.torn = FALSE,
                              !.owed = IF FirstOf(local) THEN hits ELSE @])
     /\ UNCHANGED <<subject, items, rows, certs>>

Select(v) ==
  LET local == visit[v]
  IN /\ local.pc = "counted"
     /\ Sees(v, [local EXCEPT !.pc = "shown", !.owed = @ \ PageOf(local.query)])
     /\ UNCHANGED <<subject, items, rows, certs>>

(* The link to the next page, from Pager, through the query string. *)
ParamsOf(query) ==
  [q |-> query.q, tip |-> query.kinds, an |-> query.year, offset |-> query.offset]

HasNext(local) == local.query.offset + Page < local.total

FollowNext(v) ==
  LET local == visit[v]
      next  == [ParamsOf(local.query) EXCEPT !.offset = @ + Page]
  IN /\ local.pc = "shown" /\ local.pager
     /\ HasNext(local)
     /\ Sees(v, [local EXCEPT !.pc = "asked", !.query = ToQuery(SearchParams(Show(next)))])
     /\ UNCHANGED <<subject, items, rows, certs>>

Leave(v) ==
  /\ visit[v].pc # "away"
  /\ Sees(v, Away)
  /\ UNCHANGED <<subject, items, rows, certs>>

-----------------------------------------------------------------------------
(* What a commit does to the searches under way: whether results left or changed
   places, and whether it fell between the count and the page. *)
Notice ==
  LET busy == {v \in Visitors : visit[v].pc # "away"}
      calm == {q \in {visit[v].query : v \in busy} :
                 /\ Hits(q) \subseteq Hits(q)'
                 /\ \A e, o \in Hits(q) : Precedes(e, o) => Precedes(e, o)'}
  IN visit' = [v \in Visitors |->
       IF v \notin busy THEN visit[v]
       ELSE [visit[v] EXCEPT !.owed = IF visit[v].query \in calm THEN @ ELSE {},
                             !.torn = @ \/ visit[v].pc = "counted"]]

Known == {p \in Projects : items[p] # None}

(* Mutant: what an agenda said of a project is cleared by a page without it. *)
RowOrNothing(p, row) == row

Coalesce(p, row) == IF row # None \/ items[p] = None THEN row ELSE items[p].row

(* The new projects among the cards of a page, up to one of them. *)
NewUpTo(p, cards) ==
  {o \in Projects \ Known :
     \E i, j \in DOMAIN cards : i <= j /\ cards[i] = o /\ cards[j] = p}

(* write_meeting: the cards of the page, in its order, and the rows of its agenda
   with the cards they are matched with (see MeetingSync), or no agenda. *)
WriteMeeting(m, cards, agenda) ==
  LET rowOf(p) == IF agenda = None \/ \A r \in agenda : r.item # p THEN None
                  ELSE (CHOOSE r \in agenda : r.item = p).words
      idOf(p)  == IF p \in Known THEN items[p].id
                  ELSE Cardinality(Known) + Cardinality(NewUpTo(p, cards))
  IN /\ subject = "projects"
     /\ items' = [p \in Projects |->
          IF p \in ToSet(cards)
          THEN [id |-> idOf(p), meeting |-> m, row |-> Coalesce(p, rowOf(p)),
                shared |-> items[p] # None /\ (items[p].shared \/ items[p].meeting # m)]
          ELSE items[p]]
     /\ rows' = IF agenda = None THEN rows ELSE [rows EXCEPT ![m] = agenda]
     /\ UNCHANGED <<subject, certs>>
     /\ Notice

(* write_certificates of a new one, and later its page. *)
ListCertificate(c) ==
  /\ subject = "certificates"
  /\ certs[c] = None
  /\ certs' = [certs EXCEPT ![c] = CertificateOf[c].list]
  /\ UNCHANGED <<subject, items, rows>>
  /\ Notice

ReadCertificatePage(c) ==
  /\ certs[c] # None
  /\ certs' = [certs EXCEPT ![c] = @ \cup CertificateOf[c].page]
  /\ certs' # certs
  /\ UNCHANGED <<subject, items, rows>>
  /\ Notice

-----------------------------------------------------------------------------
Init ==
  /\ subject \in {"projects", "certificates"}
  /\ items = [p \in Projects |-> None]
  /\ rows = [m \in Meetings |-> {}]
  /\ certs = [c \in Certificates |-> None]
  /\ visit = [v \in Visitors |-> Away]

Pages == UNION {SetToSeqs(S) : S \in SUBSET Projects}

(* Rows are matched with at most one card each, and cards with one row. *)
AgendasFor(cards) ==
  {None} \cup
  {agenda \in SUBSET [words: (SUBSET Words) \ {{}}, item: ToSet(cards) \cup {None}] :
     /\ Cardinality(agenda) <= MaxRows
     /\ \A r, s \in agenda : r # s /\ r.item # None => r.item # s.item}

Ask(v) ==
  \E q \in SUBSET Words, an \in Years \cup {None} :
    \/ \E ticked \in SUBSET KnownOf(Typed) : SubmitForm(v, q, ticked, an)
    \/ \E typed \in SUBSET Typed :
         \/ OpenLink(v, q, typed, an)
         \/ \E limit \in {0, MaxLimit + 1} : CallApi(v, q, typed, an, limit, Page)

Write ==
  \/ \E m \in Meetings, cards \in Pages :
       \E agenda \in AgendasFor(cards) : WriteMeeting(m, cards, agenda)
  \/ \E c \in Certificates : ListCertificate(c) \/ ReadCertificatePage(c)

Next ==
  \/ Write
  \/ \E v \in Visitors :
       Ask(v) \/ Count(v) \/ Select(v) \/ FollowNext(v) \/ Leave(v)

Spec == Init /\ [][Next]_vars

-----------------------------------------------------------------------------
Queries ==
  [q: SUBSET Words, kinds: SUBSET Kinds, year: Years \cup {None}, limit: Nat, offset: Nat]

(* The tables are well-formed, and so is what visitors have asked and been shown. *)
TypeOK ==
  /\ items \in [Projects -> {None} \cup Item]
  /\ \A p, o \in Known : p # o => items[p].id # items[o].id
  /\ certs \in [Certificates -> {None} \cup SUBSET Words]
  /\ \A m \in Meetings : \A r \in rows[m] :
       r.words \subseteq Words /\ (r.item = None \/ items[r.item] # None)
  /\ \A v \in Visitors :
       visit[v].pc # "away" => /\ visit[v].query \in Queries
                               /\ visit[v].pager => visit[v].query.offset % Page = 0

(* "un link poate fi partajat și redeschis cu aceleași rezultate"
   (requirements.md:91-92): the query the database is asked is the search the
   visitor meant, from the form, a link or the API, and on every further page, each
   of which goes through the query string again. *)
AnswersWhatWasAsked ==
  \A v \in Visitors :
    visit[v].pc # "away" =>
      LET query == visit[v].query
      IN Wanted(query.q, query.kinds, query.year) = visit[v].wanted

(* A visitor who follows the links to the last page has been shown every result that
   was there from the first count on, however many the sync has added meanwhile;
   unless a result has left or changed places (then nothing is owed any more), or a
   commit fell between the count and the page of the last request, whose link to the
   next page it may suppress. *)
PagerShowsAll ==
  \A v \in Visitors :
    LET local == visit[v]
    IN local.pc = "shown" /\ ~HasNext(local) /\ ~local.torn => local.owed = {}

(* "proiectele al căror titlu, ... sau descriere din ordinea de zi conține fiecare
   cuvânt" and "rândurile din ordinea de zi fără proiect publicat"
   (requirements.md:77-79, 86): a row of an agenda in which a text is found is in the
   results of the text, itself or by its project, whatever was written since the two
   were linked; up to projects that several meetings have listed, which keep the
   words of one of them. *)
RowsAreFound ==
  \A q \in (SUBSET Words) \ {{}} :
    LET query == [q |-> q, kinds |-> {}, year |-> None, limit |-> MaxLimit, offset |-> 0]
    IN \A m \in Meetings : \A r \in rows[m] :
         q \subseteq r.words =>
           \/ r \in AgendaOnly(query)
           \/ r.item \in Hits(query)
           \/ r.item # None /\ items[r.item].shared
=============================================================================
