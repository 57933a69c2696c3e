------------------------------ MODULE Accounts ------------------------------
(***************************************************************************)
(* Accounts, keywords and yearly credits: crates/core/src/accounts.rs.     *)
(*                                                                         *)
(* Every operation takes a pooled SQLite connection of its own, so threads *)
(* (requests, the digest of the sync task, the CLI process) interleave     *)
(* between database calls.  A transaction of the source is BEGIN DEFERRED  *)
(* followed by a SELECT: it reads one snapshot, and its first write fails  *)
(* (SQLITE_BUSY_SNAPSHOT) when another connection has committed since.     *)
(* Hence two actions per transaction: one takes the snapshot, the other    *)
(* writes and commits, which needs the snapshot to be current.             *)
(*                                                                         *)
(* A User object outlives the read it came from: ensure_cycle, add_keyword *)
(* and the handlers work on a copy of the row that may be stale.           *)
(***************************************************************************)
EXTENDS Integers, FiniteSets

CONSTANTS
  Threads,       \* request handlers and the digest
  Emails,        \* normalized addresses
  Words,         \* normalized keywords
  None,          \* no row
  Credits,       \* FREE_CREDITS_PER_YEAR
  Year,          \* length of a credit cycle, in ticks of the clock
  MaxUserId,     \* bound: row ids of users
  MaxKeywordId,  \* bound: row ids of keywords
  MaxClock       \* bound: ticks

ASSUME AccountsAssumption ==
  /\ Credits \in Nat \ {0}
  /\ Year \in Nat \ {0}
  /\ MaxUserId \in Nat
  /\ MaxKeywordId \in Nat
  /\ MaxClock \in Nat

VARIABLES
  clock,
  users,     \* the users table
  keywords,  \* the keywords table
  ledger,    \* credit_ledger per user: idempotency keys, newest balance_after
  thread,    \* what each thread holds between two database calls
  fresh      \* threads whose open transaction reads the newest commit

vars == <<clock, users, keywords, ledger, thread, fresh>>

UserIds    == 1..MaxUserId
KeywordIds == 1..MaxKeywordId
Time       == 0..(MaxClock + Year)

Account == [email: Emails, available: Nat, used: Nat, start: Time, end: Time]
Keyword == [user: UserIds, word: Words]
Reasons == {"initial-free-grant", "cycle-reset", "keyword-renewal", "keyword"}
Ledger  == [keys: SUBSET (Reasons \X Nat \X Nat), balance: Int]
Row     == [id: UserIds, account: Account]

ASSUME NoneAssumption == None \notin Account \cup Keyword

Live    == {u \in UserIds : users[u] # None}
Held(u) == {k \in KeywordIds : keywords[k] # None /\ keywords[k].user = u}

NoLedger == [keys |-> {}, balance |-> 0]
Idle     == [pc |-> "idle"]

(***************************************************************************)
(* INTEGER PRIMARY KEY without AUTOINCREMENT: one more than the largest id *)
(* in the table, so the id of the newest row is used again once it is      *)
(* deleted.  Empty when the bound on ids is reached.                       *)
(***************************************************************************)
NextRowId(taken, ids) ==
  {i \in ids : /\ \A j \in taken : j < i
               /\ i = 1 \/ i - 1 \in taken}

(* Mutant: the loop adds a year too many. *)
StartsTooLate(end, now) == {now + Year}

(* The loop of ensure_cycle: whole years are added to the end of the cycle that
   was read until the year contains `now`; one start, that of this year. *)
CycleStarts(end, now) ==
  {s \in end..now : /\ now < s + Year
                    /\ \E years \in 0..(now - end) : s = end + years * Year}

-----------------------------------------------------------------------------
(* Mutant: a transaction that never notices the commits of others. *)
AnySnapshot(t) == TRUE

SnapshotHolds(t) == t \in fresh

(* A thread takes the snapshot of its transaction and keeps what it read. *)
Begin(t, local) ==
  /\ thread' = [thread EXCEPT ![t] = local]
  /\ fresh' = fresh \cup {t}
  /\ UNCHANGED <<clock, users, keywords, ledger>>

(* A thread goes on without having changed the database. *)
Proceed(t, local) ==
  /\ thread' = [thread EXCEPT ![t] = local]
  /\ fresh' = fresh \ {t}
  /\ UNCHANGED <<clock, users, keywords, ledger>>

(* A commit: every snapshot taken before it is out of date. *)
Committed(t, local) ==
  /\ thread' = [thread EXCEPT ![t] = local]
  /\ fresh' = {}
  /\ UNCHANGED clock

(***************************************************************************)
(* An error of the database (busy, pool timeout, stale snapshot), a        *)
(* refusal, the end of the request or a restart of the process: the thread *)
(* forgets what it held and an open transaction is rolled back.            *)
(***************************************************************************)
Abandon(t) ==
  /\ thread[t].pc # "idle"
  /\ Proceed(t, Idle)

-----------------------------------------------------------------------------
(* find_or_create_user: the SELECT by email; a new account needs consent. *)
SignInBegin(t, e, consent) ==
  LET existing == {u \in Live : users[u].email = e}
  IN /\ thread[t].pc = "idle"
     /\ existing # {} \/ consent
     /\ Begin(t, [pc |-> "signing", email |-> e, existing |-> existing])

NewAccount(e) ==
  [email |-> e, available |-> Credits, used |-> 0,
   start |-> clock, end |-> clock + Year]

(* The UPDATE of last_login_at, or the INSERT with the free grant; the address
   is UNIQUE. *)
SignInCommit(t) ==
  LET local == thread[t]
  IN /\ local.pc = "signing"
     /\ SnapshotHolds(t)
     /\ \/ \E u \in local.existing :
             /\ Committed(t, [pc |-> "found", id |-> u])
             /\ UNCHANGED <<users, keywords, ledger>>
        \/ \E u \in NextRowId(Live, UserIds) :
             /\ local.existing = {}
             /\ \A v \in Live : users[v].email # local.email
             /\ users' = [users EXCEPT ![u] = NewAccount(local.email)]
             /\ ledger' = [ledger EXCEPT ![u] =
                  [keys |-> {<<"initial-free-grant", 0, 0>>},
                   balance |-> Credits]]
             /\ Committed(t, [pc |-> "found", id |-> u])
             /\ UNCHANGED keywords

(* user_by_session: the id of the session's user, connection then dropped. *)
FindSession(t, u) ==
  /\ thread[t].pc = "idle"
  /\ u \in Live
  /\ Proceed(t, [pc |-> "found", id |-> u])

-----------------------------------------------------------------------------
Loaded(rows, batch) ==
  [pc |-> "loaded", todo |-> rows, since |-> clock, batch |-> batch]

RowOf(u) == [id |-> u, account |-> users[u]]

(* user(id): the row, before ensure_cycle looks at it. *)
ReadUser(t) ==
  /\ thread[t].pc = "found"
  /\ thread[t].id \in Live
  /\ Proceed(t, Loaded({RowOf(thread[t].id)}, FALSE))

(* users_with_keywords: all rows in one SELECT, each rotated afterwards. *)
ReadHolders(t) ==
  /\ thread[t].pc = "idle"
  /\ Proceed(t, Loaded({RowOf(u) : u \in {v \in Live : Held(v) # {}}}, TRUE))

(* ensure_cycle has answered: a User in hand, or the next row of a batch. *)
UpToDate(t, now, row, answer) ==
  IF thread[t].batch
  THEN [pc |-> "loaded", todo |-> thread[t].todo \ {row}, since |-> now,
        batch |-> TRUE]
  ELSE [pc |-> "ready", row |-> answer]

(* The rows of a batch are taken in the order of their ids. *)
FirstRow(t) ==
  {r \in thread[t].todo : \A other \in thread[t].todo : r.id <= other.id}

(* ensure_cycle on a cycle still running at `now`, any moment since the read. *)
KeepCycle(t) ==
  /\ thread[t].pc = "loaded"
  /\ \E row \in FirstRow(t), now \in thread[t].since..clock :
       /\ now < row.account.end
       /\ Proceed(t, UpToDate(t, now, row, row))

(* ensure_cycle past the end: the cycle that contains `now`, then the SELECT
   of the keywords held. *)
RotateBegin(t) ==
  /\ thread[t].pc = "loaded"
  /\ \E row \in FirstRow(t), now \in thread[t].since..clock :
       /\ now >= row.account.end
       /\ \E start \in CycleStarts(row.account.end, now) :
            Begin(t, [pc |-> "rotating", todo |-> thread[t].todo,
                      since |-> now, batch |-> thread[t].batch, row |-> row,
                      start |-> start, held |-> Held(row.id)])

AtMostCredits(n) == IF n < Credits THEN n ELSE Credits

Renewed(held) == AtMostCredits(Cardinality(held))

(* The account the rotation returns; the keys it inserts in the ledger, the
   renewals for the first Credits keywords in the order of their ids. *)
Rotated(local) ==
  [local.row.account EXCEPT !.available = Credits,
                            !.used = Renewed(local.held),
                            !.start = local.start,
                            !.end = local.start + Year]

RotationKeys(local) ==
  {<<"cycle-reset", 0, local.start>>} \cup
  {<<"keyword-renewal", k, local.start>> : k \in
     {h \in local.held : Cardinality({g \in local.held : g < h}) < Credits}}

(* Mutant: the counters move whatever cycle the row is in. *)
RotateAnyCycle(local) ==
  [users EXCEPT ![local.row.id] = Rotated(local)]

(* WHERE id = ? AND cycle_end_at = ?: the counters move only if the row still
   is in the cycle that was read. *)
RotateCounters(local) ==
  IF users[local.row.id].end = local.row.account.end
  THEN [users EXCEPT ![local.row.id] =
          [Rotated(local) EXCEPT !.email = users[local.row.id].email]]
  ELSE users

(***************************************************************************)
(* The writes of ensure_cycle.  The ledger rows are inserted whether or    *)
(* not the UPDATE matched; a key already there (UNIQUE) or a deleted user  *)
(* (foreign key) is an error, which rolls everything back.                 *)
(***************************************************************************)
RotateCommit(t) ==
  LET local == thread[t]
      u     == local.row.id
  IN /\ local.pc = "rotating"
     /\ SnapshotHolds(t)
     /\ u \in Live
     /\ RotationKeys(local) \cap ledger[u].keys = {}
     /\ users' = RotateCounters(local)
     /\ ledger' = [ledger EXCEPT ![u] =
          [keys |-> @.keys \cup RotationKeys(local),
           balance |-> Credits - Renewed(local.held)]]
     /\ UNCHANGED keywords
     /\ Committed(t, UpToDate(t, local.since, local.row,
                              [id |-> u, account |-> Rotated(local)]))

-----------------------------------------------------------------------------
(* Mutant: the key as the decision record spells it, keyword:{u}:{k}. *)
DebitKeyWithoutSeq(u, k) == <<"keyword", k, 0>>

(* The idempotency key of a debit: `seq` numbers the debits of the user. *)
DebitKey(u, k) ==
  <<"keyword", k, Cardinality({key \in ledger[u].keys : key[1] = "keyword"}) + 1>>

(* add_keyword up to its refusals: a duplicate, no credit left, no such user. *)
AddBegin(t, w) ==
  /\ thread[t].pc = "ready"
  /\ LET u == thread[t].row.id
     IN /\ \A k \in Held(u) : keywords[k].word # w
        /\ u \in Live
        /\ users[u].available - users[u].used >= 1
        /\ Begin(t, [pc |-> "adding", id |-> u, word |-> w,
                     balance |-> users[u].available - users[u].used])

(* add_keyword from its INSERT to its commit: the foreign key needs the user, and
   (user_id, normalized) is UNIQUE. *)
AddCommit(t) ==
  LET u == thread[t].id
  IN /\ thread[t].pc = "adding"
     /\ SnapshotHolds(t)
     /\ u \in Live
     /\ \A k \in Held(u) : keywords[k].word # thread[t].word
     /\ \E k \in NextRowId({j \in KeywordIds : keywords[j] # None}, KeywordIds) :
          /\ DebitKey(u, k) \notin ledger[u].keys
          /\ keywords' = [keywords EXCEPT ![k] =
                            [user |-> u, word |-> thread[t].word]]
          /\ ledger' = [ledger EXCEPT ![u] =
               [keys |-> @.keys \cup {DebitKey(u, k)},
                balance |-> thread[t].balance - 1]]
     /\ users' = [users EXCEPT ![u].used = @ + 1]
     /\ Committed(t, Idle)

(* Mutant: the credit of a deleted keyword comes back. *)
RefundOnDelete(u) == [users EXCEPT ![u].used = @ - 1]

AfterKeywordDelete(u) == users

(* delete_keyword: the id comes from a form, perhaps of an older page. *)
DeleteKeyword(t, k) ==
  /\ thread[t].pc = "ready"
  /\ k \in Held(thread[t].row.id)
  /\ keywords' = [keywords EXCEPT ![k] = None]
  /\ users' = AfterKeywordDelete(thread[t].row.id)
  /\ UNCHANGED ledger
  /\ Committed(t, Idle)

(* Mutant: the keywords outlive their account. *)
NoCascade(u) == keywords

Cascade(u) ==
  [k \in KeywordIds |-> IF k \in Held(u) THEN None ELSE keywords[k]]

(* delete_user: sessions, keywords and ledger go with the row (ON DELETE
   CASCADE); deleting a row that is gone changes nothing. *)
DeleteUser(t) ==
  /\ thread[t].pc = "ready"
  /\ LET u == thread[t].row.id
     IN /\ u \in Live
        /\ users' = [users EXCEPT ![u] = None]
        /\ keywords' = Cascade(u)
        /\ ledger' = [ledger EXCEPT ![u] = NoLedger]
  /\ Committed(t, Idle)

Tick ==
  /\ clock < MaxClock
  /\ clock' = clock + 1
  /\ UNCHANGED <<users, keywords, ledger, thread, fresh>>

-----------------------------------------------------------------------------
Init ==
  /\ clock = 0
  /\ users = [u \in UserIds |-> None]
  /\ keywords = [k \in KeywordIds |-> None]
  /\ ledger = [u \in UserIds |-> NoLedger]
  /\ thread = [t \in Threads |-> Idle]
  /\ fresh = {}

Next ==
  \/ Tick
  \/ \E t \in Threads :
       \/ \E e \in Emails, consent \in BOOLEAN : SignInBegin(t, e, consent)
       \/ SignInCommit(t)
       \/ \E u \in UserIds : FindSession(t, u)
       \/ ReadUser(t)
       \/ ReadHolders(t)
       \/ KeepCycle(t)
       \/ RotateBegin(t)
       \/ RotateCommit(t)
       \/ \E w \in Words : AddBegin(t, w)
       \/ AddCommit(t)
       \/ \E k \in KeywordIds : DeleteKeyword(t, k)
       \/ DeleteUser(t)
       \/ Abandon(t)

Spec == Init /\ [][Next]_vars
-----------------------------------------------------------------------------
LocalStates ==
  {Idle}
  \cup [pc: {"signing"}, email: Emails, existing: SUBSET UserIds]
  \cup [pc: {"found"}, id: UserIds]
  \cup [pc: {"loaded"}, todo: SUBSET Row, since: Time, batch: BOOLEAN]
  \cup [pc: {"rotating"}, todo: SUBSET Row, since: Time, batch: BOOLEAN,
        row: Row, start: 0..MaxClock, held: SUBSET KeywordIds]
  \cup [pc: {"ready"}, row: Row]
  \cup [pc: {"adding"}, id: UserIds, word: Words, balance: Int]

(* Tables hold well-formed rows and every thread a well-formed local state. *)
TypeOK ==
  /\ clock \in 0..MaxClock
  /\ users \in [UserIds -> Account \cup {None}]
  /\ keywords \in [KeywordIds -> Keyword \cup {None}]
  /\ ledger \in [UserIds -> Ledger]
  /\ \A u \in UserIds : IsFiniteSet(ledger[u].keys)
  /\ thread \in [Threads -> LocalStates]
  /\ fresh \subseteq Threads

(* Two requests that race, a deletion, a reused row id or a late rotation
   never let an account hold more keywords than it paid for, or spend more
   credits than the plan gives; so a renewal covers every keyword held and
   `min` in ensure_cycle never cuts (accounts.rs:285). *)
CreditsCoverKeywords ==
  \A u \in Live : /\ Cardinality(Held(u)) <= users[u].used
                  /\ users[u].used <= users[u].available
                  /\ users[u].available = Credits

(* Rows never outlive their account, so that the next account with the same
   row id inherits nothing (accounts.rs:465 and the cascades of db.rs:118-161). *)
NothingInherited ==
  /\ \A k \in KeywordIds : keywords[k] # None => keywords[k].user \in Live
  /\ \A u \in UserIds \ Live : ledger[u] = NoLedger

(* The debit about to be written has a key of its own although ids of deleted
   keywords are used again (the comment at accounts.rs:424). *)
DebitKeyUnused ==
  \A t \in Threads :
    thread[t].pc = "adding" /\ t \in fresh =>
      \A k \in KeywordIds : DebitKey(thread[t].id, k) \notin ledger[thread[t].id].keys

(* Within a cycle credits are only spent: dropping a keyword, a stale rotation
   or a second login gives none back (accounts.rs:454). *)
NoRefund ==
  [][\A u \in UserIds :
       users[u] # None /\ users'[u] # None /\ users'[u].start = users[u].start
         => users'[u].used >= users[u].used]_vars

(* The accounts implement the plan of CreditPlan. *)
Plan == INSTANCE CreditPlan WITH
  Accounts <- UserIds,
  Keywords <- KeywordIds,
  open <- Live,
  used <- [u \in UserIds |-> IF u \in Live THEN users[u].used ELSE 0],
  end <- [u \in UserIds |-> IF u \in Live THEN users[u].end ELSE 0],
  held <- [u \in UserIds |-> Held(u)]

(* Whatever the threads do, credits are charged, kept and renewed as the plan
   says: in particular once per elapsed year at most. *)
PlanHolds == Plan!Spec

(* A reset in the ledger means that the counters were reset too: ensure_cycle
   is "Totul într-o tranzacție, cu rânduri idempotente în jurnal"
   (accounts.rs:263-265).  If it fails, the next rotation of that account meets
   its own key in the ledger and is refused. *)
ResetsReachCounters ==
  \A u \in Live : \A key \in ledger[u].keys :
    key[1] = "cycle-reset" => key[3] <= users[u].start
=============================================================================
