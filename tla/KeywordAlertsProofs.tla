------------------------ MODULE KeywordAlertsProofs ------------------------
(***************************************************************************)
(* Proofs about KeywordAlerts: the window of an account never passes an    *)
(* entry that was not mailed, and what it has passed is not mailed again,  *)
(* for any number of accounts, keywords and entries, and any number of     *)
(* command lines that write next to the server.                            *)
(***************************************************************************)
EXTENDS KeywordAlerts, TLAPS

LEMMA Servers == Server \in Runners
BY DEF Runners

LEMMA TypeInit == Init => TypeOK
<1> SUFFICES ASSUME Init PROVE TypeOK
  OBVIOUS
<1>1. clock \in Time
  BY KeywordAlertsAssumption DEF Init, Time
<1>2. NoWords \in [Words -> Time \cup {None}]
  BY DEF NoWords
<1>3. \A u \in UserIds : HeldBy(u) = {}
  BY DEF Init, HeldBy, NoWords
<1>4. Asleep(0) \in LocalStates
  BY DEF Asleep, LocalStates
<1> QED
  BY <1>1, <1>2, <1>3, <1>4 DEF Init, TypeOK

(* The steps of accounts and keywords. *)
LEMMA TypeAccounts ==
  ASSUME TypeOK,
         \/ \E e \in Emails : SignUp(e)
         \/ \E u \in UserIds :
              \/ \E w \in Words : AddKeyword(u, w) \/ DeleteKeyword(u, w)
              \/ DeleteUser(u)
  PROVE  TypeOK'
<1> USE DEF TypeOK
<1>1. ASSUME NEW e \in Emails, SignUp(e)
      PROVE  TypeOK'
  <2>1. PICK u \in UserIds : users' = [users EXCEPT ![u] = [email |-> e, since |-> clock]]
    BY <1>1 DEF SignUp
  <2>2. [email |-> e, since |-> clock] \in User
    BY DEF User
  <2>3. [email |-> e, since |-> clock] # None
    BY <2>2, KeywordAlertsAssumption
  <2> QED
    BY <1>1, <2>1, <2>2, <2>3 DEF SignUp, Live, HeldBy, LocalStates
<1>2. ASSUME NEW u \in UserIds, NEW w \in Words, AddKeyword(u, w)
      PROVE  TypeOK'
  BY <1>2 DEF AddKeyword, Live, HeldBy, LocalStates
<1>3. ASSUME NEW u \in UserIds, NEW w \in Words, DeleteKeyword(u, w)
      PROVE  TypeOK'
  BY <1>3 DEF DeleteKeyword, Live, HeldBy, LocalStates
<1>4. ASSUME NEW u \in UserIds, DeleteUser(u)
      PROVE  TypeOK'
  BY <1>4 DEF DeleteUser, KeywordsCascade, NoWords, Live, HeldBy, LocalStates
<1> QED
  BY <1>1, <1>2, <1>3, <1>4

(* The steps of the runners write few of the tables. *)
LEMMA TypeGoes ==
  ASSUME TypeOK,
         NEW r \in Runners, NEW local \in LocalStates, Goes(r, local),
         UNCHANGED <<clock, held>>,
         users' \in [UserIds -> User \cup {None}],
         Live' = Live,
         entries' \in [Entries -> Entry \cup {None}],
         mailed' \subseteq Emails \X Entries,
         settled' \subseteq Emails \X Entries
  PROVE  TypeOK'
BY DEF TypeOK, Goes, HeldBy, LocalStates

(* A write of any words. *)
Commit(r) == \E words \in SUBSET Words : CommitWrite(r, words)

(* What a write makes of a row: a row that is there keeps when it was seen and by whom it
   was written first, and has at most the words by which it could be found before. *)
RowAfter(r, x, now, e) ==
  /\ e.always \subseteq Findable(x, e.words, e.issued, e.seen)
  /\ x \in Stored => /\ e.seen = entries[x].seen
                     /\ e.by = entries[x].by
                     /\ e.always \subseteq entries[x].always
  /\ x \notin Stored => e.seen = now /\ e.by = r

LEMMA UpsertedIs ==
  ASSUME TypeOK, NEW r \in Runners, NEW x \in Entries, NEW now \in Time,
         NEW words \in SUBSET Words, NEW issued \in Int
  PROVE  \E e \in Entry :
           e = Upserted(r, x, now, words, issued) /\ RowAfter(r, x, now, e)
<1>0. PICK e : e = Upserted(r, x, now, words, issued)
  OBVIOUS
<1>1. \A seen : Findable(x, words, issued, seen) \subseteq words
  BY DEF Findable
<1>2. CASE x \in Stored
  <2>1. PICK old \in Entry : old = entries[x]
    BY <1>2 DEF Stored, TypeOK
  <2>2. PICK found \in SUBSET Words : found = Findable(x, words, issued, old.seen)
    BY <1>1
  <2>3. e = [old EXCEPT !.issued = issued, !.words = words, !.always = old.always \cap found]
    BY <1>0, <1>2, <2>1, <2>2 DEF Upserted
  <2>4. /\ e \in Entry
        /\ e.seen = old.seen /\ e.issued = issued /\ e.words = words /\ e.by = old.by
        /\ e.always = old.always \cap found
    BY <2>1, <2>3 DEF Entry
  <2> QED
    BY <1>0, <1>2, <2>1, <2>2, <2>4 DEF RowAfter
<1>3. CASE x \notin Stored
  <2>1. PICK found \in SUBSET Words : found = Findable(x, words, issued, now)
    BY <1>1
  <2>2. e = [seen |-> now, issued |-> issued, words |-> words, always |-> found, by |-> r]
    BY <1>0, <1>3, <2>1 DEF Upserted
  <2> QED
    BY <1>0, <1>3, <2>1, <2>2 DEF Entry, RowAfter
<1> QED
  BY <1>2, <1>3

LEMMA Commits ==
  ASSUME TypeOK, NEW r \in Runners, Commit(r)
  PROVE  /\ run[r].pc = "writing" /\ run[r].entry \in Entries /\ run[r].now \in Time
         /\ UNCHANGED <<clock, users, held, mailed, settled>>
         /\ run' = [run EXCEPT ![r] = [pc |-> "syncing"]]
         /\ \E e \in Entry :
              /\ entries' = [entries EXCEPT ![run[r].entry] = e]
              /\ RowAfter(r, run[r].entry, run[r].now, e)
<1>1. run[r].pc = "writing"
  BY DEF Commit, CommitWrite
<1>2. run[r] \in [pc: {"writing"}, entry: Entries, now: Time]
  BY <1>1 DEF LocalStates, TypeOK
<1>3. PICK x \in Entries, now \in Time : x = run[r].entry /\ now = run[r].now
  BY <1>2
<1>4. now \in Int /\ now - Window - 1 \in Int
  BY <1>3, KeywordAlertsAssumption DEF Time
<1>5. /\ UNCHANGED <<clock, users, held, mailed, settled>>
      /\ run' = [run EXCEPT ![r] = [pc |-> "syncing"]]
  BY DEF Commit, CommitWrite, Goes
<1>6. PICK words \in SUBSET Words, issued \in Int :
        entries' = [entries EXCEPT ![x] = Upserted(r, x, now, words, issued)]
  BY <1>3, <1>4 DEF Commit, CommitWrite
<1>7. PICK e \in Entry :
        e = Upserted(r, x, now, words, issued) /\ RowAfter(r, x, now, e)
  BY UpsertedIs
<1>8. entries' = [entries EXCEPT ![x] = e]
  BY <1>6, <1>7
<1> QED
  BY <1>1, <1>3, <1>5, <1>7, <1>8

LEMMA TypeSync ==
  ASSUME TypeOK,
         NEW r \in Runners,
         \/ StartSync(r)
         \/ \E x \in Entries : BeginWrite(r, x)
         \/ Commit(r)
         \/ EndSync(r)
         \/ Stop(r)
  PROVE  TypeOK'
<1> USE DEF TypeOK
<1>1. CASE StartSync(r)
  <2>1. [pc |-> "syncing"] \in LocalStates
    BY DEF LocalStates
  <2> QED
    BY <1>1, <2>1, TypeGoes DEF StartSync, Live
<1>2. ASSUME NEW x \in Entries, BeginWrite(r, x)
      PROVE  TypeOK'
  <2>1. [pc |-> "writing", entry |-> x, now |-> clock] \in LocalStates
    BY DEF LocalStates
  <2> QED
    BY <1>2, <2>1, TypeGoes DEF BeginWrite, Live
<1>3. CASE Commit(r)
  <2>1. PICK e \in Entry : entries' = [entries EXCEPT ![run[r].entry] = e]
    BY <1>3, Commits
  <2>2. entries' \in [Entries -> Entry \cup {None}]
    BY <2>1
  <2>3. [pc |-> "syncing"] \in LocalStates
    BY DEF LocalStates
  <2>4. Goes(r, [pc |-> "syncing"]) /\ UNCHANGED <<clock, users, held, mailed, settled>>
    BY <1>3, Commits DEF Goes
  <2> QED
    BY <2>2, <2>3, <2>4, TypeGoes DEF Live
<1>4. Asleep(0) \in LocalStates /\ Asleep(clock + 1) \in LocalStates
  BY KeywordAlertsAssumption DEF Asleep, LocalStates, Time
<1>5. CASE EndSync(r)
  BY <1>4, <1>5, TypeGoes DEF EndSync, Live
<1>6. CASE Stop(r)
  <2>1. PICK local \in LocalStates : Goes(r, local)
    BY <1>4, <1>6 DEF Stop
  <2> QED
    BY <1>6, <2>1, TypeGoes DEF Stop, Live
<1> QED
  BY <1>1, <1>2, <1>3, <1>5, <1>6

(* What the digest holds in its states. *)
LEMMA DigestLocal ==
  ASSUME TypeOK
  PROVE  /\ run[Server].pc = "digest" =>
              run[Server] \in [pc: {"digest"}, todo: (SUBSET Row) \ {{}}]
         /\ run[Server].pc = "matching" =>
              run[Server] \in [pc: {"matching"}, todo: SUBSET Row, row: Row, now: Time,
                               words: SUBSET Words]
         /\ run[Server].pc \in {"sending", "logging", "advancing"} =>
              run[Server] \in [pc: {"sending", "logging", "advancing"}, todo: SUBSET Row,
                               row: Row, now: Time, found: SUBSET Entries]
BY Servers DEF TypeOK, LocalStates

LEMMA ContinueType ==
  ASSUME TypeOK, NEW todo \in SUBSET Row
  PROVE  Continue(todo) \in LocalStates
<1>1. clock + 1 \in Nat
  BY KeywordAlertsAssumption DEF TypeOK, Time
<1> QED
  BY <1>1 DEF Continue, Asleep, LocalStates

LEMMA TypeDigest ==
  ASSUME TypeOK,
         ListUsers \/ TakeUser \/ FindMatches \/ Send \/ FailToSend \/ LogAlert \/ Advance
  PROVE  TypeOK'
<1> USE DEF TypeOK
<1>0. Server \in Runners
  BY Servers
<1>1. CASE ListUsers
  <2> DEFINE todo == {[id |-> u, email |-> users[u].email, since |-> users[u].since] :
                        u \in {v \in Live : HeldBy(v) # {}}}
  <2>1. todo \in SUBSET Row
    BY DEF Live, User, Row
  <2>2. Continue(todo) \in LocalStates
    BY <2>1, ContinueType
  <2> QED
    BY <1>0, <1>1, <2>2, TypeGoes DEF ListUsers, Live
<1>2. CASE TakeUser
  <2>1. run[Server].todo \in SUBSET Row
    BY <1>2, DigestLocal DEF TakeUser
  <2>2. PICK row \in run[Server].todo :
          Goes(Server, [pc |-> "matching", todo |-> run[Server].todo \ {row}, row |-> row,
                        now |-> clock, words |-> HeldBy(row.id)])
    BY <1>2 DEF TakeUser
  <2>3. [pc |-> "matching", todo |-> run[Server].todo \ {row}, row |-> row,
         now |-> clock, words |-> HeldBy(row.id)] \in LocalStates
    BY <2>1, <2>2 DEF LocalStates, HeldBy
  <2> QED
    BY <1>0, <1>2, <2>2, <2>3, TypeGoes DEF TakeUser, Live
<1>3. CASE FindMatches
  <2>1. run[Server] \in [pc: {"matching"}, todo: SUBSET Row, row: Row, now: Time,
                         words: SUBSET Words]
    BY <1>3, DigestLocal DEF FindMatches
  <2>2. PICK pc \in {"advancing", "sending"}, found \in SUBSET Entries :
          Goes(Server, [pc |-> pc, todo |-> run[Server].todo, row |-> run[Server].row,
                        now |-> run[Server].now, found |-> found])
    <3>1. Matches(run[Server].words, run[Server].row.since) \in SUBSET Entries
      BY DEF Matches, Stored
    <3> QED
      BY <1>3, <3>1 DEF FindMatches
  <2>3. [pc |-> pc, todo |-> run[Server].todo, row |-> run[Server].row,
         now |-> run[Server].now, found |-> found] \in LocalStates
    BY <2>1 DEF LocalStates
  <2> QED
    BY <1>0, <1>3, <2>2, <2>3, TypeGoes DEF FindMatches, Live
<1>4. run[Server].pc \in {"sending", "logging", "advancing"} =>
        /\ [run[Server] EXCEPT !.pc = "logging"] \in LocalStates
        /\ [run[Server] EXCEPT !.pc = "advancing"] \in LocalStates
        /\ Continue(run[Server].todo) \in LocalStates
        /\ {run[Server].row.email} \X run[Server].found \subseteq Emails \X Entries
        /\ run[Server].row.id \in UserIds /\ run[Server].now \in Time
  <2> SUFFICES ASSUME run[Server].pc \in {"sending", "logging", "advancing"}
               PROVE  /\ [run[Server] EXCEPT !.pc = "logging"] \in LocalStates
                      /\ [run[Server] EXCEPT !.pc = "advancing"] \in LocalStates
                      /\ Continue(run[Server].todo) \in LocalStates
                      /\ {run[Server].row.email} \X run[Server].found \subseteq Emails \X Entries
                      /\ run[Server].row.id \in UserIds /\ run[Server].now \in Time
    OBVIOUS
  <2>1. run[Server] \in [pc: {"sending", "logging", "advancing"}, todo: SUBSET Row,
                         row: Row, now: Time, found: SUBSET Entries]
    BY DigestLocal
  <2>2. Continue(run[Server].todo) \in LocalStates
    BY <2>1, ContinueType
  <2>3. /\ [run[Server] EXCEPT !.pc = "logging"] \in LocalStates
        /\ [run[Server] EXCEPT !.pc = "advancing"] \in LocalStates
    BY <2>1 DEF LocalStates
  <2> QED
    BY <2>1, <2>2, <2>3 DEF Row
<1>5. CASE Send
  BY <1>0, <1>4, <1>5, TypeGoes DEF Send, Live
<1>6. CASE FailToSend
  <2>1. mailed' \subseteq Emails \X Entries
    BY <1>4, <1>6 DEF FailToSend
  <2> QED
    BY <1>0, <1>4, <1>6, <2>1, TypeGoes DEF FailToSend, AfterFailure, Live
<1>7. CASE LogAlert
  BY <1>0, <1>4, <1>7, TypeGoes DEF LogAlert, Live
<1>8. CASE Advance
  <2> DEFINE u == run[Server].row.id
  <2>1. u \in UserIds /\ run[Server].now \in Time
    BY <1>4, <1>8 DEF Advance
  <2>2. users' \in [UserIds -> User \cup {None}] /\ Live' = Live
    <3>1. CASE u \notin Live
      BY <1>8, <3>1 DEF Advance, Live
    <3>2. CASE u \in Live
      <4>1. users[u] \in User
        BY <3>2 DEF Live
      <4>2. [users[u] EXCEPT !.since = run[Server].now] \in User
        BY <2>1, <4>1 DEF User
      <4>3. [users[u] EXCEPT !.since = run[Server].now] # None
        BY <4>2, KeywordAlertsAssumption
      <4>4. users' = [users EXCEPT ![u] = [users[u] EXCEPT !.since = run[Server].now]]
        BY <1>8, <3>2 DEF Advance
      <4> HIDE DEF u
      <4> QED
        BY <2>1, <4>2, <4>3, <4>4, <3>2 DEF Live
    <3> QED
      BY <3>1, <3>2
  <2>3. settled' \subseteq Emails \X Entries
    BY <1>4, <1>8 DEF Advance
  <2> QED
    BY <1>0, <1>4, <1>8, <2>2, <2>3, TypeGoes DEF Advance
<1> QED
  BY <1>1, <1>2, <1>3, <1>5, <1>6, <1>7, <1>8

LEMMA TypeStep == TypeOK /\ [Next]_vars => TypeOK'
<1> SUFFICES ASSUME TypeOK, [Next]_vars PROVE TypeOK'
  OBVIOUS
<1>1. CASE UNCHANGED vars
  BY <1>1 DEF vars, TypeOK, HeldBy, Live, LocalStates
<1>2. CASE Tick
  BY <1>2, KeywordAlertsAssumption DEF Tick, TypeOK, HeldBy, Live, LocalStates, Time
<1> QED
  BY <1>1, <1>2, TypeAccounts, TypeSync, TypeDigest DEF Next, Commit

(* Tables, windows and what the digest holds are well-formed, and whoever holds keywords
   has an account. *)
THEOREM TypeCorrect == Spec => []TypeOK
BY TypeInit, TypeStep, PTL DEF Spec

-----------------------------------------------------------------------------
(* What the server stored; and what of it an account has to be sent: it held, before the
   entry was seen, one of the words by which that could be found ever since. *)
Ours == {x \in Stored : entries[x].by = Server}

Due(u, x) ==
  /\ x \in Ours
  /\ \E w \in entries[x].always \cap HeldBy(u) : held[u][w] < entries[x].seen

(* No window has reached `now` of an account that held a keyword before: what is first
   seen now is ahead of all windows that matter. *)
Quiet(now) ==
  \A u \in Live : \A w \in HeldBy(u) : held[u][w] < now => users[u].since < now

(* The row of the list is still that of the account, or the account that has its id now
   has nothing due. *)
Same(row) == users[row.id].email = row.email /\ users[row.id].since = row.since

Listed(rows) ==
  /\ \A a, b \in rows : a.id = b.id => a = b
  /\ \A row \in rows : row.id \in Live => Same(row) \/ \A x \in Ours : ~Due(row.id, x)

(* What the server holds. *)
Matching(local) ==
  /\ local.now <= clock
  /\ local.row \notin local.todo
  /\ Listed(local.todo \cup {local.row})

Sound(local) ==
  /\ local.pc = "asleep" =>
       local.until <= clock + 1 /\ (local.until <= clock => Quiet(clock))
  /\ local.pc = "syncing" => Quiet(clock)
  /\ local.pc = "writing" => local.now <= clock /\ Quiet(local.now) /\ Quiet(clock)
  /\ local.pc = "digest" => Listed(local.todo)
  /\ local.pc = "matching" =>
       /\ Matching(local)
       /\ \A w \in HeldBy(local.row.id) :
            w \in local.words \/ \A x \in Ours : entries[x].seen <= held[local.row.id][w]
  /\ local.pc \in {"sending", "logging", "advancing"} =>
       /\ Matching(local)
       /\ local.row.id \in Live /\ Same(local.row) =>
            \A x \in Ours : Due(local.row.id, x) =>
              x \in local.found \/ <<local.row.email, x>> \in mailed

Delivered(local) ==
  local.pc \in {"logging", "advancing"} => {local.row.email} \X local.found \subseteq mailed

Past ==
  /\ \A u \in Live : users[u].since <= clock
  /\ \A x \in Stored :
       /\ entries[x].seen <= clock
       /\ entries[x].always
            \subseteq Findable(x, entries[x].words, entries[x].issued, entries[x].seen)
  /\ \A r \in Runners : run[r].pc = "writing" => run[r].now <= clock

WindowInv ==
  /\ TypeOK
  /\ Past
  /\ NothingMissed
  /\ Sound(run[Server])
  /\ Delivered(run[Server])

LEMMA MissedByDue ==
  NothingMissed <=> \A u \in Live, x \in Ours :
                      Due(u, x) /\ entries[x].seen <= users[u].since
                        => <<users[u].email, x>> \in mailed
BY DEF NothingMissed, Due, Ours

LEMMA DueIsLive ==
  ASSUME TypeOK, NEW u \in UserIds, NEW x, Due(u, x)
  PROVE  u \in Live
BY DEF TypeOK, Due

(* Steps of visitors, of the clock and of the command line: what the server stored
   stays, an account that changes has no keywords yet, and a new keyword is of now. *)
LEMMA WorldKeeps ==
  ASSUME WindowInv, TypeOK', Past',
         run'[Server] = run[Server], mailed' = mailed,
         Ours' = Ours,
         \A x \in Ours : /\ entries'[x].seen = entries[x].seen
                         /\ entries'[x].always \subseteq entries[x].always,
         \/ clock' = clock
         \/ clock' = clock + 1 /\ UNCHANGED <<users, held>>,
         \A u \in Live' : \/ u \in Live /\ users'[u] = users[u]
                         \/ HeldBy(u)' = {},
         \A u \in UserIds : \A w \in HeldBy(u)' :
           \/ w \in HeldBy(u) /\ held'[u][w] = held[u][w]
           \/ held'[u][w] = clock
  PROVE  WindowInv'
<1> USE DEF WindowInv
<1>0. /\ clock \in Int /\ clock' \in Int
      /\ \A x \in Ours : entries[x].seen \in Int /\ entries[x].seen <= clock
      /\ \A u \in Live : u \in UserIds /\ users[u].since \in Int /\ users[u].since <= clock
      /\ \A u \in UserIds : \A w \in HeldBy(u) : held[u][w] \in Int
      /\ \A u \in UserIds : \A w \in HeldBy(u)' : held'[u][w] \in Int
  <2>1. \A x \in Ours : entries[x] \in Entry /\ entries[x].seen <= clock
    BY DEF TypeOK, Past, Ours, Stored
  <2>2. \A u \in Live : u \in UserIds /\ users[u] \in User /\ users[u].since <= clock
    BY DEF TypeOK, Past, Live
  <2>3. \A u \in UserIds : \A w \in HeldBy(u) : held[u][w] \in Time
    BY DEF TypeOK, HeldBy
  <2>4. \A u \in UserIds : \A w \in HeldBy(u)' : held'[u][w] \in Time
    BY DEF TypeOK, HeldBy
  <2>5. clock \in Time /\ clock' \in Time
    BY DEF TypeOK
  <2> QED
    BY <2>1, <2>2, <2>3, <2>4, <2>5 DEF Time, Entry, User
<1>1. ASSUME NEW u \in UserIds, NEW x \in Ours, Due(u, x)'
      PROVE  Due(u, x) /\ u \in Live /\ users'[u] = users[u]
  <2>1. PICK w \in entries'[x].always \cap HeldBy(u)' : held'[u][w] < entries'[x].seen
    BY <1>1 DEF Due
  <2>2. w \in HeldBy(u) /\ held'[u][w] = held[u][w]
    BY <1>0, <2>1
  <2>3. Due(u, x)
    BY <1>1, <2>1, <2>2 DEF Due
  <2>4. u \in Live'
    BY <1>1, <2>1 DEF TypeOK
  <2> QED
    BY <1>1, <2>1, <2>3, <2>4, DueIsLive
<1>2. ASSUME NEW now \in Int, now <= clock, Quiet(now)
      PROVE  Quiet(now)'
  <2>1. ASSUME NEW u \in Live', NEW w \in HeldBy(u)', held'[u][w] < now
        PROVE  users'[u].since < now
    <3>1. u \in Live /\ users'[u] = users[u] /\ u \in UserIds
      BY <1>0, <2>1
    <3>2. w \in HeldBy(u) /\ held'[u][w] = held[u][w]
      BY <1>0, <1>2, <2>1, <3>1
    <3> QED
      BY <1>2, <2>1, <3>1, <3>2 DEF Quiet
  <2> QED
    BY <2>1 DEF Quiet
<1>3. Quiet(clock) => Quiet(clock)'
  <2>1. CASE clock' = clock
    <3>1. PICK now : now = clock
      OBVIOUS
    <3>2. Quiet(clock) => Quiet(now)'
      BY <1>0, <1>2, <3>1
    <3> QED
      BY <2>1, <3>1, <3>2 DEF Quiet
  <2>2. CASE clock' = clock + 1 /\ UNCHANGED <<users, held>>
    BY <1>0, <2>2 DEF Quiet, Live
  <2> QED
    BY <2>1, <2>2
<1>4. clock' = clock + 1 => Quiet(clock)'
  BY <1>0 DEF Quiet, Live
<1>5. ASSUME NEW rows \in SUBSET Row, Listed(rows)
      PROVE  Listed(rows)'
  <2>1. ASSUME NEW row \in rows, row.id \in Live', NEW x \in Ours', Due(row.id, x)'
        PROVE  Same(row)'
    <3>1. row.id \in UserIds
      BY DEF Row
    <3>2. Due(row.id, x) /\ row.id \in Live /\ users'[row.id] = users[row.id]
      BY <1>1, <2>1, <3>1
    <3> QED
      BY <1>5, <3>2 DEF Listed, Same
  <2> QED
    BY <1>5, <2>1 DEF Listed
<1>6. NothingMissed'
  <2>1. ASSUME NEW u \in Live', NEW x \in Ours', Due(u, x)',
               entries'[x].seen <= users'[u].since
        PROVE  <<users'[u].email, x>> \in mailed'
    <3>1. u \in UserIds
      BY DEF Live
    <3>2. Due(u, x) /\ u \in Live /\ users'[u] = users[u]
      BY <1>1, <2>1, <3>1
    <3> QED
      BY <2>1, <3>2, MissedByDue
  <2> QED
    BY <2>1 DEF NothingMissed, Due, Ours
<1>7. Sound(run[Server])'
  <2> DEFINE local == run[Server]
  <2>0. run'[Server] = local /\ Sound(local)
    OBVIOUS
  <2>1. local.pc = "asleep" =>
          /\ local.until <= clock' + 1
          /\ local.until <= clock' => Quiet(clock)'
    <3>1. local.pc = "asleep" => local.until \in Int
      BY Servers DEF TypeOK, LocalStates
    <3> QED
      BY <1>0, <1>3, <1>4, <2>0, <3>1 DEF Sound
  <2>2. local.pc = "syncing" => Quiet(clock)'
    BY <1>3, <2>0 DEF Sound
  <2>3. local.pc = "writing" => local.now <= clock' /\ Quiet(local.now)' /\ Quiet(clock)'
    <3>1. local.pc = "writing" => local.now \in Int
      BY Servers DEF TypeOK, LocalStates, Time
    <3>2. local.pc = "writing" => Quiet(clock)' /\ local.now <= clock /\ Quiet(local.now)
      BY <1>3, <2>0 DEF Sound
    <3>3. ASSUME local.pc = "writing" PROVE Quiet(local.now)'
      <4>1. PICK now \in Int : now = local.now
        BY <3>1, <3>3
      <4>2. Quiet(now)'
        BY <1>2, <3>2, <3>3, <4>1
      <4> QED
        BY <2>0, <4>1, <4>2 DEF Quiet
    <3> QED
      BY <1>0, <3>1, <3>2, <3>3
  <2>4. local.pc = "digest" => Listed(local.todo)'
    <3>1. ASSUME local.pc = "digest" PROVE Listed(local.todo)'
      <4>1. PICK rows \in SUBSET Row : rows = local.todo /\ Listed(rows)
        BY <2>0, <3>1, DigestLocal DEF Sound
      <4>2. Listed(rows)'
        BY <1>5, <4>1
      <4> QED
        BY <2>0, <4>1, <4>2 DEF Listed, Same
    <3> QED
      BY <3>1
  <2>5. local.pc \in {"matching", "sending", "logging", "advancing"} => Matching(local)'
    <3>1. ASSUME local.pc \in {"matching", "sending", "logging", "advancing"}
          PROVE  /\ local.now <= clock /\ local.now \in Int
                 /\ local.row \notin local.todo
                 /\ local.todo \cup {local.row} \in SUBSET Row
                 /\ Listed(local.todo \cup {local.row})
                 /\ local.row.id \in UserIds
      <4>1. local.todo \in SUBSET Row /\ local.row \in Row /\ local.now \in Time
        BY <2>0, <3>1, DigestLocal
      <4> QED
        BY <2>0, <3>1, <4>1 DEF Sound, Matching, Time, Row
    <3>2. ASSUME local.pc \in {"matching", "sending", "logging", "advancing"}
          PROVE  Listed(local.todo \cup {local.row})'
      <4>1. PICK rows \in SUBSET Row : rows = local.todo \cup {local.row} /\ Listed(rows)
        BY <3>1, <3>2
      <4>2. Listed(rows)'
        BY <1>5, <4>1
      <4> QED
        BY <2>0, <4>1, <4>2 DEF Listed, Same
    <3> QED
      BY <1>0, <2>0, <3>1, <3>2 DEF Matching
  <2>6. local.pc \in {"matching", "sending", "logging", "advancing"} => local.row.id \in UserIds
    BY DigestLocal DEF Row
  <2>7. ASSUME local.pc = "matching", NEW w \in HeldBy(local.row.id)', w \notin local.words,
               NEW x \in Ours
        PROVE  entries'[x].seen <= held'[local.row.id][w]
    <3>1. \A v \in HeldBy(local.row.id) :
            v \in local.words \/ entries[x].seen <= held[local.row.id][v]
      BY <2>0, <2>7 DEF Sound
    <3> QED
      BY <1>0, <2>6, <2>7, <3>1
  <2>8. ASSUME local.pc \in {"sending", "logging", "advancing"},
               local.row.id \in Live', Same(local.row)', NEW x \in Ours', Due(local.row.id, x)'
        PROVE  x \in local.found \/ <<local.row.email, x>> \in mailed'
    <3>1. Due(local.row.id, x) /\ local.row.id \in Live /\ Same(local.row)
      BY <1>1, <2>0, <2>6, <2>8 DEF Same
    <3> QED
      BY <2>0, <2>8, <3>1 DEF Sound
  <2> QED
    BY <2>0, <2>1, <2>2, <2>3, <2>4, <2>5, <2>7, <2>8, SMTT(30) DEF Sound
<1>8. Delivered(run[Server])'
  BY DEF Delivered
<1> QED
  BY <1>6, <1>7, <1>8

LEMMA PastKeeps == WindowInv /\ TypeOK' /\ [Next]_vars => Past'
<1> SUFFICES ASSUME TypeOK, TypeOK', Past, Sound(run[Server]), [Next]_vars PROVE Past'
  BY DEF WindowInv
<1>0. /\ clock \in Int /\ clock' \in Int
      /\ \A u \in Live : users[u].since \in Int
      /\ \A x \in Stored : entries[x].seen \in Int
      /\ \A r \in Runners : run[r].pc = "writing" => run[r].now \in Int
  BY DEF TypeOK, Time, Live, User, Stored, Entry, LocalStates
<1>1. ASSUME UNCHANGED <<clock, entries>>,
             \A u \in Live' : users'[u].since <= clock,
             \A r \in Runners : \/ run'[r] = run[r]
                               \/ run'[r].pc # "writing"
                               \/ run'[r].now = clock
      PROVE  Past'
  BY <1>0, <1>1 DEF Past, Stored
<1>2. ASSUME NEW r \in Runners, NEW local, Goes(r, local),
             local.pc = "writing" => local.now = clock,
             UNCHANGED <<clock, entries, users>>
      PROVE  Past'
  <2>1. \A s \in Runners : run'[s] = IF s = r THEN local ELSE run[s]
    BY <1>2 DEF Goes, TypeOK
  <2> QED
    BY <1>1, <1>2, <2>1 DEF Live, Past
<1>3. CASE UNCHANGED vars \/ Tick
  <2>1. UNCHANGED <<users, entries, run>> /\ clock <= clock'
    BY <1>0, <1>3 DEF vars, Tick
  <2> QED
    BY <1>0, <2>1 DEF Past, Live, Stored
<1>4. ASSUME \/ \E e \in Emails : SignUp(e)
             \/ \E u \in UserIds :
                  \/ \E w \in Words : AddKeyword(u, w) \/ DeleteKeyword(u, w)
                  \/ DeleteUser(u)
      PROVE  Past'
  <2>1. UNCHANGED <<clock, entries, run>>
    BY <1>4 DEF SignUp, AddKeyword, DeleteKeyword, DeleteUser
  <2>2. ASSUME NEW v \in Live' PROVE users'[v].since <= clock
    <3>1. CASE v \in Live /\ users'[v] = users[v]
      BY <3>1 DEF Past
    <3>2. CASE \E e \in Emails : users'[v] = [email |-> e, since |-> clock]
      BY <1>0, <3>2
    <3> QED
      BY <1>4, <3>1, <3>2 DEF SignUp, AddKeyword, DeleteKeyword, DeleteUser, Live, TypeOK
  <2> QED
    BY <1>1, <2>1, <2>2
<1>5. ASSUME NEW r \in Runners,
             \/ StartSync(r)
             \/ \E x \in Entries : BeginWrite(r, x)
             \/ EndSync(r)
             \/ Stop(r)
      PROVE  Past'
  BY <1>2, <1>5 DEF StartSync, BeginWrite, EndSync, Stop, Asleep
<1>6. CASE ListUsers \/ TakeUser \/ FindMatches
  BY <1>2, <1>6, Servers DEF ListUsers, TakeUser, FindMatches, Continue, Asleep
<1>7. CASE Send \/ LogAlert
  <2>1. run[Server].pc \in {"sending", "logging"}
    BY <1>7 DEF Send, LogAlert
  <2>2. [run[Server] EXCEPT !.pc = "logging"].pc = "logging"
    BY <2>1, DigestLocal
  <2>3. [run[Server] EXCEPT !.pc = "advancing"].pc = "advancing"
    BY <2>1, DigestLocal
  <2> QED
    BY <1>2, <1>7, <2>2, <2>3, Servers DEF Send, LogAlert
<1>8. CASE FailToSend
  BY <1>2, <1>8, Servers DEF FailToSend, AfterFailure, Continue, Asleep
<1>9. CASE Advance
  <2>1. UNCHANGED <<clock, entries>> /\ Goes(Server, Continue(run[Server].todo))
    BY <1>9 DEF Advance
  <2>2. \A r \in Runners : run'[r] = run[r] \/ run'[r].pc # "writing"
    BY <2>1 DEF Goes, Continue, Asleep, TypeOK
  <2>3. run[Server].now <= clock
    BY <1>9 DEF Advance, Sound, Matching
  <2>4. ASSUME NEW v \in Live' PROVE users'[v].since <= clock
    <3>1. CASE v \in Live /\ users'[v] = users[v]
      BY <3>1 DEF Past
    <3>2. CASE v \in Live /\ users'[v] = [users[v] EXCEPT !.since = run[Server].now]
      <4>1. users[v] \in User
        BY <3>2 DEF TypeOK, Live
      <4> QED
        BY <2>3, <3>2, <4>1 DEF User
    <3> QED
      BY <1>9, <3>1, <3>2 DEF Advance, Live, TypeOK
  <2> QED
    BY <1>1, <2>1, <2>2, <2>4
<1>10. ASSUME NEW r \in Runners, Commit(r) PROVE Past'
  <2>1. /\ run[r].pc = "writing" /\ run[r].entry \in Entries /\ run[r].now \in Time
        /\ UNCHANGED <<clock, users>>
        /\ run' = [run EXCEPT ![r] = [pc |-> "syncing"]]
    BY <1>10, Commits
  <2>2. PICK new \in Entries : new = run[r].entry
    BY <2>1
  <2>3. PICK e \in Entry :
          entries' = [entries EXCEPT ![new] = e] /\ RowAfter(r, new, run[r].now, e)
    BY <1>10, <2>2, Commits
  <2>4. e.seen <= clock
    BY <2>1, <2>2, <2>3 DEF Past, RowAfter
  <2>5. ASSUME NEW x \in Stored'
        PROVE  /\ entries'[x].seen <= clock
               /\ entries'[x].always
                    \subseteq Findable(x, entries'[x].words, entries'[x].issued, entries'[x].seen)
    <3>1. CASE x = new
      <4>1. entries'[x] = e
        BY <2>3, <3>1 DEF TypeOK
      <4> QED
        BY <2>3, <2>4, <3>1, <4>1 DEF RowAfter
    <3>2. CASE x # new
      <4>1. entries'[x] = entries[x] /\ x \in Stored
        BY <2>3, <3>2 DEF TypeOK, Stored
      <4> QED
        BY <4>1 DEF Past
    <3> QED
      BY <3>1, <3>2
  <2>6. \A s \in Runners : run'[s] = run[s] \/ run'[s].pc # "writing"
    BY <2>1 DEF TypeOK
  <2> QED
    BY <2>1, <2>5, <2>6 DEF Past, Live, Findable
<1> QED
  BY <1>3, <1>4, <1>5, <1>6, <1>7, <1>8, <1>9, <1>10 DEF Next, Commit

(* A write: what it keeps of a row that is there, and what a new row holds. *)
LEMMA Writes ==
  ASSUME TypeOK, NEW r \in Runners, Commit(r)
  PROVE  /\ run[r].entry \in Entries /\ run[r].pc = "writing"
         /\ UNCHANGED <<clock, users, held, mailed, settled>>
         /\ run' = [run EXCEPT ![r] = [pc |-> "syncing"]]
         /\ \A x \in Entries \ {run[r].entry} : entries'[x] = entries[x]
         /\ entries'[run[r].entry] # None
         /\ run[r].entry \in Stored =>
              /\ entries'[run[r].entry].seen = entries[run[r].entry].seen
              /\ entries'[run[r].entry].always \subseteq entries[run[r].entry].always
              /\ entries'[run[r].entry].by = entries[run[r].entry].by
         /\ run[r].entry \notin Stored =>
              /\ entries'[run[r].entry].seen = run[r].now
              /\ entries'[run[r].entry].by = r
<1>1. /\ run[r].pc = "writing" /\ run[r].entry \in Entries /\ run[r].now \in Time
      /\ UNCHANGED <<clock, users, held, mailed, settled>>
      /\ run' = [run EXCEPT ![r] = [pc |-> "syncing"]]
  BY Commits
<1>2. PICK new \in Entries : new = run[r].entry
  BY <1>1
<1>3. PICK e \in Entry :
        entries' = [entries EXCEPT ![new] = e] /\ RowAfter(r, new, run[r].now, e)
  BY <1>2, Commits
<1>4. e # None
  BY <1>3, KeywordAlertsAssumption
<1>5. entries'[new] = e /\ \A x \in Entries \ {new} : entries'[x] = entries[x]
  BY <1>3 DEF TypeOK
<1> QED
  BY <1>1, <1>2, <1>3, <1>4, <1>5 DEF RowAfter

LEMMA VisitorsKeep ==
  ASSUME WindowInv, TypeOK', Past',
         \/ UNCHANGED vars
         \/ Tick
         \/ \E e \in Emails : SignUp(e)
         \/ \E u \in UserIds :
              \/ \E w \in Words : AddKeyword(u, w) \/ DeleteKeyword(u, w)
              \/ DeleteUser(u)
  PROVE  WindowInv'
<1> USE DEF WindowInv
<1>1. UNCHANGED <<entries, run, mailed>>
  BY DEF vars, Tick, SignUp, AddKeyword, DeleteKeyword, DeleteUser
<1>2. Ours' = Ours
  BY <1>1 DEF Ours, Stored
<1>3. CASE UNCHANGED vars \/ Tick
  <2>1. UNCHANGED <<users, held>> /\ (clock' = clock \/ clock' = clock + 1)
    BY <1>3 DEF vars, Tick
  <2> QED
    BY <1>1, <1>2, <2>1, WorldKeeps DEF Live, HeldBy
<1>4. ASSUME NEW e \in Emails, SignUp(e) PROVE WindowInv'
  <2>1. PICK u \in UserIds : /\ \A v \in Live : v < u
                             /\ users' = [users EXCEPT ![u] = [email |-> e, since |-> clock]]
    BY <1>4 DEF SignUp
  <2>2. u \notin Live
    BY <2>1, KeywordAlertsAssumption DEF UserIds
  <2>3. UNCHANGED <<clock, held>>
    BY <1>4 DEF SignUp
  <2>4. \A v \in Live' : (v \in Live /\ users'[v] = users[v]) \/ HeldBy(v)' = {}
    BY <2>1, <2>2, <2>3 DEF Live, TypeOK, HeldBy
  <2> QED
    BY <1>1, <1>2, <2>3, <2>4, WorldKeeps DEF HeldBy
<1>5. ASSUME NEW u \in UserIds, NEW w \in Words, AddKeyword(u, w) \/ DeleteKeyword(u, w)
      PROVE  WindowInv'
  <2>1. UNCHANGED <<clock, users>>
    BY <1>5 DEF AddKeyword, DeleteKeyword
  <2>2. \A v \in UserIds : \A x \in HeldBy(v)' :
          (x \in HeldBy(v) /\ held'[v][x] = held[v][x]) \/ held'[v][x] = clock
    BY <1>5 DEF AddKeyword, DeleteKeyword, HeldBy, TypeOK
  <2> QED
    BY <1>1, <1>2, <2>1, <2>2, WorldKeeps DEF Live
<1>6. ASSUME NEW u \in UserIds, DeleteUser(u) PROVE WindowInv'
  <2>1. UNCHANGED clock
    BY <1>6 DEF DeleteUser
  <2>2. \A v \in Live' : v \in Live /\ users'[v] = users[v]
    BY <1>6 DEF DeleteUser, Live, TypeOK
  <2>3. \A v \in UserIds : \A x \in HeldBy(v)' : x \in HeldBy(v) /\ held'[v][x] = held[v][x]
    BY <1>6 DEF DeleteUser, KeywordsCascade, NoWords, HeldBy, TypeOK
  <2> QED
    BY <1>1, <1>2, <2>1, <2>2, <2>3, WorldKeeps
<1> QED
  BY <1>3, <1>4, <1>5, <1>6

LEMMA CliKeeps ==
  ASSUME WindowInv, TypeOK', Past', NEW r \in Cli,
         \/ StartSync(r)
         \/ \E x \in Entries : BeginWrite(r, x)
         \/ Commit(r)
         \/ EndSync(r)
         \/ Stop(r)
  PROVE  WindowInv'
<1> USE DEF WindowInv
<1>0. r \in Runners /\ Server # r
  BY KeywordAlertsAssumption DEF Runners
<1>1. CASE Commit(r)
  <2>1. run'[Server] = run[Server]
    BY <1>0, <1>1, Writes, Servers DEF TypeOK
  <2>2. /\ Ours' = Ours
        /\ \A x \in Ours : /\ entries'[x].seen = entries[x].seen
                           /\ entries'[x].always \subseteq entries[x].always
    BY <1>0, <1>1, Writes DEF Ours, Stored
  <2> QED
    BY <1>0, <1>1, <2>1, <2>2, Writes, WorldKeeps DEF Live, HeldBy
<1>2. CASE ~Commit(r)
  <2>1. UNCHANGED <<clock, users, held, entries, mailed>>
    BY <1>2 DEF StartSync, BeginWrite, EndSync, Stop
  <2>2. run'[Server] = run[Server]
    BY <1>0, <1>2, Servers DEF StartSync, BeginWrite, EndSync, Stop, Goes, TypeOK
  <2> QED
    BY <2>1, <2>2, WorldKeeps DEF Live, HeldBy, Ours, Stored
<1> QED
  BY <1>1, <1>2

(* A step of the server that leaves the tables alone, and may send a mail. *)
LEMMA ServerGoes ==
  ASSUME WindowInv, TypeOK', Past', NEW local,
         Goes(Server, local),
         UNCHANGED <<clock, users, held, entries>>, mailed \subseteq mailed',
         Sound(local), Delivered(local)'
  PROVE  WindowInv'
<1> USE DEF WindowInv
<1>1. run'[Server] = local
  BY Servers DEF Goes, TypeOK
<1>2. NothingMissed'
  BY DEF NothingMissed, Live, Stored, HeldBy
<1>3. Live' = Live /\ Ours' = Ours /\ \A u \in UserIds : HeldBy(u)' = HeldBy(u)
  BY DEF Live, Ours, Stored, HeldBy
<1>4. \A u, x : Due(u, x)' <=> Due(u, x)
  BY <1>3 DEF Due, HeldBy
<1>5. \A now : Quiet(now)' <=> Quiet(now)
  BY <1>3 DEF Quiet, HeldBy
<1>6. \A row : Same(row)' <=> Same(row)
  BY DEF Same
<1>7. \A rows : Listed(rows)' <=> Listed(rows)
  BY <1>3, <1>4, <1>6 DEF Listed
<1>8. Matching(local)' <=> Matching(local)
  BY <1>7 DEF Matching
<1>9. Sound(local)'
  BY <1>3, <1>4, <1>5, <1>6, <1>7, <1>8 DEF Sound, HeldBy
<1>10. Delivered(run[Server])'
  BY <1>1 DEF Delivered
<1> QED
  BY <1>1, <1>2, <1>9, <1>10

LEMMA Pausing == TypeOK => Sound(Asleep(clock + 1))
<1>1. TypeOK => clock \in Int
  BY DEF TypeOK, Time
<1> QED
  BY <1>1 DEF Sound, Asleep

LEMMA Continuing ==
  ASSUME TypeOK, NEW todo \in SUBSET Row, Listed(todo)
  PROVE  Sound(Continue(todo)) /\ Continue(todo).pc \in {"asleep", "digest"}
BY Pausing DEF Continue, Asleep, Sound

LEMMA ServerSyncKeeps ==
  ASSUME WindowInv, TypeOK', Past',
         \/ StartSync(Server)
         \/ \E x \in Entries : BeginWrite(Server, x)
         \/ EndSync(Server)
         \/ Stop(Server)
  PROVE  WindowInv'
<1> USE DEF WindowInv
<1>1. CASE StartSync(Server)
  <2>1. Sound([pc |-> "syncing"])
    BY <1>1 DEF StartSync, Sound
  <2>2. Delivered([pc |-> "syncing"])'
    BY DEF Delivered
  <2> QED
    BY <1>1, <2>1, <2>2, ServerGoes DEF StartSync
<1>2. ASSUME NEW x \in Entries, BeginWrite(Server, x)
      PROVE  WindowInv'
  <2>1. PICK local : /\ Goes(Server, local)
                     /\ local.pc = "writing" /\ local.now = clock
    BY <1>2 DEF BeginWrite
  <2>2. clock <= clock
    BY DEF TypeOK, Time
  <2>3. Sound(local) /\ Delivered(local)'
    BY <1>2, <2>1, <2>2 DEF BeginWrite, Sound, Delivered
  <2> QED
    BY <1>2, <2>1, <2>3, ServerGoes DEF BeginWrite
<1>3. ~EndSync(Server)
  BY KeywordAlertsAssumption DEF EndSync
<1>4. CASE Stop(Server)
  <2>1. PICK until : until = clock + 1
    OBVIOUS
  <2>2. Sound(Asleep(until)) /\ Delivered(Asleep(until))'
    <3>1. Sound(Asleep(until))
      BY <2>1, Pausing
    <3> QED
      BY <3>1 DEF Delivered, Asleep
  <2> QED
    BY <1>4, <2>1, <2>2, ServerGoes DEF Stop
<1> QED
  BY <1>1, <1>2, <1>3, <1>4

LEMMA ListUsersKeeps ==
  ASSUME WindowInv, TypeOK', Past', ListUsers
  PROVE  WindowInv'
<1> USE DEF WindowInv
<1> DEFINE todo == {[id |-> u, email |-> users[u].email, since |-> users[u].since] :
                      u \in {v \in Live : HeldBy(v) # {}}}
<1>1. todo \in SUBSET Row
  BY DEF TypeOK, Live, User, Row
<1>2. Listed(todo)
  BY DEF Listed, Same
<1>3. PICK rows \in SUBSET Row : rows = todo
  BY <1>1
<1>4. PICK local : local = Continue(rows)
  OBVIOUS
<1>5. Sound(local) /\ local.pc \in {"asleep", "digest"}
  BY <1>2, <1>3, <1>4, Continuing
<1>6. Goes(Server, local) /\ UNCHANGED <<clock, users, held, entries, mailed>>
  BY <1>3, <1>4 DEF ListUsers
<1> HIDE DEF todo
<1>7. Delivered(local)'
  BY <1>5 DEF Delivered
<1> QED
  BY <1>5, <1>6, <1>7, ServerGoes

LEMMA TakeUserKeeps ==
  ASSUME WindowInv, TypeOK', Past', TakeUser
  PROVE  WindowInv'
<1> USE DEF WindowInv
<1>1. PICK row, local :
        /\ row \in run[Server].todo
        /\ local = [pc |-> "matching", todo |-> run[Server].todo \ {row}, row |-> row,
                    now |-> clock, words |-> HeldBy(row.id)]
        /\ Goes(Server, local)
  BY DEF TakeUser
<1>2. Listed(run[Server].todo)
  BY DEF TakeUser, Sound
<1>3. Listed(local.todo \cup {local.row})
  BY <1>1, <1>2 DEF Listed
<1>4. clock <= clock
  BY DEF TypeOK, Time
<1>5. Sound(local)
  BY <1>1, <1>3, <1>4 DEF Sound, Matching
<1>6. local.pc = "matching"
  BY <1>1
<1>7. Delivered(local)'
  BY <1>6 DEF Delivered
<1> QED
  BY <1>1, <1>5, <1>7, ServerGoes DEF TakeUser

LEMMA FindMatchesKeeps ==
  ASSUME WindowInv, TypeOK', Past', FindMatches
  PROVE  WindowInv'
<1> USE DEF WindowInv
<1> DEFINE old   == run[Server]
           found == Matches(old.words, old.row.since)
<1>1. PICK local :
        /\ local = [pc |-> IF found = {} THEN "advancing" ELSE "sending", todo |-> old.todo,
                    row |-> old.row, now |-> old.now, found |-> found]
        /\ Goes(Server, local)
  BY DEF FindMatches
<1>2. /\ old \in [pc: {"matching"}, todo: SUBSET Row, row: Row, now: Time, words: SUBSET Words]
      /\ old.pc = "matching"
  BY DigestLocal DEF FindMatches
<1>3. Matching(local)
  BY <1>1, <1>2 DEF Sound, Matching
<1>4. ASSUME old.row.id \in Live, Same(old.row), NEW x \in Ours, Due(old.row.id, x),
             <<old.row.email, x>> \notin mailed
      PROVE  x \in found
  <2> DEFINE u == old.row.id
  <2>1. /\ users[u].email = old.row.email /\ users[u].since = old.row.since
        /\ u \in UserIds /\ old.row.since \in Int
    BY <1>2, <1>4 DEF Same, Row, Time
  <2>2. x \in Stored /\ entries[x] \in Entry /\ entries[x].seen \in Int
        /\ entries[x].issued \in Int
    BY DEF Ours, Stored, TypeOK, Entry, Time
  <2>3. NewFor(x, old.row.since)
    BY <1>4, <2>1, <2>2, MissedByDue DEF NewFor
  <2>4. PICK w \in entries[x].always \cap HeldBy(u) : held[u][w] < entries[x].seen
    BY <1>4 DEF Due
  <2>5. w \in Findable(x, entries[x].words, entries[x].issued, entries[x].seen)
    BY <2>2, <2>4 DEF Past
  <2>6. w \in entries[x].words
        /\ (x \in Certificates => ~(entries[x].issued < entries[x].seen - Window))
    BY <2>5 DEF Findable
  <2>7. RecentFor(x, old.row.since)
    BY <2>1, <2>2, <2>3, <2>6, KeywordAlertsAssumption DEF RecentFor, NewFor
  <2>8. held[u][w] \in Int
    BY <2>1, <2>4 DEF TypeOK, HeldBy, Time
  <2>9. w \in old.words
    BY <1>2, <2>2, <2>4, <2>8 DEF Sound
  <2> QED
    BY <2>2, <2>3, <2>6, <2>7, <2>9 DEF Matches
<1>5. Sound(local)
  BY <1>1, <1>3, <1>4 DEF Sound
<1>6. Delivered(local)'
  BY <1>1 DEF Delivered
<1> QED
  BY <1>1, <1>5, <1>6, ServerGoes DEF FindMatches

(* The server between its mail and the next account. *)
LEMMA SendingKeeps ==
  ASSUME WindowInv, TypeOK', Past', Send \/ FailToSend \/ LogAlert
  PROVE  WindowInv'
<1> USE DEF WindowInv
<1> DEFINE old == run[Server]
<1>1. /\ old \in [pc: {"sending", "logging", "advancing"}, todo: SUBSET Row, row: Row,
                  now: Time, found: SUBSET Entries]
      /\ old.pc \in {"sending", "logging"}
  BY DigestLocal DEF Send, FailToSend, LogAlert
<1>2. UNCHANGED <<clock, users, held, entries>> /\ mailed \subseteq mailed'
  BY DEF Send, FailToSend, LogAlert
<1>3. CASE Send \/ LogAlert
  <2>1. PICK pc \in {"logging", "advancing"} : Goes(Server, [old EXCEPT !.pc = pc])
    BY <1>3 DEF Send, LogAlert
  <2> DEFINE local == [old EXCEPT !.pc = pc]
  <2>2. local = [pc |-> pc, todo |-> old.todo, row |-> old.row, now |-> old.now,
                 found |-> old.found]
    BY <1>1
  <2>3. PICK next : next = local
    OBVIOUS
  <2>4. Sound(next)
    BY <1>1, <2>2, <2>3 DEF Sound, Matching
  <2>5. {old.row.email} \X old.found \subseteq mailed'
    BY <1>3 DEF Send, LogAlert, Delivered
  <2>6. next.row = old.row /\ next.found = old.found
    BY <2>2, <2>3
  <2>7. Delivered(next)'
    BY <2>5, <2>6 DEF Delivered
  <2> QED
    BY <1>2, <2>1, <2>3, <2>4, <2>7, ServerGoes
<1>4. CASE FailToSend
  <2>1. PICK todo \in SUBSET Row : todo = old.todo
    BY <1>1
  <2>2. Listed(todo)
    BY <1>1, <2>1 DEF Sound, Matching, Listed
  <2>3. PICK local : local = Continue(todo) /\ Goes(Server, local)
    BY <1>4, <2>1 DEF FailToSend, AfterFailure
  <2>4. Sound(local) /\ local.pc \in {"asleep", "digest"}
    BY <2>2, <2>3, Continuing
  <2>5. Delivered(local)'
    BY <2>4 DEF Delivered
  <2> QED
    BY <1>2, <2>3, <2>4, <2>5, ServerGoes
<1> QED
  BY <1>3, <1>4

(* The window moves: what is due to its account was in the mail, or in an earlier one;
   the rows of the list that follow are of other accounts. *)
LEMMA AdvanceKeeps ==
  ASSUME WindowInv, TypeOK', Past', Advance
  PROVE  WindowInv'
<1> USE DEF WindowInv
<1> DEFINE old == run[Server]
           u   == old.row.id
<1>1. /\ old \in [pc: {"sending", "logging", "advancing"}, todo: SUBSET Row, row: Row,
                  now: Time, found: SUBSET Entries]
      /\ old.pc = "advancing"
      /\ u \in UserIds
  BY DigestLocal DEF Advance, Row
<1>2. /\ UNCHANGED <<clock, held, entries, mailed>>
      /\ Goes(Server, Continue(old.todo))
  BY DEF Advance
<1>3. Live' = Live /\ \A v \in Live : v # u => users'[v] = users[v]
  <2>1. u \in Live => [users[u] EXCEPT !.since = old.now] # None
    <3>1. ASSUME u \in Live PROVE [users[u] EXCEPT !.since = old.now] \in User
      BY <1>1, <3>1 DEF Live, TypeOK, User
    <3> QED
      BY <3>1, KeywordAlertsAssumption
  <2> QED
    BY <2>1 DEF Advance, Live, TypeOK
<1>4. u \in Live => users'[u].email = users[u].email
  <2>1. u \in Live => users[u] \in User
    BY DEF Live, TypeOK
  <2> QED
    BY <1>1, <2>1 DEF Advance, User, TypeOK
<1>5. Ours' = Ours /\ \A v, x : Due(v, x)' <=> Due(v, x)
  BY <1>2 DEF Ours, Stored, Due, HeldBy
<1>6. /\ Listed(old.todo \cup {old.row})
      /\ old.row \notin old.todo
      /\ u \in Live /\ Same(old.row) =>
           \A x \in Ours : Due(u, x) => <<old.row.email, x>> \in mailed
  BY <1>1 DEF Sound, Matching, Delivered
<1>7. NothingMissed'
  <2>1. ASSUME NEW v \in Live, NEW x \in Ours, Due(v, x),
               entries[x].seen <= users'[v].since
        PROVE  <<users'[v].email, x>> \in mailed
    <3>1. CASE v # u
      BY <1>3, <2>1, <3>1, MissedByDue
    <3>2. CASE v = u
      BY <1>4, <1>6, <2>1, <3>2 DEF Listed, Same
    <3> QED
      BY <3>1, <3>2
  <2> QED
    BY <1>2, <1>3, <1>5, <2>1 DEF NothingMissed, Due, Ours
<1>8. PICK todo \in SUBSET Row : todo = old.todo
  BY <1>1
<1>9. Listed(todo)'
  <2>1. ASSUME NEW row \in todo PROVE row.id # u
    BY <1>6, <1>8, <2>1 DEF Listed
  <2>2. ASSUME NEW row \in todo, row.id \in Live
        PROVE  Same(row)' \/ \A x \in Ours : ~Due(row.id, x)
    BY <1>3, <1>6, <1>8, <2>1, <2>2 DEF Listed, Same
  <2> QED
    BY <1>3, <1>5, <1>6, <1>8, <2>2 DEF Listed
<1>10. PICK local : local = Continue(todo) /\ run'[Server] = local
  BY <1>2, <1>8, Servers DEF Goes, TypeOK
<1>11. Sound(local)'
  <2>1. PICK until : until = clock + 1
    OBVIOUS
  <2>2. clock' = clock /\ clock \in Int
    BY <1>2 DEF TypeOK, Time
  <2>3. local = Asleep(until) \/ local = [pc |-> "digest", todo |-> todo]
    BY <1>10, <2>1 DEF Continue
  <2> QED
    BY <1>9, <2>1, <2>2, <2>3 DEF Sound, Asleep
<1>12. Delivered(local)'
  BY <1>10 DEF Delivered, Continue, Asleep
<1> QED
  BY <1>7, <1>10, <1>11, <1>12 DEF Sound, Delivered

(* A new entry of the server is ahead of the windows it matters to. *)
LEMMA CommitKeeps ==
  ASSUME WindowInv, TypeOK', Past', Commit(Server)
  PROVE  WindowInv'
<1> USE DEF WindowInv
<1> DEFINE new == run[Server].entry
           now == run[Server].now
<1>1. run'[Server] = [pc |-> "syncing"]
  BY Servers, Writes DEF TypeOK
<1>2. Quiet(now) /\ Quiet(clock)
  BY Servers, Writes DEF Sound
<1>3. Quiet(clock)'
  BY <1>2, Servers, Writes DEF Quiet, Live, HeldBy
<1>4. ASSUME NEW u \in Live', NEW x \in Stored',
             entries'[x].by = Server,
             entries'[x].seen <= users'[u].since,
             NEW w \in entries'[x].always \cap HeldBy(u)', held'[u][w] < entries'[x].seen
      PROVE  <<users'[u].email, x>> \in mailed'
  <2>1. /\ u \in Live /\ users'[u] = users[u] /\ HeldBy(u)' = HeldBy(u) /\ mailed' = mailed
        /\ held'[u][w] = held[u][w]
    BY Servers, Writes DEF Live, HeldBy
  <2>2. CASE x = new /\ x \notin Stored
    <3>1. entries'[x].seen = now
      BY <2>2, Servers, Writes
    <3>2. users[u].since < now
      BY <1>2, <1>4, <2>1, <3>1 DEF Quiet
    <3>3. users[u].since \in Int /\ now \in Int
      <4>1. users[u] \in User
        BY <2>1 DEF Live, TypeOK
      <4>2. run[Server] \in LocalStates /\ run[Server].pc = "writing"
        BY Servers, Writes DEF TypeOK
      <4> QED
        BY <4>1, <4>2 DEF User, Time, LocalStates
    <3> QED
      BY <1>4, <2>1, <3>1, <3>2, <3>3
  <2>3. CASE ~(x = new /\ x \notin Stored)
    <3>1. /\ x \in Stored /\ entries'[x].by = entries[x].by
          /\ entries'[x].seen = entries[x].seen
          /\ entries'[x].always \subseteq entries[x].always
      BY <2>3, Servers, Writes DEF Stored
    <3> QED
      BY <1>4, <2>1, <3>1 DEF NothingMissed
  <2> QED
    BY <2>2, <2>3
<1>5. NothingMissed'
  BY <1>4 DEF NothingMissed
<1> QED
  BY <1>1, <1>3, <1>5 DEF Sound, Delivered

LEMMA WindowInit == Init => WindowInv
<1> SUFFICES ASSUME Init PROVE WindowInv
  OBVIOUS
<1>1. Live = {} /\ Stored = {}
  BY DEF Init, Live, Stored
<1>2. run[Server] = [pc |-> "asleep", until |-> 0]
  BY Servers DEF Init, Asleep
<1>3. \A r \in Runners : run[r].pc # "writing"
  BY DEF Init, Asleep
<1>4. clock = 0
  BY DEF Init
<1>5. Past /\ NothingMissed
  BY <1>1, <1>3 DEF Past, NothingMissed
<1>6. Sound(run[Server]) /\ Delivered(run[Server])
  BY <1>1, <1>2, <1>4 DEF Sound, Delivered, Quiet
<1> QED
  BY <1>5, <1>6, TypeInit DEF WindowInv

LEMMA WindowStep == WindowInv /\ [Next]_vars => WindowInv'
<1> SUFFICES ASSUME WindowInv, [Next]_vars PROVE WindowInv'
  OBVIOUS
<1>1. TypeOK'
  BY TypeStep DEF WindowInv
<1>2. Past'
  BY <1>1, PastKeeps
<1>3. ASSUME NEW r \in Runners,
             \/ StartSync(r)
             \/ \E x \in Entries : BeginWrite(r, x)
             \/ Commit(r)
             \/ EndSync(r)
             \/ Stop(r)
      PROVE  WindowInv'
  <2>1. CASE r = Server
    BY <1>1, <1>2, <1>3, <2>1, ServerSyncKeeps, CommitKeeps
  <2>2. CASE r \in Cli
    BY <1>1, <1>2, <1>3, <2>2, CliKeeps
  <2> QED
    BY <2>1, <2>2 DEF Runners
<1>4. CASE \/ UNCHANGED vars
           \/ Tick
           \/ \E e \in Emails : SignUp(e)
           \/ \E u \in UserIds :
                \/ \E w \in Words : AddKeyword(u, w) \/ DeleteKeyword(u, w)
                \/ DeleteUser(u)
  BY <1>1, <1>2, <1>4, VisitorsKeep
<1>5. CASE ListUsers \/ TakeUser \/ FindMatches
  BY <1>1, <1>2, <1>5, ListUsersKeeps, TakeUserKeeps, FindMatchesKeeps
<1>6. CASE Send \/ FailToSend \/ LogAlert \/ Advance
  BY <1>1, <1>2, <1>6, SendingKeeps, AdvanceKeeps
<1> QED
  BY <1>3, <1>4, <1>5, <1>6 DEF Next, Commit

(* alerts.rs:6-7: the window never passes an entry of the server that has matched, ever
   since it was stored, a keyword the account held before and that was not mailed,
   whatever fails, stops or runs in between. *)
THEOREM NothingIsMissed == Spec => []NothingMissed
<1>1. WindowInv => NothingMissed
  BY DEF WindowInv
<1> QED
  BY <1>1, WindowInit, WindowStep, PTL DEF Spec

-----------------------------------------------------------------------------
(* The rows of the list have addresses of their own; an entry that is settled for one is
   behind its window; and an account that has the address by now has it since the list
   was read, when all entries of the server were there. *)
Pending(rows) ==
  /\ \A a, b \in rows : a.email = b.email => a = b
  /\ \A row \in rows : \A x \in Ours :
       <<row.email, x>> \in settled => entries[x].seen <= row.since
  /\ \A row \in rows : \A v \in Live :
       users[v].email = row.email =>
         v = row.id \/ \A x \in Ours : entries[x].seen <= users[v].since

Taken(local) ==
  /\ local.row \notin local.todo
  /\ Pending(local.todo \cup {local.row})
  /\ \A x \in Ours : entries[x].seen <= local.now

InHand(local) ==
  /\ local.pc = "digest" => Pending(local.todo)
  /\ local.pc = "matching" => Taken(local)
  /\ local.pc \in {"sending", "logging", "advancing"} =>
       /\ Taken(local)
       /\ local.found \subseteq Stored
       /\ \A x \in local.found \cap Ours : entries[x].seen > local.row.since

Distinct == \A u, v \in Live : users[u].email = users[v].email => u = v

Spent ==
  /\ settled \subseteq Emails \X Stored
  /\ \A u \in Live, x \in Ours :
       <<users[u].email, x>> \in settled => entries[x].seen <= users[u].since

RepeatInv == Distinct /\ Spent /\ InHand(run[Server])

LEMMA SeenBefore ==
  ASSUME WindowInv
  PROVE  /\ clock \in Int
         /\ \A x \in Ours : entries[x].seen \in Int /\ entries[x].seen <= clock
         /\ \A u \in Live : users[u].since \in Int
<1>1. \A x \in Ours : entries[x] \in Entry /\ entries[x].seen <= clock
  BY DEF WindowInv, TypeOK, Past, Ours, Stored
<1>2. \A u \in Live : users[u] \in User
  BY DEF WindowInv, TypeOK, Live
<1> QED
  BY <1>1, <1>2 DEF WindowInv, TypeOK, Time, Entry, User

(* Steps of visitors, of the clock and of the command line: a new account is of now. *)
LEMMA WorldRepeats ==
  ASSUME WindowInv, RepeatInv, Distinct',
         run'[Server] = run[Server], settled' = settled,
         Ours' = Ours, Stored \subseteq Stored',
         \A x \in Ours : entries'[x].seen = entries[x].seen,
         \A u \in Live' : (u \in Live /\ users'[u] = users[u]) \/ users'[u].since = clock
  PROVE  RepeatInv'
<1> USE DEF RepeatInv
<1>1. Spent'
  BY SeenBefore DEF Spent
<1>2. ASSUME NEW rows, Pending(rows)
      PROVE  Pending(rows)'
  BY <1>2, SeenBefore DEF Pending
<1>3. ASSUME NEW local, Taken(local)
      PROVE  Taken(local)'
  BY <1>2, <1>3 DEF Taken
<1>4. ASSUME NEW local, InHand(local)
      PROVE  InHand(local)'
  <2>1. local.pc = "digest" => Pending(local.todo)'
    BY <1>2, <1>4 DEF InHand
  <2>2. local.pc \in {"matching", "sending", "logging", "advancing"} => Taken(local)'
    BY <1>3, <1>4 DEF InHand
  <2>3. local.pc \in {"sending", "logging", "advancing"} =>
          /\ local.found \subseteq Stored'
          /\ \A x \in local.found \cap Ours' : entries'[x].seen > local.row.since
    BY <1>4 DEF InHand
  <2> QED
    BY <2>1, <2>2, <2>3 DEF InHand
<1>5. PICK local : local = run[Server]
  OBVIOUS
<1>6. InHand(local)'
  BY <1>4, <1>5
<1>7. InHand(run[Server])'
  BY <1>5, <1>6 DEF InHand, Taken, Pending
<1> QED
  BY <1>1, <1>7

LEMMA VisitorsRepeat ==
  ASSUME WindowInv, RepeatInv,
         \/ UNCHANGED vars
         \/ Tick
         \/ \E e \in Emails : SignUp(e)
         \/ \E u \in UserIds :
              \/ \E w \in Words : AddKeyword(u, w) \/ DeleteKeyword(u, w)
              \/ DeleteUser(u)
  PROVE  RepeatInv'
<1>0. users \in [UserIds -> User \cup {None}]
  BY DEF WindowInv, TypeOK
<1>1. UNCHANGED <<entries, run, settled>>
  BY DEF vars, Tick, SignUp, AddKeyword, DeleteKeyword, DeleteUser
<1>2. Ours' = Ours /\ Stored' = Stored
  BY <1>1 DEF Ours, Stored
<1>3. CASE \A u \in Live' : u \in Live /\ users'[u] = users[u]
  BY <1>1, <1>2, <1>3, WorldRepeats DEF RepeatInv, Distinct
<1>4. ASSUME NEW e \in Emails, SignUp(e) PROVE RepeatInv'
  <2>1. PICK u \in UserIds : users' = [users EXCEPT ![u] = [email |-> e, since |-> clock]]
    BY <1>4 DEF SignUp
  <2>2. \A v \in Live' : \/ v # u /\ v \in Live /\ users'[v] = users[v]
                         \/ v = u /\ users'[v].email = e /\ users'[v].since = clock
    <3>1. \A v \in UserIds : users'[v] = IF v = u THEN [email |-> e, since |-> clock] ELSE users[v]
      BY <1>0, <2>1
    <3>2. \A v \in Live' : v \in UserIds /\ users'[v] # None
      BY DEF Live
    <3> QED
      BY <3>1, <3>2 DEF Live
  <2>3. \A v \in Live : users[v].email # e
    BY <1>4 DEF SignUp
  <2>4. Distinct'
    BY <2>2, <2>3 DEF RepeatInv, Distinct
  <2> QED
    BY <1>1, <1>2, <2>2, <2>4, WorldRepeats
<1>5. (\E e \in Emails : SignUp(e)) \/ \A u \in Live' : u \in Live /\ users'[u] = users[u]
  BY DEF vars, Tick, AddKeyword, DeleteKeyword, DeleteUser, Live, WindowInv, TypeOK
<1> QED
  BY <1>3, <1>4, <1>5

LEMMA CliRepeats ==
  ASSUME WindowInv, RepeatInv, NEW r \in Cli,
         \/ StartSync(r)
         \/ \E x \in Entries : BeginWrite(r, x)
         \/ Commit(r)
         \/ EndSync(r)
         \/ Stop(r)
  PROVE  RepeatInv'
<1> USE DEF WindowInv
<1>0. r \in Runners /\ Server # r
  BY KeywordAlertsAssumption DEF Runners
<1>1. UNCHANGED <<users, settled>>
  BY DEF StartSync, BeginWrite, Commit, CommitWrite, EndSync, Stop
<1>2. run'[Server] = run[Server]
  BY <1>0, Servers DEF StartSync, BeginWrite, Commit, CommitWrite, EndSync, Stop, Goes, TypeOK
<1>3. /\ Ours' = Ours /\ Stored \subseteq Stored'
      /\ \A x \in Ours : entries'[x].seen = entries[x].seen
  <2>1. CASE Commit(r)
    BY <1>0, <2>1, Writes DEF Ours, Stored
  <2>2. CASE ~Commit(r)
    BY <2>2 DEF StartSync, BeginWrite, EndSync, Stop, Ours, Stored
  <2> QED
    BY <2>1, <2>2
<1>4. Distinct'
  BY <1>1 DEF RepeatInv, Distinct, Live
<1> QED
  BY <1>1, <1>2, <1>3, <1>4, WorldRepeats DEF Live

(* A step of the server that leaves windows, entries and what is settled alone. *)
LEMMA ServerRepeats ==
  ASSUME WindowInv, RepeatInv, NEW local, Goes(Server, local),
         UNCHANGED <<users, entries, settled>>, InHand(local)
  PROVE  RepeatInv'
<1>1. run'[Server] = local
  BY Servers DEF Goes, WindowInv, TypeOK
<1>2. Live' = Live /\ Ours' = Ours /\ Stored' = Stored
  BY DEF Live, Ours, Stored
<1>3. Distinct' /\ Spent'
  BY <1>2 DEF RepeatInv, Distinct, Spent
<1>4. \A rows : Pending(rows)' <=> Pending(rows)
  BY <1>2 DEF Pending
<1>5. Taken(local)' <=> Taken(local)
  BY <1>2, <1>4 DEF Taken
<1>6. InHand(local)'
  BY <1>2, <1>4, <1>5 DEF InHand
<1> QED
  BY <1>1, <1>3, <1>6 DEF RepeatInv

LEMMA ContinuingInHand ==
  ASSUME NEW todo, Pending(todo)
  PROVE  InHand(Continue(todo))
BY DEF Continue, Asleep, InHand

LEMMA ServerSyncRepeats ==
  ASSUME WindowInv, RepeatInv,
         \/ StartSync(Server)
         \/ \E x \in Entries : BeginWrite(Server, x)
         \/ Commit(Server)
         \/ EndSync(Server)
         \/ Stop(Server)
  PROVE  RepeatInv'
<1>1. CASE Commit(Server)
  <2>1. run'[Server] = [pc |-> "syncing"]
    BY <1>1, Servers, Writes DEF WindowInv, TypeOK
  <2>2. UNCHANGED <<users, settled>>
    BY <1>1, Servers, Commits DEF WindowInv
  <2>3. Stored \subseteq Stored'
        /\ \A x \in Stored : entries'[x].seen = entries[x].seen /\ entries'[x].by = entries[x].by
    BY <1>1, Servers, Writes DEF Stored, WindowInv
  <2>4. Distinct'
    BY <2>2 DEF RepeatInv, Distinct, Live
  <2>5. Spent'
    BY <2>2, <2>3 DEF RepeatInv, Spent, Live, Ours
  <2> QED
    BY <2>1, <2>4, <2>5 DEF RepeatInv, InHand
<1>2. ASSUME NEW local, Goes(Server, local), UNCHANGED <<users, entries, settled>>,
             local.pc \in {"asleep", "syncing", "writing"}
      PROVE  RepeatInv'
  <2>1. InHand(local)
    BY <1>2 DEF InHand
  <2> QED
    BY <1>2, <2>1, ServerRepeats
<1> QED
  BY <1>1, <1>2 DEF StartSync, BeginWrite, EndSync, Stop, Asleep

LEMMA ListUsersRepeats ==
  ASSUME WindowInv, RepeatInv, ListUsers
  PROVE  RepeatInv'
<1> DEFINE todo == {[id |-> u, email |-> users[u].email, since |-> users[u].since] :
                      u \in {v \in Live : HeldBy(v) # {}}}
<1>1. Pending(todo)
  BY DEF RepeatInv, Distinct, Spent, Pending
<1>2. PICK rows : rows = todo
  OBVIOUS
<1>3. InHand(Continue(rows))
  BY <1>1, <1>2, ContinuingInHand
<1>4. PICK local : local = Continue(rows)
  OBVIOUS
<1>5. Goes(Server, local) /\ UNCHANGED <<users, entries, settled>>
  BY <1>2, <1>4 DEF ListUsers
<1> HIDE DEF todo
<1> QED
  BY <1>3, <1>4, <1>5, ServerRepeats

LEMMA TakeUserRepeats ==
  ASSUME WindowInv, RepeatInv, TakeUser
  PROVE  RepeatInv'
<1>1. PICK row, local :
        /\ row \in run[Server].todo
        /\ local = [pc |-> "matching", todo |-> run[Server].todo \ {row}, row |-> row,
                    now |-> clock, words |-> HeldBy(row.id)]
        /\ Goes(Server, local)
  BY DEF TakeUser
<1>2. Pending(run[Server].todo)
  BY DEF TakeUser, RepeatInv, InHand
<1>3. local.todo \cup {local.row} = run[Server].todo
  BY <1>1
<1>4. InHand(local)
  BY <1>1, <1>2, <1>3, SeenBefore DEF InHand, Taken
<1> QED
  BY <1>1, <1>4, ServerRepeats DEF TakeUser

LEMMA FindMatchesRepeats ==
  ASSUME WindowInv, RepeatInv, FindMatches
  PROVE  RepeatInv'
<1> DEFINE old   == run[Server]
           found == Matches(old.words, old.row.since)
<1>1. PICK local :
        /\ local = [pc |-> IF found = {} THEN "advancing" ELSE "sending",
                    todo |-> old.todo, row |-> old.row, now |-> old.now, found |-> found]
        /\ Goes(Server, local)
  BY DEF FindMatches
<1>2. Taken(old)
  BY DEF FindMatches, RepeatInv, InHand
<1>3. Taken(local)
  BY <1>1, <1>2 DEF Taken
<1>4. found \subseteq Stored /\ \A x \in found : entries[x].seen > old.row.since
  BY DEF Matches, NewFor
<1>5. InHand(local)
  BY <1>1, <1>3, <1>4 DEF InHand
<1> QED
  BY <1>1, <1>5, ServerRepeats DEF FindMatches

LEMMA SendingRepeats ==
  ASSUME WindowInv, RepeatInv, Send \/ FailToSend \/ LogAlert
  PROVE  RepeatInv'
<1> DEFINE old == run[Server]
<1>1. /\ old \in [pc: {"sending", "logging", "advancing"}, todo: SUBSET Row, row: Row,
                  now: Time, found: SUBSET Entries]
      /\ old.pc \in {"sending", "logging"}
  BY DigestLocal DEF Send, FailToSend, LogAlert, WindowInv
<1>2. InHand(old)
  BY DEF RepeatInv
<1>3. UNCHANGED <<users, entries, settled>>
  BY DEF Send, FailToSend, LogAlert
<1>4. CASE Send \/ LogAlert
  <2>1. PICK pc \in {"logging", "advancing"} : Goes(Server, [old EXCEPT !.pc = pc])
    BY <1>4 DEF Send, LogAlert
  <2> DEFINE local == [old EXCEPT !.pc = pc]
  <2>2. local = [pc |-> pc, todo |-> old.todo, row |-> old.row, now |-> old.now,
                 found |-> old.found]
    BY <1>1
  <2>3. PICK next : next = local
    OBVIOUS
  <2>4. InHand(next)
    BY <1>1, <1>2, <2>2, <2>3 DEF InHand, Taken
  <2> QED
    BY <1>3, <2>1, <2>3, <2>4, ServerRepeats
<1>5. CASE FailToSend
  <2>1. PICK todo : todo = old.todo
    OBVIOUS
  <2>2. Pending(todo)
    BY <1>1, <1>2, <2>1 DEF InHand, Taken, Pending
  <2>3. PICK local : local = Continue(todo) /\ Goes(Server, local)
    BY <1>5, <2>1 DEF FailToSend, AfterFailure
  <2>4. InHand(local)
    BY <2>2, <2>3, ContinuingInHand
  <2> QED
    BY <1>3, <2>3, <2>4, ServerRepeats
<1> QED
  BY <1>4, <1>5

(* What is settled now is behind the window that moves, and behind that of an account
   opened for the same address meanwhile. *)
LEMMA AdvanceRepeats ==
  ASSUME WindowInv, RepeatInv, Advance
  PROVE  RepeatInv'
<1> DEFINE old == run[Server]
           u   == old.row.id
<1>1. /\ old \in [pc: {"sending", "logging", "advancing"}, todo: SUBSET Row, row: Row,
                  now: Time, found: SUBSET Entries]
      /\ old.pc = "advancing"
      /\ u \in UserIds /\ old.row.email \in Emails
  BY DigestLocal DEF Advance, Row, WindowInv
<1>2. /\ Goes(Server, Continue(old.todo))
      /\ UNCHANGED entries
      /\ settled' = settled \cup ({old.row.email} \X old.found)
  BY DEF Advance
<1>3. /\ Pending(old.todo \cup {old.row})
      /\ old.row \notin old.todo
      /\ \A x \in Ours : entries[x].seen <= old.now
      /\ old.found \subseteq Stored
  BY <1>1 DEF RepeatInv, InHand, Taken
<1>4. /\ Live' = Live
      /\ \A v \in Live : \/ v # u /\ users'[v] = users[v]
                         \/ /\ v = u
                            /\ users'[v].email = users[v].email
                            /\ users'[v].since = old.now
  <2>1. CASE u \notin Live
    BY <2>1 DEF Advance, Live
  <2>2. CASE u \in Live
    <3>1. users[u] \in User /\ users \in [UserIds -> User \cup {None}]
      BY <2>2 DEF WindowInv, TypeOK, Live
    <3>2. users' = [users EXCEPT ![u] = [users[u] EXCEPT !.since = old.now]]
      BY <2>2 DEF Advance
    <3> DEFINE new == [users[u] EXCEPT !.since = old.now]
    <3>3. new \in User /\ new.email = users[u].email /\ new.since = old.now
      BY <1>1, <3>1 DEF User
    <3>4. new # None
      BY <3>3, KeywordAlertsAssumption
    <3> HIDE DEF new, u
    <3>5. users' = [users EXCEPT ![u] = new]
      BY <3>2 DEF new
    <3> QED
      BY <1>1, <2>2, <3>1, <3>3, <3>4, <3>5 DEF Live
  <2> QED
    BY <2>1, <2>2
<1>5. Ours' = Ours /\ Stored' = Stored
  BY <1>2 DEF Ours, Stored
<1>6. Distinct'
  BY <1>4 DEF RepeatInv, Distinct
<1>7. Spent'
  <2>1. settled' \subseteq Emails \X Stored
    BY <1>1, <1>2, <1>3 DEF RepeatInv, Spent
  <2>2. ASSUME NEW v \in Live, NEW x \in Ours, <<users'[v].email, x>> \in settled'
        PROVE  entries[x].seen <= users'[v].since
    <3>1. CASE v = u
      BY <1>3, <1>4, <3>1
    <3>2. CASE v # u /\ <<users[v].email, x>> \in settled
      BY <1>4, <2>2, <3>2 DEF RepeatInv, Spent
    <3>3. CASE v # u /\ users[v].email = old.row.email
      BY <1>3, <1>4, <2>2, <3>3 DEF Pending
    <3> QED
      BY <1>2, <1>4, <2>2, <3>1, <3>2, <3>3
  <2> QED
    BY <1>2, <1>4, <1>5, <2>1, <2>2 DEF Spent
<1>8. PICK todo : todo = old.todo
  OBVIOUS
<1>9. Pending(todo)'
  <2>1. \A a, b \in todo : a.email = b.email => a = b
    BY <1>3, <1>8 DEF Pending
  <2>2. ASSUME NEW row \in todo, NEW x \in Ours, <<row.email, x>> \in settled'
        PROVE  entries[x].seen <= row.since
    <3>1. row.email # old.row.email
      BY <1>3, <1>8, <2>2 DEF Pending
    <3>2. <<row.email, x>> \in settled
      BY <1>2, <2>2, <3>1
    <3> QED
      BY <1>3, <1>8, <2>2, <3>2 DEF Pending
  <2>3. ASSUME NEW row \in todo, NEW v \in Live, users'[v].email = row.email, v # row.id
        PROVE  \A x \in Ours : entries[x].seen <= users'[v].since
    BY <1>3, <1>4, <1>8, <2>3 DEF Pending
  <2> QED
    BY <1>2, <1>4, <1>5, <2>1, <2>2, <2>3 DEF Pending
<1>10. PICK local : local = Continue(todo) /\ run'[Server] = local
  BY <1>2, <1>8, Servers DEF Goes, WindowInv, TypeOK
<1>11. InHand(local)'
  <2>1. local.pc = "asleep" \/ local = [pc |-> "digest", todo |-> todo]
    BY <1>10 DEF Continue, Asleep
  <2> QED
    BY <1>9, <2>1 DEF InHand
<1>12. InHand(run[Server])'
  BY <1>10, <1>11 DEF InHand, Taken, Pending
<1> QED
  BY <1>6, <1>7, <1>12 DEF RepeatInv

LEMMA RepeatInit == Init => RepeatInv
<1> SUFFICES ASSUME Init PROVE RepeatInv
  OBVIOUS
<1>1. Live = {} /\ settled = {}
  BY DEF Init, Live
<1>2. run[Server] = [pc |-> "asleep", until |-> 0]
  BY Servers DEF Init, Asleep
<1> QED
  BY <1>1, <1>2 DEF RepeatInv, Distinct, Spent, InHand

LEMMA RepeatStep == WindowInv /\ RepeatInv /\ [Next]_vars => RepeatInv'
<1> SUFFICES ASSUME WindowInv, RepeatInv, [Next]_vars PROVE RepeatInv'
  OBVIOUS
<1>1. ASSUME NEW r \in Runners,
             \/ StartSync(r)
             \/ \E x \in Entries : BeginWrite(r, x)
             \/ Commit(r)
             \/ EndSync(r)
             \/ Stop(r)
      PROVE  RepeatInv'
  <2>1. CASE r = Server
    BY <1>1, <2>1, ServerSyncRepeats
  <2>2. CASE r \in Cli
    BY <1>1, <2>2, CliRepeats
  <2> QED
    BY <2>1, <2>2 DEF Runners
<1>2. CASE \/ UNCHANGED vars
           \/ Tick
           \/ \E e \in Emails : SignUp(e)
           \/ \E u \in UserIds :
                \/ \E w \in Words : AddKeyword(u, w) \/ DeleteKeyword(u, w)
                \/ DeleteUser(u)
  BY <1>2, VisitorsRepeat
<1>3. CASE ListUsers \/ TakeUser \/ FindMatches
  BY <1>3, ListUsersRepeats, TakeUserRepeats, FindMatchesRepeats
<1>4. CASE Send \/ FailToSend \/ LogAlert \/ Advance
  BY <1>4, SendingRepeats, AdvanceRepeats
<1> QED
  BY <1>1, <1>2, <1>3, <1>4 DEF Next, Commit

(* An entry of the server is not in a mail to an address again once a window has moved
   past the mail it was in, though accounts come and go and row ids are used again. *)
THEOREM NothingIsRepeated == Spec => NoRepeat
<1>1. ASSUME WindowInv, RepeatInv, Send \/ FailToSend, NEW x \in run[Server].found,
             entries[x].by = Server
      PROVE  <<run[Server].row.email, x>> \notin settled
  <2> DEFINE local == run[Server]
  <2>1. /\ local \in [pc: {"sending", "logging", "advancing"}, todo: SUBSET Row, row: Row,
                      now: Time, found: SUBSET Entries]
        /\ local.pc = "sending"
    BY <1>1, DigestLocal DEF Send, FailToSend, WindowInv
  <2>2. Taken(local) /\ x \in Ours /\ entries[x].seen > local.row.since
    BY <1>1, <2>1 DEF RepeatInv, InHand, Ours
  <2>3. <<local.row.email, x>> \in settled => entries[x].seen <= local.row.since
    BY <2>2 DEF Taken, Pending
  <2>4. entries[x].seen \in Int /\ local.row.since \in Int
    BY <1>1, <2>1, <2>2, SeenBefore DEF Row, Time
  <2> QED
    BY <2>2, <2>3, <2>4
<1>2. WindowInv /\ RepeatInv /\ [Next]_vars =>
        [Send \/ FailToSend =>
           \A x \in run[Server].found :
             entries[x].by = Server => <<run[Server].row.email, x>> \notin settled]_vars
  BY <1>1
<1> QED
  BY <1>2, WindowInit, WindowStep, RepeatInit, RepeatStep, PTL DEF Spec, NoRepeat
=============================================================================
