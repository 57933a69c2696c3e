--------------------------- MODULE AccountsProofs ---------------------------
(***************************************************************************)
(* Theorems about Accounts: types; whatever the threads do, credits cover  *)
(* the keywords of every account, a reused row id inherits nothing,        *)
(* credits do not come back within a cycle, the keys of debits never       *)
(* collide and the accounts implement the plan of CreditPlan.              *)
(***************************************************************************)
EXTENDS Accounts, TLAPS, FiniteSetTheorems

(* What an open transaction has read is still so while its snapshot is the
   newest commit. *)
SnapshotsCurrent ==
  \A t \in fresh :
    LET local == thread[t]
    IN /\ local.pc = "rotating" => local.held = Held(local.row.id)
       /\ local.pc = "adding" =>
            /\ local.id \in Live
            /\ local.balance = users[local.id].available - users[local.id].used
            /\ local.balance >= 1
       /\ local.pc = "signing" =>
            local.existing = {u \in Live : users[u].email = local.email}

KeywordsHaveOwner ==
  \A k \in KeywordIds : keywords[k] # None => keywords[k].user \in Live

(* The inductive invariant. *)
CreditInv ==
  /\ TypeOK
  /\ SnapshotsCurrent
  /\ KeywordsHaveOwner
  /\ CreditsCoverKeywords

USE AccountsAssumption, NoneAssumption

-----------------------------------------------------------------------------
LEMMA KeywordIdsFinite == IsFiniteSet(KeywordIds)
BY FS_Interval DEF KeywordIds

(* The keywords of an account are finitely many. *)
LEMMA HeldFinite ==
  ASSUME NEW u
  PROVE  /\ IsFiniteSet(Held(u))
         /\ Cardinality(Held(u)) \in Nat
<1>1. Held(u) \subseteq KeywordIds
  BY DEF Held
<1>2. IsFiniteSet(Held(u))
  BY <1>1, KeywordIdsFinite, FS_Subset
<1>3. QED
  BY <1>2, FS_CardinalityType

(* A cycle starts within the clock's range and ends within Time. *)
LEMMA CycleStartsInTime ==
  ASSUME NEW end \in Time, NEW now \in 0..MaxClock,
         NEW start \in CycleStarts(end, now)
  PROVE  /\ start \in 0..MaxClock
         /\ start + Year \in Time
         /\ start + Year > now
  BY DEF CycleStarts, Time

(* What the local state of a thread holds at each point of its program. *)
LEMMA LocalTypes ==
  ASSUME TypeOK, NEW t \in Threads
  PROVE  LET local == thread[t]
         IN /\ local.pc = "signing" => local.email \in Emails /\ local.existing \subseteq UserIds
            /\ local.pc = "found" => local.id \in UserIds
            /\ local.pc = "loaded" =>
                 local.todo \subseteq Row /\ local.since \in Time /\ local.batch \in BOOLEAN
            /\ local.pc = "rotating" =>
                 /\ local.todo \subseteq Row /\ local.since \in Time /\ local.batch \in BOOLEAN
                 /\ local.row \in Row /\ local.start \in 0..MaxClock
                 /\ local.held \subseteq KeywordIds
            /\ local.pc = "ready" => local.row \in Row
            /\ local.pc = "adding" =>
                 local.id \in UserIds /\ local.word \in Words /\ local.balance \in Int
<1>1. thread[t] \in LocalStates
  BY DEF TypeOK
<1>2. QED
  BY <1>1 DEF LocalStates, Idle

-----------------------------------------------------------------------------
LEMMA InitTypeOK == Init => TypeOK
BY FS_EmptySet DEF Init, TypeOK, Idle, LocalStates, Ledger, NoLedger, Time

(* A new local state of the right type keeps the types of the threads. *)
LEMMA ThreadType ==
  ASSUME TypeOK, NEW t \in Threads, NEW local \in LocalStates,
         thread' = [thread EXCEPT ![t] = local]
  PROVE  thread' \in [Threads -> LocalStates]
BY DEF TypeOK

LEMMA BeginType ==
  ASSUME TypeOK, NEW t \in Threads, NEW local \in LocalStates, Begin(t, local)
  PROVE  TypeOK'
BY DEF TypeOK, Begin

LEMMA ProceedType ==
  ASSUME TypeOK, NEW t \in Threads, NEW local \in LocalStates, Proceed(t, local)
  PROVE  TypeOK'
BY DEF TypeOK, Proceed

LEMMA CommittedType ==
  ASSUME TypeOK, NEW t \in Threads, NEW local \in LocalStates, Committed(t, local),
         users' \in [UserIds -> Account \cup {None}],
         keywords' \in [KeywordIds -> Keyword \cup {None}],
         ledger' \in [UserIds -> Ledger],
         \A u \in UserIds : IsFiniteSet(ledger'[u].keys)
  PROVE  TypeOK'
BY DEF TypeOK, Committed

(* The row a thread goes on with is one that it had read, or its new version. *)
LEMMA UpToDateType ==
  ASSUME TypeOK, NEW t \in Threads, thread[t].pc \in {"loaded", "rotating"},
         NEW now \in Time, NEW row, NEW answer \in Row
  PROVE  UpToDate(t, now, row, answer) \in LocalStates
BY LocalTypes DEF UpToDate, LocalStates

LEMMA RowOfType ==
  ASSUME TypeOK, NEW u \in Live
  PROVE  RowOf(u) \in Row
BY DEF TypeOK, Live, RowOf, Row

LEMMA RotatedType ==
  ASSUME NEW local, local.row \in Row, local.start \in 0..MaxClock,
         local.held \subseteq KeywordIds
  PROVE  Rotated(local) \in Account
<1>1. IsFiniteSet(local.held)
  BY KeywordIdsFinite, FS_Subset
<1>2. Renewed(local.held) \in Nat
  BY <1>1, FS_CardinalityType DEF Renewed, AtMostCredits
<1>3. local.start \in Time /\ local.start + Year \in Time
  BY DEF Time
<1>4. local.row.account \in Account
  BY DEF Row
<1>5. QED
  BY <1>2, <1>3, <1>4 DEF Rotated, Account

LEMMA RotationKeysType ==
  ASSUME NEW local, local.start \in 0..MaxClock, local.held \subseteq KeywordIds
  PROVE  RotationKeys(local) \subseteq Reasons \X Nat \X Nat
<1> DEFINE first == {h \in local.held :
                       Cardinality({g \in local.held : g < h}) < Credits}
<1>1. first \subseteq Nat
  BY DEF KeywordIds
<1>2. local.start \in Nat
  OBVIOUS
<1> HIDE DEF first
<1>3. {<<"keyword-renewal", k, local.start>> : k \in first}
        \subseteq Reasons \X Nat \X Nat
  <2>1. ASSUME NEW k \in first
        PROVE  <<"keyword-renewal", k, local.start>> \in Reasons \X Nat \X Nat
    BY <1>1, <1>2 DEF Reasons
  <2>2. QED
    BY <2>1
<1>4. {<<"cycle-reset", 0, local.start>>} \subseteq Reasons \X Nat \X Nat
  BY <1>2 DEF Reasons
<1>5. QED
  BY <1>3, <1>4 DEF RotationKeys, first

(* A rotation inserts finitely many rows. *)
LEMMA RotationKeysFinite ==
  ASSUME NEW local, local.held \subseteq KeywordIds
  PROVE  IsFiniteSet(RotationKeys(local))
<1> DEFINE first == {h \in local.held :
                       Cardinality({g \in local.held : g < h}) < Credits}
           renewals == {<<"keyword-renewal", k, local.start>> : k \in first}
           key == [k \in first |-> <<"keyword-renewal", k, local.start>>]
<1>1. IsFiniteSet(first)
  <2>1. first \subseteq KeywordIds
    OBVIOUS
  <2>2. QED
    BY <2>1, KeywordIdsFinite, FS_Subset
<1>2. key \in Surjection(first, renewals)
  BY DEF Surjection
<1>3. IsFiniteSet(renewals)
  BY <1>1, <1>2, FS_Surjection
<1>4. IsFiniteSet({<<"cycle-reset", 0, local.start>>})
  BY FS_Singleton
<1>5. QED
  BY <1>3, <1>4, FS_Union DEF RotationKeys

LEMMA RotateBeginType ==
  ASSUME TypeOK, NEW t \in Threads, RotateBegin(t)
  PROVE  TypeOK'
<1>1. thread[t].pc = "loaded"
  BY DEF RotateBegin
<1>2. PICK row \in FirstRow(t), now \in thread[t].since..clock :
        \E start \in CycleStarts(row.account.end, now) :
          Begin(t, [pc |-> "rotating", todo |-> thread[t].todo,
                    since |-> now, batch |-> thread[t].batch, row |-> row,
                    start |-> start, held |-> Held(row.id)])
  BY DEF RotateBegin
<1>3. PICK start \in CycleStarts(row.account.end, now) :
        Begin(t, [pc |-> "rotating", todo |-> thread[t].todo,
                  since |-> now, batch |-> thread[t].batch, row |-> row,
                  start |-> start, held |-> Held(row.id)])
  BY <1>2
<1>4. /\ thread[t].todo \subseteq Row
      /\ thread[t].since \in Time
      /\ thread[t].batch \in BOOLEAN
  BY <1>1, LocalTypes
<1>5. row \in Row
  BY <1>4 DEF FirstRow
<1>6. now \in 0..MaxClock /\ now \in Time
  BY <1>4 DEF TypeOK, Time
<1>7. start \in 0..MaxClock
  BY <1>5, <1>6, CycleStartsInTime DEF Row, Account
<1>8. Held(row.id) \subseteq KeywordIds
  BY DEF Held
<1>9. [pc |-> "rotating", todo |-> thread[t].todo, since |-> now,
       batch |-> thread[t].batch, row |-> row, start |-> start,
       held |-> Held(row.id)] \in LocalStates
  BY <1>4, <1>5, <1>6, <1>7, <1>8 DEF LocalStates
<1>10. QED
  BY <1>3, <1>9, BeginType

LEMMA RotateCommitType ==
  ASSUME TypeOK, NEW t \in Threads, RotateCommit(t)
  PROVE  TypeOK'
<1> DEFINE local == thread[t]
           u == local.row.id
<1>1. local.pc = "rotating"
  BY DEF RotateCommit
<1>2. /\ local.since \in Time
      /\ local.row \in Row
      /\ local.start \in 0..MaxClock
      /\ local.held \subseteq KeywordIds
  BY <1>1, LocalTypes
<1>3. u \in UserIds /\ users[u] \in Account
  BY <1>2 DEF RotateCommit, Row, Live, TypeOK
<1>4. Rotated(local) \in Account
  BY <1>2, RotatedType
<1>5. users' \in [UserIds -> Account \cup {None}]
  <2>1. [Rotated(local) EXCEPT !.email = users[u].email] \in Account
    BY <1>3, <1>4 DEF Account
  <2>2. users' = RotateCounters(local)
    BY DEF RotateCommit
  <2>3. users \in [UserIds -> Account \cup {None}]
    BY DEF TypeOK
  <2>4. QED
    BY <2>1, <2>2, <2>3 DEF RotateCounters
<1>6. ledger' \in [UserIds -> Ledger]
  <2>1. ledger \in [UserIds -> Ledger]
    BY DEF TypeOK
  <2>2. RotationKeys(local) \in SUBSET (Reasons \X Nat \X Nat)
    BY <1>2, RotationKeysType
  <2>3. Credits - Renewed(local.held) \in Int
    <3>1. Rotated(local).used = Renewed(local.held)
      BY <1>2 DEF Rotated, Row, Account
    <3>2. Renewed(local.held) \in Nat
      BY <1>4, <3>1 DEF Account
    <3>3. QED
      BY <3>2
  <2>4. ledger' = [ledger EXCEPT ![u] =
                     [keys |-> ledger[u].keys \cup RotationKeys(local),
                      balance |-> Credits - Renewed(local.held)]]
    BY DEF RotateCommit
  <2>5. ledger[u].keys \in SUBSET (Reasons \X Nat \X Nat)
    BY <1>3, <2>1 DEF Ledger
  <2>6. [keys |-> ledger[u].keys \cup RotationKeys(local),
         balance |-> Credits - Renewed(local.held)] \in Ledger
    BY <2>2, <2>3, <2>5 DEF Ledger
  <2>7. QED
    BY <2>1, <2>4, <2>6
<1>7. \A v \in UserIds : IsFiniteSet(ledger'[v].keys)
  <2>1. IsFiniteSet(RotationKeys(local))
    BY <1>2, RotationKeysFinite
  <2>2. IsFiniteSet(ledger[u].keys \cup RotationKeys(local))
    BY <1>3, <2>1, FS_Union DEF TypeOK
  <2>3. QED
    BY <1>3, <2>2 DEF RotateCommit, TypeOK
<1>8. keywords' \in [KeywordIds -> Keyword \cup {None}]
  BY DEF RotateCommit, TypeOK
<1>9. [id |-> u, account |-> Rotated(local)] \in Row
  BY <1>3, <1>4 DEF Row
<1>10. UpToDate(t, local.since, local.row, [id |-> u, account |-> Rotated(local)])
        \in LocalStates
  BY <1>1, <1>2, <1>9, UpToDateType
<1>11. Committed(t, UpToDate(t, local.since, local.row,
                             [id |-> u, account |-> Rotated(local)]))
  BY DEF RotateCommit
<1>12. QED
  BY <1>5, <1>6, <1>7, <1>8, <1>10, <1>11, CommittedType

LEMMA KeepCycleType ==
  ASSUME TypeOK, NEW t \in Threads, KeepCycle(t)
  PROVE  TypeOK'
<1>1. thread[t].pc = "loaded"
  BY DEF KeepCycle
<1>2. PICK row \in FirstRow(t), now \in thread[t].since..clock :
        Proceed(t, UpToDate(t, now, row, row))
  BY DEF KeepCycle
<1>3. thread[t].todo \subseteq Row /\ thread[t].since \in Time
  BY <1>1, LocalTypes
<1>4. row \in Row /\ now \in Time
  BY <1>3 DEF FirstRow, TypeOK, Time
<1>5. QED
  BY <1>1, <1>2, <1>4, UpToDateType, ProceedType

LEMMA SignInCommitType ==
  ASSUME TypeOK, NEW t \in Threads, SignInCommit(t)
  PROVE  TypeOK'
<1>1. /\ thread[t].email \in Emails
      /\ thread[t].existing \subseteq UserIds
  BY LocalTypes DEF SignInCommit
<1>2. CASE \E u \in thread[t].existing :
             /\ Committed(t, [pc |-> "found", id |-> u])
             /\ UNCHANGED <<users, keywords, ledger>>
  <2>1. PICK u \in thread[t].existing :
          /\ Committed(t, [pc |-> "found", id |-> u])
          /\ UNCHANGED <<users, keywords, ledger>>
    BY <1>2
  <2>2. [pc |-> "found", id |-> u] \in LocalStates
    BY <1>1 DEF LocalStates
  <2>3. QED
    BY <2>1, <2>2, CommittedType DEF TypeOK
<1>3. CASE \E u \in NextRowId(Live, UserIds) :
             /\ users' = [users EXCEPT ![u] = NewAccount(thread[t].email)]
             /\ ledger' = [ledger EXCEPT ![u] =
                  [keys |-> {<<"initial-free-grant", 0, 0>>},
                   balance |-> Credits]]
             /\ Committed(t, [pc |-> "found", id |-> u])
             /\ UNCHANGED keywords
  <2>1. PICK u \in NextRowId(Live, UserIds) :
             /\ users' = [users EXCEPT ![u] = NewAccount(thread[t].email)]
             /\ ledger' = [ledger EXCEPT ![u] =
                  [keys |-> {<<"initial-free-grant", 0, 0>>},
                   balance |-> Credits]]
             /\ Committed(t, [pc |-> "found", id |-> u])
             /\ UNCHANGED keywords
    BY <1>3
  <2>2. u \in UserIds
    BY DEF NextRowId
  <2>3. [pc |-> "found", id |-> u] \in LocalStates
    BY <2>2 DEF LocalStates
  <2>4. NewAccount(thread[t].email) \in Account
    BY <1>1 DEF NewAccount, Account, TypeOK, Time
  <2>5. [keys |-> {<<"initial-free-grant", 0, 0>>}, balance |-> Credits] \in Ledger
    BY DEF Ledger, Reasons
  <2>6. \A v \in UserIds : IsFiniteSet(ledger'[v].keys)
    BY <2>1, <2>2, FS_Singleton DEF TypeOK
  <2>7. ledger' \in [UserIds -> Ledger] /\ users' \in [UserIds -> Account \cup {None}]
    BY <2>1, <2>2, <2>4, <2>5 DEF TypeOK
  <2>8. keywords' \in [KeywordIds -> Keyword \cup {None}]
    BY <2>1 DEF TypeOK
  <2>9. QED
    BY <2>1, <2>3, <2>6, <2>7, <2>8, CommittedType
<1>4. QED
  BY <1>2, <1>3 DEF SignInCommit

LEMMA DebitKeyType ==
  ASSUME NEW k \in KeywordIds, NEW u, IsFiniteSet(ledger[u].keys)
  PROVE  DebitKey(u, k) \in Reasons \X Nat \X Nat
<1> DEFINE debits == {key \in ledger[u].keys : key[1] = "keyword"}
<1>1. IsFiniteSet(debits)
  BY FS_Subset
<1>2. Cardinality(debits) \in Nat
  BY <1>1, FS_CardinalityType
<1>3. QED
  BY <1>2 DEF DebitKey, Reasons, KeywordIds

LEMMA AddCommitType ==
  ASSUME TypeOK, NEW t \in Threads, AddCommit(t)
  PROVE  TypeOK'
<1> DEFINE u == thread[t].id
<1>1. /\ u \in UserIds
      /\ thread[t].word \in Words
      /\ thread[t].balance \in Int
  BY LocalTypes DEF AddCommit
<1>2. PICK k \in KeywordIds :
        /\ keywords' = [keywords EXCEPT ![k] = [user |-> u, word |-> thread[t].word]]
        /\ ledger' = [ledger EXCEPT ![u] =
             [keys |-> ledger[u].keys \cup {DebitKey(u, k)},
              balance |-> thread[t].balance - 1]]
  BY DEF AddCommit, NextRowId
<1>3. keywords' \in [KeywordIds -> Keyword \cup {None}]
  BY <1>1, <1>2 DEF TypeOK, Keyword
<1>4. users' \in [UserIds -> Account \cup {None}]
  <2>1. users[u] \in Account
    BY DEF AddCommit, Live, TypeOK
  <2>2. [users[u] EXCEPT !.used = @ + 1] \in Account
    BY <2>1 DEF Account
  <2>3. users' = [users EXCEPT ![u] = [users[u] EXCEPT !.used = @ + 1]]
    BY DEF AddCommit
  <2>4. QED
    BY <2>2, <2>3 DEF TypeOK
<1>5. /\ ledger' \in [UserIds -> Ledger]
      /\ \A v \in UserIds : IsFiniteSet(ledger'[v].keys)
  <2>1. ledger[u] \in Ledger /\ IsFiniteSet(ledger[u].keys)
    BY <1>1 DEF TypeOK
  <2>2. DebitKey(u, k) \in Reasons \X Nat \X Nat
    BY <2>1, DebitKeyType
  <2>3. [keys |-> ledger[u].keys \cup {DebitKey(u, k)},
         balance |-> thread[t].balance - 1] \in Ledger
    BY <1>1, <2>1, <2>2 DEF Ledger
  <2>4. IsFiniteSet(ledger[u].keys \cup {DebitKey(u, k)})
    BY <2>1, FS_AddElement
  <2>5. QED
    BY <1>1, <1>2, <2>3, <2>4 DEF TypeOK
<1>6. Committed(t, Idle) /\ Idle \in LocalStates
  BY DEF AddCommit, LocalStates
<1>7. QED
  BY <1>3, <1>4, <1>5, <1>6, CommittedType

(* Types are preserved by every step. *)
LEMMA NextTypeOK == TypeOK /\ [Next]_vars => TypeOK'
<1> SUFFICES ASSUME TypeOK, [Next]_vars PROVE TypeOK'
  OBVIOUS
<1>1. CASE Tick
  BY <1>1 DEF Tick, TypeOK
<1>2. ASSUME NEW t \in Threads, NEW e \in Emails, NEW consent \in BOOLEAN,
             SignInBegin(t, e, consent)
      PROVE  TypeOK'
  <2> DEFINE local == [pc |-> "signing", email |-> e,
                       existing |-> {u \in Live : users[u].email = e}]
  <2>1. local \in LocalStates
    BY DEF LocalStates, Live
  <2>2. QED
    BY <1>2, <2>1, BeginType DEF SignInBegin
<1>3. ASSUME NEW t \in Threads, SignInCommit(t) PROVE TypeOK'
  BY <1>3, SignInCommitType
<1>4. ASSUME NEW t \in Threads, NEW u \in UserIds, FindSession(t, u) PROVE TypeOK'
  <2>1. [pc |-> "found", id |-> u] \in LocalStates
    BY DEF LocalStates
  <2>2. QED
    BY <1>4, <2>1, ProceedType DEF FindSession
<1>5. ASSUME NEW t \in Threads, ReadUser(t) PROVE TypeOK'
  <2>1. thread[t].id \in Live
    BY <1>5 DEF ReadUser
  <2>2. Loaded({RowOf(thread[t].id)}, FALSE) \in LocalStates
    BY <2>1, RowOfType DEF Loaded, LocalStates, TypeOK, Time
  <2>3. QED
    BY <1>5, <2>2, ProceedType DEF ReadUser
<1>6. ASSUME NEW t \in Threads, ReadHolders(t) PROVE TypeOK'
  <2>1. {RowOf(u) : u \in {v \in Live : Held(v) # {}}} \subseteq Row
    BY RowOfType
  <2>2. Loaded({RowOf(u) : u \in {v \in Live : Held(v) # {}}}, TRUE) \in LocalStates
    BY <2>1 DEF Loaded, LocalStates, TypeOK, Time
  <2>3. QED
    BY <1>6, <2>2, ProceedType DEF ReadHolders
<1>7. ASSUME NEW t \in Threads, KeepCycle(t) PROVE TypeOK'
  BY <1>7, KeepCycleType
<1>8. ASSUME NEW t \in Threads, RotateBegin(t) PROVE TypeOK'
  BY <1>8, RotateBeginType
<1>9. ASSUME NEW t \in Threads, RotateCommit(t) PROVE TypeOK'
  BY <1>9, RotateCommitType
<1>10. ASSUME NEW t \in Threads, NEW w \in Words, AddBegin(t, w) PROVE TypeOK'
  <2> DEFINE u == thread[t].row.id
             local == [pc |-> "adding", id |-> u, word |-> w,
                       balance |-> users[u].available - users[u].used]
  <2>1. u \in UserIds /\ users[u] \in Account
    BY <1>10 DEF AddBegin, Live, TypeOK
  <2>2. local \in LocalStates
    BY <2>1 DEF LocalStates, Account
  <2>3. QED
    BY <1>10, <2>2, BeginType DEF AddBegin
<1>11. ASSUME NEW t \in Threads, AddCommit(t) PROVE TypeOK'
  BY <1>11, AddCommitType
<1>12. ASSUME NEW t \in Threads, NEW k \in KeywordIds, DeleteKeyword(t, k)
       PROVE  TypeOK'
  <2>1. Idle \in LocalStates
    BY DEF LocalStates
  <2>2. Committed(t, Idle)
    BY <1>12 DEF DeleteKeyword
  <2>3. users' = users /\ ledger' = ledger /\ keywords' = [keywords EXCEPT ![k] = None]
    BY <1>12 DEF DeleteKeyword, AfterKeywordDelete
  <2>4. QED
    BY <2>1, <2>2, <2>3, CommittedType DEF TypeOK
<1>13. ASSUME NEW t \in Threads, DeleteUser(t) PROVE TypeOK'
  <2>1. Idle \in LocalStates
    BY DEF LocalStates
  <2>2. NoLedger \in Ledger /\ IsFiniteSet(NoLedger.keys)
    BY FS_EmptySet DEF NoLedger, Ledger
  <2>3. PICK u \in Live : /\ users' = [users EXCEPT ![u] = None]
                          /\ keywords' = Cascade(u)
                          /\ ledger' = [ledger EXCEPT ![u] = NoLedger]
    BY <1>13 DEF DeleteUser
  <2>4. /\ users' \in [UserIds -> Account \cup {None}]
        /\ keywords' \in [KeywordIds -> Keyword \cup {None}]
        /\ ledger' \in [UserIds -> Ledger]
        /\ \A v \in UserIds : IsFiniteSet(ledger'[v].keys)
    BY <2>2, <2>3 DEF Cascade, TypeOK
  <2>5. QED
    BY <1>13, <2>1, <2>4, CommittedType DEF DeleteUser
<1>14. ASSUME NEW t \in Threads, Abandon(t) PROVE TypeOK'
  <2>1. Idle \in LocalStates
    BY DEF LocalStates
  <2>2. QED
    BY <1>14, <2>1, ProceedType DEF Abandon
<1>15. CASE UNCHANGED vars
  BY <1>15 DEF vars, TypeOK
<1>16. QED
  BY <1>1, <1>2, <1>3, <1>4, <1>5, <1>6, <1>7, <1>8, <1>9, <1>10, <1>11, <1>12,
     <1>13, <1>14, <1>15 DEF Next

(* The tables and the threads are well-formed in every reachable state. *)
THEOREM TypeCorrect == Spec => []TypeOK
BY InitTypeOK, NextTypeOK, PTL DEF Spec

-----------------------------------------------------------------------------
(* The part of CreditInv that is about the tables only. *)
TablesInv == KeywordsHaveOwner /\ CreditsCoverKeywords

LEMMA InitCreditInv == Init => CreditInv
<1> SUFFICES ASSUME Init PROVE CreditInv
  OBVIOUS
<1>1. TypeOK
  BY InitTypeOK
<1>2. Live = {} /\ \A k \in KeywordIds : keywords[k] = None
  BY DEF Init, Live
<1>3. SnapshotsCurrent
  BY DEF Init, SnapshotsCurrent
<1>4. QED
  BY <1>1, <1>2, <1>3 DEF CreditInv, KeywordsHaveOwner, CreditsCoverKeywords

(* Steps that leave the tables alone. *)
LEMMA TablesUnchanged ==
  ASSUME TablesInv, UNCHANGED <<users, keywords>>
  PROVE  /\ TablesInv'
         /\ Live' = Live
         /\ \A u : Held(u)' = Held(u)
<1>1. Live' = Live /\ \A u : Held(u)' = Held(u)
  BY DEF Live, Held
<1>2. QED
  BY <1>1 DEF TablesInv, KeywordsHaveOwner, CreditsCoverKeywords

LEMMA ProceedInv ==
  ASSUME CreditInv, NEW t \in Threads, NEW local, Proceed(t, local)
  PROVE  SnapshotsCurrent' /\ TablesInv'
<1>1. TablesInv' /\ Live' = Live /\ \A u : Held(u)' = Held(u)
  BY TablesUnchanged DEF CreditInv, TablesInv, Proceed
<1>2. SnapshotsCurrent'
  <2> SUFFICES ASSUME NEW s \in fresh'
               PROVE  /\ s \in fresh
                      /\ thread'[s] = thread[s]
                      /\ users' = users
    BY <1>1 DEF CreditInv, SnapshotsCurrent
  <2>1. QED
    BY DEF Proceed, CreditInv, TypeOK
<1>3. QED
  BY <1>1, <1>2

LEMMA BeginInv ==
  ASSUME CreditInv, NEW t \in Threads, NEW local, Begin(t, local),
         local.pc = "rotating" => local.held = Held(local.row.id),
         local.pc = "adding" =>
            /\ local.id \in Live
            /\ local.balance = users[local.id].available - users[local.id].used
            /\ local.balance >= 1,
         local.pc = "signing" =>
            local.existing = {u \in Live : users[u].email = local.email}
  PROVE  SnapshotsCurrent' /\ TablesInv'
<1>1. TablesInv' /\ Live' = Live /\ \A u : Held(u)' = Held(u)
  BY TablesUnchanged DEF CreditInv, TablesInv, Begin
<1>2. users' = users
  BY DEF Begin
<1>3. SnapshotsCurrent'
  <2> SUFFICES ASSUME NEW s \in fresh'
               PROVE  \/ s \in fresh /\ thread'[s] = thread[s]
                      \/ thread'[s] = local
    BY <1>1, <1>2 DEF CreditInv, SnapshotsCurrent
  <2>1. QED
    BY DEF Begin, CreditInv, TypeOK
<1>4. QED
  BY <1>1, <1>3

LEMMA CommittedFresh ==
  ASSUME NEW t, NEW local, Committed(t, local)
  PROVE  SnapshotsCurrent'
BY DEF Committed, SnapshotsCurrent

LEMMA SignInCommitInv ==
  ASSUME CreditInv, NEW t \in Threads, SignInCommit(t)
  PROVE  TablesInv'
<1>1. CASE UNCHANGED <<users, keywords>>
  BY <1>1, TablesUnchanged DEF CreditInv, TablesInv
<1>2. CASE \E u \in NextRowId(Live, UserIds) :
             /\ users' = [users EXCEPT ![u] = NewAccount(thread[t].email)]
             /\ UNCHANGED keywords
  <2>1. PICK u \in NextRowId(Live, UserIds) :
             /\ users' = [users EXCEPT ![u] = NewAccount(thread[t].email)]
             /\ UNCHANGED keywords
    BY <1>2
  <2>2. u \in UserIds /\ u \notin Live
    BY DEF NextRowId, UserIds, Live
  <2>3. thread[t].email \in Emails
    BY LocalTypes DEF SignInCommit, CreditInv
  <2>4. NewAccount(thread[t].email) \in Account
    BY <2>3 DEF NewAccount, Account, CreditInv, TypeOK, Time
  <2>5. Live' = Live \cup {u}
    BY <2>1, <2>2, <2>4 DEF Live, CreditInv, TypeOK
  <2>6. \A v : Held(v)' = Held(v)
    BY <2>1 DEF Held
  <2>7. Held(u) = {}
    BY <2>2 DEF CreditInv, KeywordsHaveOwner, Held
  <2>8. KeywordsHaveOwner'
    BY <2>1, <2>5 DEF CreditInv, KeywordsHaveOwner
  <2>9. CreditsCoverKeywords'
    <3> SUFFICES ASSUME NEW v \in Live'
                 PROVE  /\ Cardinality(Held(v)') <= users'[v].used
                        /\ users'[v].used <= users'[v].available
                        /\ users'[v].available = Credits
      BY DEF CreditsCoverKeywords
    <3>1. CASE v = u
      <4>1. users'[u] = NewAccount(thread[t].email)
        BY <2>1, <2>2 DEF CreditInv, TypeOK
      <4>2. Cardinality(Held(u)') = 0
        BY <2>6, <2>7, FS_EmptySet
      <4>3. QED
        BY <3>1, <4>1, <4>2 DEF NewAccount
    <3>2. CASE v # u
      BY <2>1, <2>5, <2>6, <3>2 DEF CreditInv, CreditsCoverKeywords, TypeOK
    <3>3. QED
      BY <3>1, <3>2
  <2>10. QED
    BY <2>8, <2>9 DEF TablesInv
<1>3. QED
  BY <1>1, <1>2 DEF SignInCommit

(* The rotation: the new counters cover the keywords of the snapshot, which are
   those of the account; if the row had left the cycle, nothing moves. *)
LEMMA RotateCommitInv ==
  ASSUME CreditInv, NEW t \in Threads, RotateCommit(t)
  PROVE  TablesInv'
<1> DEFINE local == thread[t]
           u == local.row.id
           n == Cardinality(Held(u))
<1>1. /\ u \in Live
      /\ local.held = Held(u)
      /\ local.row \in Row
      /\ local.start \in 0..MaxClock
  BY LocalTypes DEF RotateCommit, SnapshotHolds, CreditInv, SnapshotsCurrent
<1>2. \A v : Held(v)' = Held(v)
  BY DEF RotateCommit, Held
<1>3. /\ n \in Nat
      /\ n <= users[u].used
      /\ users[u].used \in Nat
      /\ users[u].used <= Credits
      /\ users[u] \in Account
  BY <1>1, HeldFinite DEF CreditInv, CreditsCoverKeywords, Live, TypeOK, Account
<1>4. Renewed(local.held) = n
  BY <1>1, <1>3 DEF Renewed, AtMostCredits
<1>5. CASE users' = users
  BY <1>5, TablesUnchanged DEF RotateCommit, CreditInv, TablesInv
<1>6. CASE users' = [users EXCEPT ![u] =
                       [Rotated(local) EXCEPT !.email = users[u].email]]
  <2> DEFINE new == [Rotated(local) EXCEPT !.email = users[u].email]
  <2>1. Rotated(local) \in Account
    BY <1>1, RotatedType DEF Held
  <2>2. /\ Rotated(local).used = n
        /\ Rotated(local).available = Credits
    BY <1>1, <1>4 DEF Rotated, Row, Account
  <2>3. /\ new \in Account
        /\ new.used = n
        /\ new.available = Credits
    BY <1>3, <2>1, <2>2 DEF Account
  <2> HIDE DEF new
  <2>4. u \in UserIds /\ users'[u] = new
    BY <1>1, <1>6 DEF CreditInv, TypeOK, Live, new
  <2>5. \A v \in UserIds : v # u => users'[v] = users[v]
    BY <1>6 DEF CreditInv, TypeOK
  <2>6. Live' = Live
    BY <1>1, <2>3, <2>4, <2>5 DEF Live
  <2>7. KeywordsHaveOwner'
    BY <2>6 DEF CreditInv, KeywordsHaveOwner, RotateCommit
  <2>8. CreditsCoverKeywords'
    <3> SUFFICES ASSUME NEW v \in Live
                 PROVE  /\ Cardinality(Held(v)) <= users'[v].used
                        /\ users'[v].used <= users'[v].available
                        /\ users'[v].available = Credits
      BY <1>2, <2>6 DEF CreditsCoverKeywords
    <3>1. CASE v = u
      BY <1>3, <2>3, <2>4, <3>1
    <3>2. CASE v # u
      BY <2>5, <3>2 DEF CreditInv, CreditsCoverKeywords, Live
    <3>3. QED
      BY <3>1, <3>2
  <2>9. QED
    BY <2>7, <2>8 DEF TablesInv
<1>7. QED
  BY <1>5, <1>6 DEF RotateCommit, RotateCounters

(* The account of a new keyword holds it, the others hold what they held. *)
LEMMA HeldAfterAdd ==
  ASSUME TypeOK, NEW u \in UserIds, NEW k \in KeywordIds, NEW w \in Words,
         keywords[k] = None,
         keywords' = [keywords EXCEPT ![k] = [user |-> u, word |-> w]]
  PROVE  /\ keywords'[k] # None
         /\ keywords'[k].user = u
         /\ \A j \in KeywordIds : j # k => keywords'[j] = keywords[j]
         /\ Held(u)' = Held(u) \cup {k}
         /\ \A v \in UserIds : v # u => Held(v)' = Held(v)
<1>1. [user |-> u, word |-> w] \in Keyword
  BY DEF Keyword
<1>2. /\ keywords'[k] # None
      /\ keywords'[k].user = u
      /\ \A j \in KeywordIds : j # k => keywords'[j] = keywords[j]
  BY <1>1 DEF TypeOK
<1>3. \A v : \A j \in KeywordIds :
        j \in Held(v)' <=> (j = k /\ v = u) \/ (j # k /\ j \in Held(v))
  BY <1>2 DEF Held
<1>4. \A v : Held(v) \subseteq KeywordIds /\ Held(v)' \subseteq KeywordIds
  BY DEF Held
<1>5. k \notin Held(u)
  BY DEF Held
<1>6. Held(u)' = Held(u) \cup {k}
  BY <1>3, <1>4
<1>7. \A v \in UserIds : v # u => Held(v)' = Held(v)
  <2> SUFFICES ASSUME NEW v \in UserIds, v # u
               PROVE  \A j \in KeywordIds : j \in Held(v)' <=> j \in Held(v)
    BY <1>4
  <2>1. k \notin Held(v)
    BY DEF Held
  <2>2. QED
    BY <1>3, <2>1
<1>8. QED
  BY <1>2, <1>6, <1>7

LEMMA OneMore ==
  ASSUME NEW S, NEW x, IsFiniteSet(S)
  PROVE  /\ Cardinality(S) \in Nat
         /\ Cardinality(S \cup {x}) \in Nat
         /\ Cardinality(S \cup {x}) <= Cardinality(S) + 1
<1>1. Cardinality(S) \in Nat
  BY FS_CardinalityType
<1>2. \/ Cardinality(S \cup {x}) = Cardinality(S)
      \/ Cardinality(S \cup {x}) = Cardinality(S) + 1
  <2>1. Cardinality(S \cup {x}) =
          IF x \in S THEN Cardinality(S) ELSE Cardinality(S) + 1
    BY FS_AddElement
  <2>2. QED
    BY <2>1
<1>3. QED
  BY <1>1, <1>2

LEMMA NextRowIdIsNew ==
  ASSUME NEW taken, NEW n \in Nat, NEW k \in NextRowId(taken, 1..n)
  PROVE  k \in 1..n /\ k \notin taken
BY DEF NextRowId

LEMMA AddCommitInv ==
  ASSUME CreditInv, NEW t \in Threads, AddCommit(t)
  PROVE  TablesInv'
<1>1. PICK u \in Live : u = thread[t].id
  BY DEF AddCommit
<1>2. /\ users[u].available - users[u].used >= 1
      /\ thread[t].word \in Words
  BY <1>1, LocalTypes DEF AddCommit, SnapshotHolds, CreditInv, SnapshotsCurrent
<1>3. PICK k \in NextRowId({j \in KeywordIds : keywords[j] # None}, KeywordIds) :
        keywords' = [keywords EXCEPT ![k] = [user |-> u, word |-> thread[t].word]]
  BY <1>1 DEF AddCommit
<1>4. k \in KeywordIds /\ keywords[k] = None
  BY <1>3, NextRowIdIsNew DEF KeywordIds
<1>5. users' = [users EXCEPT ![u] = [users[u] EXCEPT !.used = @ + 1]]
  BY <1>1 DEF AddCommit
<1>6. /\ u \in UserIds
      /\ users[u] \in Account
  BY DEF Live, CreditInv, TypeOK
<1>7. /\ [users[u] EXCEPT !.used = @ + 1] \in Account
      /\ [users[u] EXCEPT !.used = @ + 1].used = users[u].used + 1
      /\ [users[u] EXCEPT !.used = @ + 1].available = users[u].available
  BY <1>6 DEF Account
<1>8. /\ users'[u] \in Account
      /\ users'[u].used = users[u].used + 1
      /\ users'[u].available = users[u].available
      /\ \A v \in UserIds : v # u => users'[v] = users[v]
  BY <1>5, <1>6, <1>7 DEF CreditInv, TypeOK
<1>9. Live' = Live
  BY <1>8 DEF Live
<1>10. /\ keywords'[k] # None
       /\ keywords'[k].user = u
       /\ \A j \in KeywordIds : j # k => keywords'[j] = keywords[j]
       /\ Held(u)' = Held(u) \cup {k}
       /\ \A v \in UserIds : v # u => Held(v)' = Held(v)
  BY <1>2, <1>3, <1>4, <1>6, HeldAfterAdd DEF CreditInv
<1>11. KeywordsHaveOwner'
  BY <1>9, <1>10 DEF CreditInv, KeywordsHaveOwner
<1>12. CreditsCoverKeywords'
  <2> SUFFICES ASSUME NEW v \in Live
               PROVE  /\ Cardinality(Held(v)') <= users'[v].used
                      /\ users'[v].used <= users'[v].available
                      /\ users'[v].available = Credits
    BY <1>9 DEF CreditsCoverKeywords
  <2>1. CASE v = u
    <3>1. /\ Cardinality(Held(u)) <= users[u].used
          /\ users[u].available = Credits
      BY DEF CreditInv, CreditsCoverKeywords
    <3>2. /\ Cardinality(Held(u)) \in Nat
          /\ Cardinality(Held(u) \cup {k}) \in Nat
          /\ Cardinality(Held(u) \cup {k}) <= Cardinality(Held(u)) + 1
      BY HeldFinite, OneMore
    <3>3. users[u].used \in Nat
      BY <1>6 DEF Account
    <3>4. Cardinality(Held(u)') <= users[u].used + 1
      BY <1>10, <3>1, <3>2, <3>3
    <3>5. QED
      BY <1>2, <1>8, <2>1, <3>1, <3>3, <3>4
  <2>2. CASE v # u
    BY <1>8, <1>10, <2>2 DEF CreditInv, CreditsCoverKeywords, Live
  <2>3. QED
    BY <2>1, <2>2
<1>13. QED
  BY <1>11, <1>12 DEF TablesInv

LEMMA DeleteKeywordInv ==
  ASSUME CreditInv, NEW t \in Threads, NEW k \in KeywordIds, DeleteKeyword(t, k)
  PROVE  TablesInv'
<1>1. /\ users' = users
      /\ keywords' = [keywords EXCEPT ![k] = None]
  BY DEF DeleteKeyword, AfterKeywordDelete
<1>2. Live' = Live
  BY <1>1 DEF Live
<1>3. \A v : Held(v)' \subseteq Held(v)
  BY <1>1 DEF Held, CreditInv, TypeOK
<1>4. KeywordsHaveOwner'
  BY <1>1, <1>2 DEF CreditInv, KeywordsHaveOwner, TypeOK
<1>5. CreditsCoverKeywords'
  <2> SUFFICES ASSUME NEW v \in Live
               PROVE  Cardinality(Held(v)') <= users[v].used
    BY <1>1, <1>2 DEF CreditInv, CreditsCoverKeywords
  <2>1. Cardinality(Held(v)') <= Cardinality(Held(v))
    BY <1>3, HeldFinite, FS_Subset
  <2>2. Cardinality(Held(v)) <= users[v].used
    BY DEF CreditInv, CreditsCoverKeywords
  <2>3. /\ Cardinality(Held(v)) \in Nat
        /\ Cardinality(Held(v)') \in Nat
        /\ users[v].used \in Nat
    <3>1. IsFiniteSet(Held(v)')
      BY <1>3, HeldFinite, FS_Subset
    <3>2. Cardinality(Held(v)') \in Nat
      BY <3>1, FS_CardinalityType
    <3>3. QED
      BY <3>2, HeldFinite DEF Live, CreditInv, TypeOK, Account
  <2>4. QED
    BY <2>1, <2>2, <2>3
<1>6. QED
  BY <1>4, <1>5 DEF TablesInv

LEMMA DeleteUserInv ==
  ASSUME CreditInv, NEW t \in Threads, DeleteUser(t)
  PROVE  TablesInv'
<1>1. PICK u \in Live : /\ users' = [users EXCEPT ![u] = None]
                        /\ keywords' = Cascade(u)
  BY DEF DeleteUser
<1>2. Live' = Live \ {u}
  BY <1>1 DEF Live, CreditInv, TypeOK
<1>3. \A v \in UserIds : v # u => Held(v)' = Held(v)
  BY <1>1 DEF Held, Cascade
<1>4. KeywordsHaveOwner'
  BY <1>1, <1>2 DEF CreditInv, KeywordsHaveOwner, Cascade, Held
<1>5. CreditsCoverKeywords'
  BY <1>1, <1>2, <1>3 DEF CreditInv, CreditsCoverKeywords, Live, TypeOK
<1>6. QED
  BY <1>4, <1>5 DEF TablesInv

(* Every step keeps the inductive invariant. *)
LEMMA NextCreditInv == CreditInv /\ [Next]_vars => CreditInv'
<1> SUFFICES ASSUME CreditInv, [Next]_vars PROVE SnapshotsCurrent' /\ TablesInv'
  BY NextTypeOK DEF CreditInv, TablesInv
<1>1. CASE Tick
  BY <1>1, TablesUnchanged DEF Tick, CreditInv, SnapshotsCurrent, TablesInv
<1>2. ASSUME NEW t \in Threads, NEW e \in Emails, NEW consent \in BOOLEAN,
             SignInBegin(t, e, consent)
      PROVE  SnapshotsCurrent' /\ TablesInv'
  <2> DEFINE local == [pc |-> "signing", email |-> e,
                       existing |-> {u \in Live : users[u].email = e}]
  <2>1. Begin(t, local)
    BY <1>2 DEF SignInBegin
  <2>2. local.pc # "rotating" /\ local.pc # "adding"
    OBVIOUS
  <2>3. local.existing = {u \in Live : users[u].email = local.email}
    OBVIOUS
  <2>4. QED
    BY <2>1, <2>2, <2>3, BeginInv
<1>3. ASSUME NEW t \in Threads, SignInCommit(t) PROVE SnapshotsCurrent' /\ TablesInv'
  BY <1>3, SignInCommitInv, CommittedFresh DEF SignInCommit
<1>4. ASSUME NEW t \in Threads,
             \/ \E u \in UserIds : FindSession(t, u)
             \/ ReadUser(t)
             \/ ReadHolders(t)
             \/ KeepCycle(t)
             \/ Abandon(t)
      PROVE  SnapshotsCurrent' /\ TablesInv'
  <2>1. \E local : Proceed(t, local)
    BY <1>4 DEF FindSession, ReadUser, ReadHolders, KeepCycle, Abandon
  <2>2. QED
    BY <2>1, ProceedInv
<1>5. ASSUME NEW t \in Threads, RotateBegin(t) PROVE SnapshotsCurrent' /\ TablesInv'
  <2>1. PICK row, now, start :
               Begin(t, [pc |-> "rotating", todo |-> thread[t].todo,
                         since |-> now, batch |-> thread[t].batch, row |-> row,
                         start |-> start, held |-> Held(row.id)])
    BY <1>5 DEF RotateBegin
  <2> DEFINE local == [pc |-> "rotating", todo |-> thread[t].todo,
                       since |-> now, batch |-> thread[t].batch, row |-> row,
                       start |-> start, held |-> Held(row.id)]
  <2>2. /\ local.held = Held(local.row.id)
        /\ local.pc # "adding"
        /\ local.pc # "signing"
    OBVIOUS
  <2>3. QED
    BY <2>1, <2>2, BeginInv
<1>6. ASSUME NEW t \in Threads, RotateCommit(t) PROVE SnapshotsCurrent' /\ TablesInv'
  BY <1>6, RotateCommitInv, CommittedFresh DEF RotateCommit
<1>7. ASSUME NEW t \in Threads, NEW w \in Words, AddBegin(t, w)
      PROVE  SnapshotsCurrent' /\ TablesInv'
  <2>1. PICK u \in Live :
          /\ users[u].available - users[u].used >= 1
          /\ Begin(t, [pc |-> "adding", id |-> u, word |-> w,
                       balance |-> users[u].available - users[u].used])
    BY <1>7 DEF AddBegin
  <2> DEFINE local == [pc |-> "adding", id |-> u, word |-> w,
                       balance |-> users[u].available - users[u].used]
  <2>2. /\ local.pc # "rotating"
        /\ local.pc # "signing"
        /\ local.id \in Live
        /\ local.balance = users[local.id].available - users[local.id].used
        /\ local.balance >= 1
    BY <2>1
  <2>3. QED
    BY <2>1, <2>2, BeginInv
<1>8. ASSUME NEW t \in Threads, AddCommit(t) PROVE SnapshotsCurrent' /\ TablesInv'
  BY <1>8, AddCommitInv, CommittedFresh DEF AddCommit
<1>9. ASSUME NEW t \in Threads, NEW k \in KeywordIds, DeleteKeyword(t, k)
      PROVE  SnapshotsCurrent' /\ TablesInv'
  BY <1>9, DeleteKeywordInv, CommittedFresh DEF DeleteKeyword
<1>10. ASSUME NEW t \in Threads, DeleteUser(t) PROVE SnapshotsCurrent' /\ TablesInv'
  BY <1>10, DeleteUserInv, CommittedFresh DEF DeleteUser
<1>11. CASE UNCHANGED vars
  BY <1>11, TablesUnchanged DEF vars, CreditInv, SnapshotsCurrent, TablesInv
<1>12. QED
  BY <1>1, <1>2, <1>3, <1>4, <1>5, <1>6, <1>7, <1>8, <1>9, <1>10, <1>11 DEF Next

LEMMA CreditInvariant == Spec => []CreditInv
BY InitCreditInv, NextCreditInv, PTL DEF Spec

(* No account ever holds more keywords than it was charged for, nor is charged
   more than the plan gives, for any number of threads, accounts and keywords
   (the property of the same name, accounts.rs:285 and :390-452). *)
THEOREM CreditsCover == Spec => []CreditsCoverKeywords
BY CreditInvariant, PTL DEF CreditInv

-----------------------------------------------------------------------------
LedgersHaveOwner == \A u \in UserIds \ Live : ledger[u] = NoLedger

(* Ledger rows are written for live accounts only and go with them. *)
LEMMA NextLedgersHaveOwner ==
  CreditInv /\ LedgersHaveOwner /\ [Next]_vars => LedgersHaveOwner'
<1> SUFFICES ASSUME CreditInv, LedgersHaveOwner, [Next]_vars
             PROVE  LedgersHaveOwner'
  OBVIOUS
<1>1. CASE UNCHANGED <<users, ledger>>
  BY <1>1 DEF LedgersHaveOwner, Live
<1>2. ASSUME NEW u \in UserIds, NEW new \in Account,
             users' = [users EXCEPT ![u] = new],
             \A v \in UserIds : v # u => ledger'[v] = ledger[v]
      PROVE  LedgersHaveOwner'
  <2>1. Live' = Live \cup {u}
    BY <1>2 DEF Live, CreditInv, TypeOK
  <2>2. QED
    BY <1>2, <2>1 DEF LedgersHaveOwner
<1>3. ASSUME NEW t \in Threads, SignInCommit(t) PROVE LedgersHaveOwner'
  <2>1. CASE UNCHANGED <<users, ledger>>
    BY <1>1, <2>1
  <2>2. CASE \E u \in NextRowId(Live, UserIds) :
               /\ users' = [users EXCEPT ![u] = NewAccount(thread[t].email)]
               /\ ledger' = [ledger EXCEPT ![u] =
                    [keys |-> {<<"initial-free-grant", 0, 0>>},
                     balance |-> Credits]]
    <3>1. NewAccount(thread[t].email) \in Account
      BY <1>3, LocalTypes DEF SignInCommit, NewAccount, Account, CreditInv, TypeOK, Time
    <3>2. PICK u \in UserIds :
               /\ users' = [users EXCEPT ![u] = NewAccount(thread[t].email)]
               /\ ledger' = [ledger EXCEPT ![u] =
                    [keys |-> {<<"initial-free-grant", 0, 0>>},
                     balance |-> Credits]]
      BY <2>2 DEF NextRowId
    <3>3. \A v \in UserIds : v # u => ledger'[v] = ledger[v]
      BY <3>2 DEF CreditInv, TypeOK
    <3>4. QED
      BY <1>2, <3>1, <3>2, <3>3
  <2>3. QED
    BY <1>3, <2>1, <2>2 DEF SignInCommit
<1>4. ASSUME NEW t \in Threads, RotateCommit(t) \/ AddCommit(t)
      PROVE  LedgersHaveOwner'
  <2>1. PICK u \in Live : \A v \in UserIds : v # u => ledger'[v] = ledger[v]
    BY <1>4 DEF RotateCommit, AddCommit, CreditInv, TypeOK, Live
  <2>2. Live \subseteq Live'
    <3>1. CASE RotateCommit(t)
      <4>1. CASE users' = users
        BY <4>1 DEF Live
      <4>2. CASE users' = [users EXCEPT ![thread[t].row.id] =
                  [Rotated(thread[t]) EXCEPT !.email = users[thread[t].row.id].email]]
        <5>1. /\ thread[t].row \in Row
              /\ thread[t].start \in 0..MaxClock
              /\ thread[t].held \subseteq KeywordIds
              /\ thread[t].row.id \in Live
          BY <3>1, LocalTypes DEF RotateCommit, CreditInv
        <5>2. Rotated(thread[t]) \in Account
          BY <5>1, RotatedType
        <5>3. users[thread[t].row.id] \in Account
          BY <5>1 DEF Live, CreditInv, TypeOK
        <5>4. [Rotated(thread[t]) EXCEPT !.email = users[thread[t].row.id].email] # None
          BY <5>2, <5>3 DEF Account
        <5>5. QED
          BY <4>2, <5>1, <5>4 DEF Live, CreditInv, TypeOK
      <4>3. QED
        BY <3>1, <4>1, <4>2 DEF RotateCommit, RotateCounters
    <3>2. CASE AddCommit(t)
      <4>1. PICK w \in Live : users' = [users EXCEPT ![w].used = @ + 1]
        BY <3>2 DEF AddCommit
      <4>2. users[w] \in Account
        BY DEF Live, CreditInv, TypeOK
      <4>3. [users[w] EXCEPT !.used = @ + 1] # None
        BY <4>2 DEF Account
      <4>4. QED
        BY <4>1, <4>3 DEF Live, CreditInv, TypeOK
    <3>3. QED
      BY <1>4, <3>1, <3>2
  <2>3. QED
    BY <2>1, <2>2 DEF LedgersHaveOwner
<1>5. ASSUME NEW t \in Threads, NEW k \in KeywordIds, DeleteKeyword(t, k)
      PROVE  LedgersHaveOwner'
  BY <1>1, <1>5 DEF DeleteKeyword, AfterKeywordDelete
<1>6. ASSUME NEW t \in Threads, DeleteUser(t) PROVE LedgersHaveOwner'
  <2>1. PICK u \in Live : /\ users' = [users EXCEPT ![u] = None]
                          /\ ledger' = [ledger EXCEPT ![u] = NoLedger]
    BY <1>6 DEF DeleteUser
  <2>2. Live' = Live \ {u}
    BY <2>1 DEF Live, CreditInv, TypeOK
  <2>3. QED
    BY <2>1, <2>2 DEF LedgersHaveOwner, CreditInv, TypeOK
<1>7. CASE Next /\ ~ UNCHANGED <<users, ledger>>
  BY <1>3, <1>4, <1>5, <1>6, <1>7
     DEF Next, Tick, SignInBegin, FindSession, ReadUser, ReadHolders, KeepCycle,
         RotateBegin, AddBegin, Abandon, Begin, Proceed
<1>8. QED
  BY <1>1, <1>7 DEF vars

(* A reused row id starts from nothing, whatever requests were under way when
   its former owner left (the property of the same name; accounts.rs:465 and
   the cascades of db.rs:118-161). *)
THEOREM NothingIsInherited == Spec => []NothingInherited
<1>1. Init => LedgersHaveOwner
  BY DEF Init, LedgersHaveOwner
<1>2. CreditInv /\ LedgersHaveOwner => NothingInherited
  BY DEF CreditInv, KeywordsHaveOwner, LedgersHaveOwner, NothingInherited
<1>3. QED
  BY <1>1, <1>2, NextLedgersHaveOwner, CreditInvariant, PTL DEF Spec

-----------------------------------------------------------------------------
(* What keeps a late rotation out of a cycle that another one has begun: the
   cycle it writes starts no earlier than the end of the one it read. *)
CyclesInv ==
  /\ \A u \in Live : users[u].end = users[u].start + Year
  /\ \A t \in Threads :
       thread[t].pc = "rotating" => thread[t].start >= thread[t].row.account.end

(* One step of an account that lives on: its cycle stays well-formed, and unless a
   new cycle begins its credits are only spent. *)
Spends(u) ==
  /\ users'[u].end = users'[u].start + Year
  /\ users'[u].start = users[u].start => users'[u].used >= users[u].used

LEMMA RotateCommitSpends ==
  ASSUME TypeOK, CyclesInv, NEW t \in Threads, RotateCommit(t), NEW u \in Live
  PROVE  Spends(u)
<1> DEFINE local == thread[t]
           v == local.row.id
           new == [Rotated(local) EXCEPT !.email = users[v].email]
<1>1. /\ local.row \in Row
      /\ local.start \in 0..MaxClock
      /\ local.held \subseteq KeywordIds
      /\ local.start >= local.row.account.end
      /\ v \in Live
  BY LocalTypes DEF RotateCommit, CyclesInv
<1>2. /\ users[u] \in Account
      /\ users[u].end = users[u].start + Year
  BY DEF TypeOK, CyclesInv, Live
<1>3. CASE users'[u] = users[u]
  BY <1>2, <1>3 DEF Spends, Account
<1>4. CASE /\ u = v
           /\ users[v].end = local.row.account.end
           /\ users' = [users EXCEPT ![v] = new]
  <2>1. Rotated(local) \in Account
    BY <1>1, RotatedType
  <2>2. /\ Rotated(local).start = local.start
        /\ Rotated(local).end = local.start + Year
    BY <1>1 DEF Rotated, Row, Account
  <2>3. new.start = local.start /\ new.end = local.start + Year
    BY <2>1, <2>2 DEF Account
  <2> HIDE DEF new
  <2>4. users'[u] = new
    BY <1>4 DEF TypeOK, Live
  <2>5. local.start > users[u].start
    BY <1>1, <1>2, <1>4 DEF Account, Time
  <2>6. QED
    BY <1>1, <1>2, <2>3, <2>4, <2>5 DEF Spends, Account, Time
<1>5. QED
  BY <1>3, <1>4 DEF RotateCommit, RotateCounters, TypeOK, Live

LEMMA AddCommitSpends ==
  ASSUME TypeOK, CyclesInv, NEW t \in Threads, AddCommit(t), NEW u \in Live
  PROVE  Spends(u)
<1>1. /\ users[u] \in Account
      /\ users[u].end = users[u].start + Year
  BY DEF TypeOK, CyclesInv, Live
<1>2. CASE users'[u] = users[u]
  BY <1>1, <1>2 DEF Spends, Account
<1>3. CASE users'[u] = [users[u] EXCEPT !.used = @ + 1]
  <2>1. /\ users'[u].start = users[u].start
        /\ users'[u].end = users[u].end
        /\ users'[u].used = users[u].used + 1
    BY <1>1, <1>3 DEF Account
  <2>2. QED
    BY <1>1, <2>1 DEF Spends, Account
<1>4. QED
  <2>1. PICK v \in Live : users' = [users EXCEPT ![v] = [users[v] EXCEPT !.used = @ + 1]]
    BY DEF AddCommit
  <2>2. QED
    BY <1>2, <1>3, <2>1 DEF TypeOK, Live

(* Every step keeps the cycles well-formed and gives no credit back. *)
LEMMA NextSpends ==
  ASSUME TypeOK, CyclesInv, [Next]_vars
  PROVE  \A u \in Live : users'[u] # None => Spends(u)
<1> SUFFICES ASSUME NEW u \in Live, users'[u] # None PROVE Spends(u)
  OBVIOUS
<1>1. CASE users'[u] = users[u]
  BY <1>1 DEF Spends, TypeOK, CyclesInv, Live, Account
<1>2. ASSUME NEW t \in Threads, RotateCommit(t) \/ AddCommit(t) PROVE Spends(u)
  BY <1>2, RotateCommitSpends, AddCommitSpends
<1>3. ASSUME NEW t \in Threads, SignInCommit(t) PROVE users'[u] = users[u]
  <2>1. \A v \in NextRowId(Live, UserIds) : v # u
    BY DEF NextRowId, UserIds, Live
  <2>2. QED
    BY <1>3, <2>1 DEF SignInCommit, TypeOK, Live
<1>4. ASSUME NEW t \in Threads, DeleteUser(t) PROVE users'[u] = users[u]
  BY <1>4 DEF DeleteUser, TypeOK, Live
<1>5. QED
  BY <1>1, <1>2, <1>3, <1>4
     DEF Next, vars, Tick, SignInBegin, FindSession, ReadUser, ReadHolders, KeepCycle,
         RotateBegin, AddBegin, DeleteKeyword, AfterKeywordDelete, Abandon, Begin,
         Proceed

LEMMA NextCyclesInv ==
  ASSUME TypeOK, TypeOK', CyclesInv, [Next]_vars
  PROVE  CyclesInv'
<1>1. ASSUME NEW u \in Live' PROVE users'[u].end = users'[u].start + Year
  <2>1. CASE u \in Live
    BY <1>1, <2>1, NextSpends DEF Live, Spends
  <2>2. CASE u \notin Live
    <3>1. PICK e \in Emails : users'[u] = NewAccount(e)
      <4>1. users'[u] # users[u]
        BY <1>1, <2>2 DEF Live
      <4>2. PICK t \in Threads : SignInCommit(t)
        <5>1. ASSUME NEW t \in Threads, RotateCommit(t) \/ AddCommit(t) \/ DeleteUser(t)
              PROVE  FALSE
          BY <2>2, <4>1, <5>1
             DEF RotateCommit, RotateCounters, AddCommit, DeleteUser, TypeOK, Live
        <5>2. QED
          BY <4>1, <5>1
             DEF Next, vars, Tick, SignInBegin, FindSession, ReadUser, ReadHolders,
                 KeepCycle, RotateBegin, AddBegin, DeleteKeyword, AfterKeywordDelete,
                 Abandon, Begin, Proceed
      <4>3. thread[t].email \in Emails
        BY <4>2, LocalTypes DEF SignInCommit
      <4>4. users'[u] = NewAccount(thread[t].email)
        BY <1>1, <4>1, <4>2 DEF SignInCommit, TypeOK, Live
      <4>5. QED
        BY <4>3, <4>4
    <3>2. QED
      BY <3>1 DEF NewAccount
  <2>3. QED
    BY <2>1, <2>2
<1>2. ASSUME NEW t \in Threads, thread'[t].pc = "rotating"
      PROVE  thread'[t].start >= thread'[t].row.account.end
  <2>1. CASE thread'[t] = thread[t]
    BY <1>2, <2>1 DEF CyclesInv
  <2>2. CASE RotateBegin(t)
    <3>1. PICK row \in FirstRow(t), now \in thread[t].since..clock :
            \E start \in CycleStarts(row.account.end, now) :
              thread'[t].start = start /\ thread'[t].row = row
      BY <2>2 DEF RotateBegin, Begin, TypeOK
    <3>2. row \in Row
      BY <2>2, LocalTypes DEF RotateBegin, FirstRow
    <3>3. row.account.end \in Int
      BY <3>2 DEF Row, Account, Time
    <3>4. QED
      BY <3>1, <3>3 DEF CycleStarts
  <2>3. CASE ~ RotateBegin(t) /\ thread'[t] # thread[t]
    <3>1. ASSUME NEW s \in Threads, NEW local,
                 local.pc # "rotating",
                 thread' = [thread EXCEPT ![s] = local]
          PROVE  FALSE
      BY <1>2, <2>3, <3>1 DEF TypeOK
    <3>2. ASSUME NEW s \in Threads,
                 \/ \E e \in Emails, consent \in BOOLEAN : SignInBegin(s, e, consent)
                 \/ \E w \in Words : AddBegin(s, w)
          PROVE  FALSE
      BY <3>1, <3>2 DEF SignInBegin, AddBegin, Begin
    <3>3. ASSUME NEW s \in Threads,
                 \/ SignInCommit(s)
                 \/ AddCommit(s)
                 \/ \E k \in KeywordIds : DeleteKeyword(s, k)
                 \/ DeleteUser(s)
          PROVE  FALSE
      BY <3>1, <3>3
         DEF SignInCommit, AddCommit, DeleteKeyword, DeleteUser, Committed, Idle
    <3>4. ASSUME NEW s \in Threads,
                 \/ \E u \in UserIds : FindSession(s, u)
                 \/ ReadUser(s)
                 \/ ReadHolders(s)
                 \/ Abandon(s)
          PROVE  FALSE
      BY <3>1, <3>4
         DEF FindSession, ReadUser, ReadHolders, Abandon, Proceed, Loaded, Idle
    <3>5. ASSUME NEW s \in Threads, RotateCommit(s) \/ KeepCycle(s)
          PROVE  FALSE
      <4>1. PICK now, row, answer :
              thread' = [thread EXCEPT ![s] = UpToDate(s, now, row, answer)]
        BY <3>5 DEF RotateCommit, KeepCycle, Committed, Proceed
      <4>2. UpToDate(s, now, row, answer).pc # "rotating"
        BY DEF UpToDate
      <4>3. QED
        BY <3>1, <4>1, <4>2
    <3>6. ASSUME NEW s \in Threads, RotateBegin(s)
          PROVE  FALSE
      BY <2>3, <3>6 DEF RotateBegin, Begin, TypeOK
    <3>7. QED
      BY <2>3, <3>2, <3>3, <3>4, <3>5, <3>6 DEF Next, vars, Tick
  <2>4. QED
    BY <2>1, <2>2, <2>3
<1>3. QED
  BY <1>1, <1>2 DEF CyclesInv

(* Dropping and adding keywords in turn, a second login or a rotation that comes
   late give no credit back within a cycle (the property of the same name,
   accounts.rs:454 and the WHERE of accounts.rs:286-290). *)
THEOREM NoRefunds == Spec => NoRefund
<1> DEFINE IInv == TypeOK /\ CyclesInv
           Step == \A u \in UserIds :
                     users[u] # None /\ users'[u] # None /\ users'[u].start = users[u].start
                       => users'[u].used >= users[u].used
<1>1. Init => IInv
  BY InitTypeOK DEF Init, CyclesInv, Live, Idle
<1>2. IInv /\ [Next]_vars => IInv'
  BY NextTypeOK, NextCyclesInv
<1>3. IInv /\ [Next]_vars => [Step]_vars
  BY NextSpends DEF Spends, Live
<1> HIDE DEF IInv, Step
<1>4. Spec => [][Step]_vars
  BY <1>1, <1>2, <1>3, PTL DEF Spec
<1>5. QED
  BY <1>4 DEF NoRefund, Step

-----------------------------------------------------------------------------
Debits(keys) == {key \in keys : key[1] = "keyword"}

(* The debits of an account are numbered: the next number is a new one. *)
DebitsAreNumbered(keys) ==
  \A key \in Debits(keys) : key[3] <= Cardinality(Debits(keys))

NumberedInv == \A u \in UserIds : DebitsAreNumbered(ledger[u].keys)

LEMMA DebitsFinite ==
  ASSUME NEW keys, IsFiniteSet(keys)
  PROVE  /\ IsFiniteSet(Debits(keys))
         /\ Cardinality(Debits(keys)) \in Nat
<1>1. IsFiniteSet(Debits(keys))
  BY FS_Subset DEF Debits
<1>2. QED
  BY <1>1, FS_CardinalityType

(* Rows of the ledger that are no debits number nothing. *)
LEMMA OtherKeys ==
  ASSUME NEW keys, NEW more, \A key \in more : key[1] # "keyword",
         DebitsAreNumbered(keys)
  PROVE  DebitsAreNumbered(keys \cup more)
<1>1. Debits(keys \cup more) = Debits(keys)
  BY DEF Debits
<1>2. QED
  BY <1>1 DEF DebitsAreNumbered

(* A debit takes the number after those of the debits before it. *)
LEMMA OneDebitMore ==
  ASSUME NEW keys, IsFiniteSet(keys), \A key \in keys : key[3] \in Nat,
         DebitsAreNumbered(keys), NEW k
  PROVE  LET debit == <<"keyword", k, Cardinality(Debits(keys)) + 1>>
         IN debit \notin keys /\ DebitsAreNumbered(keys \cup {debit})
<1> DEFINE n == Cardinality(Debits(keys))
           debit == <<"keyword", k, n + 1>>
<1>1. n \in Nat /\ IsFiniteSet(Debits(keys))
  BY DebitsFinite
<1> HIDE DEF n
<1>2. debit[1] = "keyword" /\ debit[3] = n + 1
  OBVIOUS
<1> HIDE DEF debit
<1>3. debit \notin keys
  <2> SUFFICES ASSUME debit \in keys PROVE FALSE
    OBVIOUS
  <2>1. debit \in Debits(keys)
    BY <1>2 DEF Debits
  <2>2. n + 1 <= n
    BY <1>2, <2>1 DEF DebitsAreNumbered, n
  <2>3. QED
    BY <1>1, <2>2
<1>4. Debits(keys \cup {debit}) = Debits(keys) \cup {debit}
  BY <1>2 DEF Debits
<1>5. debit \notin Debits(keys)
  BY <1>3 DEF Debits
<1>6. Cardinality(Debits(keys \cup {debit})) = n + 1
  BY <1>1, <1>4, <1>5, FS_AddElement DEF n
<1>7. DebitsAreNumbered(keys \cup {debit})
  <2> SUFFICES ASSUME NEW key \in Debits(keys) \cup {debit}
               PROVE  key[3] <= n + 1
    BY <1>4, <1>6 DEF DebitsAreNumbered
  <2>1. CASE key \in Debits(keys)
    <3>1. key[3] \in Nat /\ key[3] <= n
      BY <2>1 DEF Debits, DebitsAreNumbered, n
    <3>2. QED
      BY <1>1, <3>1
  <2>2. CASE key = debit
    BY <1>1, <1>2, <2>2
  <2>3. QED
    BY <2>1, <2>2
<1>8. QED
  BY <1>3, <1>7 DEF debit, n

LEMMA LedgerKeys ==
  ASSUME TypeOK, NEW u \in UserIds
  PROVE  /\ IsFiniteSet(ledger[u].keys)
         /\ \A key \in ledger[u].keys : key[3] \in Nat
<1>1. ledger[u].keys \in SUBSET (Reasons \X Nat \X Nat)
  BY DEF TypeOK, Ledger
<1>2. QED
  BY <1>1 DEF TypeOK

LEMMA NextNumberedInv ==
  ASSUME TypeOK, NumberedInv, [Next]_vars
  PROVE  NumberedInv'
<1> SUFFICES ASSUME NEW u \in UserIds PROVE DebitsAreNumbered(ledger'[u].keys)
  BY DEF NumberedInv
<1>1. CASE ledger'[u] = ledger[u]
  BY <1>1 DEF NumberedInv
<1>2. ASSUME \A key \in ledger'[u].keys : key[1] # "keyword"
      PROVE  DebitsAreNumbered(ledger'[u].keys)
  BY <1>2 DEF DebitsAreNumbered, Debits
<1>3. ASSUME NEW t \in Threads, SignInCommit(t)
      PROVE  DebitsAreNumbered(ledger'[u].keys)
  <2>1. \/ ledger'[u] = ledger[u]
        \/ ledger'[u] = [keys |-> {<<"initial-free-grant", 0, 0>>}, balance |-> Credits]
    BY <1>3 DEF SignInCommit, TypeOK
  <2>2. QED
    BY <1>1, <1>2, <2>1
<1>4. ASSUME NEW t \in Threads, RotateCommit(t)
      PROVE  DebitsAreNumbered(ledger'[u].keys)
  <2>1. \/ ledger'[u] = ledger[u]
        \/ ledger'[u].keys = ledger[u].keys \cup RotationKeys(thread[t])
    BY <1>4 DEF RotateCommit, TypeOK
  <2>2. \A key \in RotationKeys(thread[t]) : key[1] # "keyword"
    <3>1. ASSUME NEW key \in RotationKeys(thread[t])
          PROVE  \E reason \in {"cycle-reset", "keyword-renewal"} : \E k :
                   key = <<reason, k, thread[t].start>>
      BY <3>1 DEF RotationKeys
    <3>2. QED
      BY <3>1
  <2>3. QED
    BY <1>1, <2>1, <2>2, OtherKeys DEF NumberedInv
<1>5. ASSUME NEW t \in Threads, AddCommit(t)
      PROVE  DebitsAreNumbered(ledger'[u].keys)
  <2>1. PICK v \in UserIds : \E k, b :
          ledger' = [ledger EXCEPT ![v] =
                       [keys |-> @.keys \cup {DebitKey(v, k)}, balance |-> b]]
    BY <1>5 DEF AddCommit, Live
  <2>2. PICK k, b :
          ledger' = [ledger EXCEPT ![v] =
                       [keys |-> @.keys \cup {DebitKey(v, k)}, balance |-> b]]
    BY <2>1
  <2>3. DebitKey(v, k) = <<"keyword", k, Cardinality(Debits(ledger[v].keys)) + 1>>
    BY DEF DebitKey, Debits
  <2>4. \/ ledger'[u] = ledger[u]
        \/ u = v /\ ledger'[u].keys = ledger[u].keys \cup {DebitKey(v, k)}
    BY <2>2 DEF TypeOK
  <2>5. QED
    BY <1>1, <2>3, <2>4, LedgerKeys, OneDebitMore DEF NumberedInv
<1>6. ASSUME NEW t \in Threads, DeleteUser(t)
      PROVE  DebitsAreNumbered(ledger'[u].keys)
  <2>1. ledger'[u] = ledger[u] \/ ledger'[u] = NoLedger
    BY <1>6 DEF DeleteUser, TypeOK
  <2>2. QED
    BY <1>1, <1>2, <2>1 DEF NoLedger
<1>7. QED
  BY <1>1, <1>3, <1>4, <1>5, <1>6
     DEF Next, vars, Tick, SignInBegin, FindSession, ReadUser, ReadHolders, KeepCycle,
         RotateBegin, AddBegin, DeleteKeyword, Abandon, Begin, Proceed

(* Ids of deleted keywords are used again, and yet the debit about to be written
   has a key of its own: its number is new (the property of the same name; the
   comment at accounts.rs:424). *)
THEOREM DebitKeysAreUnique == Spec => []DebitKeyUnused
<1>1. Init => NumberedInv
  BY DEF Init, NumberedInv, NoLedger, DebitsAreNumbered, Debits
<1>2. TypeOK /\ NumberedInv => DebitKeyUnused
  <2> SUFFICES ASSUME TypeOK, NumberedInv, NEW t \in Threads,
                      thread[t].pc = "adding", NEW k \in KeywordIds
               PROVE  DebitKey(thread[t].id, k) \notin ledger[thread[t].id].keys
    BY DEF DebitKeyUnused
  <2>1. PICK u \in UserIds : u = thread[t].id
    BY LocalTypes
  <2>2. <<"keyword", k, Cardinality(Debits(ledger[u].keys)) + 1>> \notin ledger[u].keys
    BY LedgerKeys, OneDebitMore DEF NumberedInv
  <2>3. QED
    BY <2>1, <2>2 DEF DebitKey, Debits
<1>3. TypeOK /\ NumberedInv /\ [Next]_vars => NumberedInv'
  BY NextNumberedInv
<1>4. QED
  BY <1>1, <1>2, <1>3, TypeCorrect, PTL DEF Spec

-----------------------------------------------------------------------------
(* What a renewal adds to the year that was read: whole years, that are over. *)
RenewalsAreDue ==
  \A t \in Threads :
    LET local == thread[t]
        end   == local.row.account.end
    IN /\ local.pc = "loaded" => local.since <= clock
       /\ local.pc = "rotating" =>
            /\ local.since <= clock
            /\ local.start <= clock
            /\ \E years \in Nat : years <= clock - end /\ local.start = end + years * Year

PlanInv ==
  /\ CreditInv
  /\ CyclesInv
  /\ RenewalsAreDue

(* The plan's view of the tables. *)
UsedOf == [u \in UserIds |-> IF u \in Live THEN users[u].used ELSE 0]
EndOf  == [u \in UserIds |-> IF u \in Live THEN users[u].end ELSE 0]
HeldOf == [u \in UserIds |-> Held(u)]

LEMMA NextRenewalsAreDue ==
  ASSUME TypeOK, CyclesInv, RenewalsAreDue, [Next]_vars
  PROVE  RenewalsAreDue'
<1> DEFINE Due(local) ==
             /\ local.pc = "loaded" => local.since <= clock
             /\ local.pc = "rotating" =>
                  /\ local.since <= clock
                  /\ local.start <= clock
                  /\ \E years \in Nat :
                       /\ years <= clock - local.row.account.end
                       /\ local.start = local.row.account.end + years * Year
<1>1. \A t \in Threads : Due(thread[t])
  BY DEF RenewalsAreDue
<1>2. SUFFICES ASSUME NEW t \in Threads PROVE Due(thread[t])'
  BY DEF RenewalsAreDue
<1>3. CASE clock' = clock /\ thread'[t] = thread[t]
  BY <1>1, <1>3
<1>4. CASE Tick
  <2>1. clock \in Nat /\ clock' = clock + 1 /\ thread' = thread
    BY <1>4 DEF Tick, TypeOK
  <2>2. CASE thread[t].pc = "loaded"
    BY <1>1, <2>1, <2>2, LocalTypes DEF Time
  <2>3. CASE thread[t].pc = "rotating"
    <3>1. /\ thread[t].since \in Nat
          /\ thread[t].start \in Nat
          /\ thread[t].row.account.end \in Nat
      BY <2>3, LocalTypes DEF Time, Row, Account
    <3>2. PICK years \in Nat :
            /\ years <= clock - thread[t].row.account.end
            /\ thread[t].start = thread[t].row.account.end + years * Year
      BY <1>1, <2>3
    <3>3. years <= clock' - thread[t].row.account.end
      BY <2>1, <3>1, <3>2
    <3>4. QED
      BY <1>1, <2>1, <2>3, <3>1, <3>2, <3>3
  <2>4. QED
    BY <2>1, <2>2, <2>3
<1>5. ASSUME NEW s \in Threads, NEW local, clock' = clock,
             thread' = [thread EXCEPT ![s] = local], Due(local)
      PROVE  Due(thread[t])'
  BY <1>1, <1>5 DEF TypeOK
<1>6. ASSUME NEW s \in Threads, RotateBegin(s) PROVE Due(thread[t])'
  <2>1. PICK row \in FirstRow(s), now \in thread[s].since..clock :
          \E start \in CycleStarts(row.account.end, now) :
            Begin(s, [pc |-> "rotating", todo |-> thread[s].todo,
                      since |-> now, batch |-> thread[s].batch, row |-> row,
                      start |-> start, held |-> Held(row.id)])
    BY <1>6 DEF RotateBegin
  <2>2. PICK start \in CycleStarts(row.account.end, now) :
          Begin(s, [pc |-> "rotating", todo |-> thread[s].todo,
                    since |-> now, batch |-> thread[s].batch, row |-> row,
                    start |-> start, held |-> Held(row.id)])
    BY <2>1
  <2>3. /\ row \in Row
        /\ thread[s].since \in Time
    BY <1>6, LocalTypes DEF RotateBegin, FirstRow
  <2>4. row.account.end \in Nat /\ now \in Nat /\ clock \in Nat /\ now <= clock
    BY <2>3 DEF Row, Account, Time, TypeOK
  <2>5. /\ start <= now
        /\ \E years \in Nat : /\ years <= now - row.account.end
                              /\ start = row.account.end + years * Year
    BY <2>4 DEF CycleStarts
  <2>6. start \in Int
    BY <2>4 DEF CycleStarts
  <2>7. start <= clock
    BY <2>4, <2>5, <2>6
  <2>8. \E years \in Nat : /\ years <= clock - row.account.end
                           /\ start = row.account.end + years * Year
    BY <2>4, <2>5
  <2>9. Due([pc |-> "rotating", todo |-> thread[s].todo,
             since |-> now, batch |-> thread[s].batch, row |-> row,
             start |-> start, held |-> Held(row.id)])
    BY <2>4, <2>7, <2>8
  <2> HIDE DEF Due
  <2>10. QED
    BY <1>5, <2>2, <2>9 DEF Begin
<1>7. ASSUME NEW s \in Threads, RotateCommit(s) \/ KeepCycle(s)
      PROVE  Due(thread[t])'
  <2>1. PICK now, row, answer :
          /\ now \in thread[s].since..clock
          /\ thread' = [thread EXCEPT ![s] = UpToDate(s, now, row, answer)]
          /\ clock' = clock
    <3>1. CASE RotateCommit(s)
      <4>1. thread[s].since \in thread[s].since..clock
        BY <1>1, <3>1, LocalTypes DEF RotateCommit, Time, TypeOK
      <4>2. QED
        BY <3>1, <4>1 DEF RotateCommit, Committed
    <3>2. CASE KeepCycle(s)
      BY <3>2 DEF KeepCycle, Proceed
    <3>3. QED
      BY <1>7, <3>1, <3>2
  <2>2. Due(UpToDate(s, now, row, answer))
    BY <2>1 DEF UpToDate
  <2> HIDE DEF Due
  <2>3. QED
    BY <1>5, <2>1, <2>2
<1>8. ASSUME NEW s \in Threads, ReadUser(s) \/ ReadHolders(s)
      PROVE  Due(thread[t])'
  <2>1. PICK rows, batch :
          /\ thread' = [thread EXCEPT ![s] = Loaded(rows, batch)]
          /\ clock' = clock
    BY <1>8 DEF ReadUser, ReadHolders, Proceed
  <2>2. Due(Loaded(rows, batch))
    BY DEF Loaded, TypeOK
  <2> HIDE DEF Due
  <2>3. QED
    BY <1>5, <2>1, <2>2
<1>9. ASSUME NEW s \in Threads, NEW local, clock' = clock,
             local.pc \notin {"loaded", "rotating"},
             thread' = [thread EXCEPT ![s] = local]
      PROVE  Due(thread[t])'
  BY <1>5, <1>9
<1>10. ASSUME NEW s \in Threads,
              \/ \E e \in Emails, consent \in BOOLEAN : SignInBegin(s, e, consent)
              \/ \E w \in Words : AddBegin(s, w)
       PROVE  Due(thread[t])'
  <2> HIDE DEF Due
  <2>1. QED
    BY <1>9, <1>10 DEF SignInBegin, AddBegin, Begin
<1>11. ASSUME NEW s \in Threads,
              \/ SignInCommit(s)
              \/ AddCommit(s)
              \/ \E k \in KeywordIds : DeleteKeyword(s, k)
              \/ DeleteUser(s)
       PROVE  Due(thread[t])'
  <2> HIDE DEF Due
  <2>1. QED
    BY <1>9, <1>11 DEF SignInCommit, AddCommit, DeleteKeyword, DeleteUser, Committed, Idle
<1>12. ASSUME NEW s \in Threads,
              (\E u \in UserIds : FindSession(s, u)) \/ Abandon(s)
       PROVE  Due(thread[t])'
  <2> HIDE DEF Due
  <2>1. QED
    BY <1>9, <1>12 DEF FindSession, Abandon, Proceed, Idle
<1> HIDE DEF Due
<1>13. QED
  BY <1>3, <1>4, <1>6, <1>7, <1>8, <1>10, <1>11, <1>12 DEF Next, vars

-----------------------------------------------------------------------------
(* The plan sees the tables through the live rows: what a step does to them is
   what it does to Live, UsedOf, EndOf and Held.  A step about one account
   changes what the plan says of this one only. *)
LEMMA OneAccount ==
  ASSUME NEW u \in UserIds,
         \A v \in UserIds : v # u => /\ v \in Live' <=> v \in Live
                                    /\ users'[v] = users[v]
                                    /\ Held(v)' = Held(v)
  PROVE  /\ UsedOf' = [UsedOf EXCEPT ![u] = IF u \in Live' THEN users'[u].used ELSE 0]
         /\ EndOf' = [EndOf EXCEPT ![u] = IF u \in Live' THEN users'[u].end ELSE 0]
         /\ HeldOf' = [HeldOf EXCEPT ![u] = Held(u)']
<1>1. UsedOf' = [UsedOf EXCEPT ![u] = IF u \in Live' THEN users'[u].used ELSE 0]
  BY DEF UsedOf
<1>2. EndOf' = [EndOf EXCEPT ![u] = IF u \in Live' THEN users'[u].end ELSE 0]
  BY DEF EndOf
<1>3. HeldOf' = [HeldOf EXCEPT ![u] = Held(u)']
  BY DEF HeldOf
<1>4. QED
  BY <1>1, <1>2, <1>3

LEMMA PlanCounts ==
  ASSUME NEW S
  PROVE  Plan!Cardinality(S) = Cardinality(S)
BY DEF Plan!Cardinality, Cardinality

LEMMA PlanStutter ==
  ASSUME UNCHANGED <<clock, users, keywords>>
  PROVE  UNCHANGED Plan!planVars
<1>1. Live' = Live
  BY DEF Live
<1>2. \A u : Held(u)' = Held(u)
  BY DEF Held
<1>3. QED
  BY <1>1, <1>2 DEF Plan!planVars

LEMMA TickIsPlanned ==
  ASSUME Tick
  PROVE  Plan!Tick
<1>1. Live' = Live
  BY DEF Tick, Live
<1>2. \A u : Held(u)' = Held(u)
  BY DEF Tick, Held
<1>3. QED
  BY <1>1, <1>2 DEF Tick, Plan!Tick

LEMMA OpenIsPlanned ==
  ASSUME PlanInv, NEW t \in Threads, SignInCommit(t)
  PROVE  UNCHANGED Plan!planVars \/ \E a \in UserIds : Plan!Open(a)
<1>1. CASE UNCHANGED <<users, keywords, ledger>>
  BY <1>1, PlanStutter DEF SignInCommit, Committed
<1>2. CASE \E u \in NextRowId(Live, UserIds) :
             /\ users' = [users EXCEPT ![u] = NewAccount(thread[t].email)]
             /\ UNCHANGED keywords
  <2>1. PICK u \in UserIds : /\ u \notin Live
                             /\ users' = [users EXCEPT ![u] = NewAccount(thread[t].email)]
                             /\ UNCHANGED keywords
    BY <1>2, NextRowIdIsNew DEF UserIds, NextRowId
  <2>2. thread[t].email \in Emails
    BY LocalTypes DEF SignInCommit, PlanInv, CreditInv
  <2>3. NewAccount(thread[t].email) \in Account
    BY <2>2 DEF NewAccount, Account, PlanInv, CreditInv, TypeOK, Time
  <2>4. Live' = Live \cup {u}
    BY <2>1, <2>3 DEF Live, PlanInv, CreditInv, TypeOK
  <2>5. \A v : Held(v)' = Held(v)
    BY <2>1 DEF Held
  <2>6. users'[u] = NewAccount(thread[t].email)
    BY <2>1 DEF PlanInv, CreditInv, TypeOK
  <2>7. \A v \in UserIds : v # u => users'[v] = users[v]
    BY <2>1 DEF PlanInv, CreditInv, TypeOK
  <2>8. users'[u].used = 0 /\ users'[u].end = clock + Year
    BY <2>6 DEF NewAccount
  <2>9. clock' = clock
    BY DEF SignInCommit, Committed
  <2>10. Plan!Open(u)
    <3>1. /\ UsedOf' = [UsedOf EXCEPT ![u] = 0]
          /\ EndOf' = [EndOf EXCEPT ![u] = clock + Year]
          /\ HeldOf' = [HeldOf EXCEPT ![u] = Held(u)]
      BY <2>4, <2>5, <2>7, <2>8, OneAccount
    <3>2. UsedOf' = UsedOf /\ HeldOf' = HeldOf
      BY <2>1, <3>1 DEF UsedOf, HeldOf
    <3>3. QED
      BY <2>1, <2>4, <2>9, <3>1, <3>2 DEF Plan!Open, UsedOf, EndOf, HeldOf
  <2>11. QED
    BY <2>10
<1>3. QED
  BY <1>1, <1>2 DEF SignInCommit

LEMMA ChargeIsPlanned ==
  ASSUME PlanInv, NEW t \in Threads, AddCommit(t)
  PROVE  \E a \in UserIds, k \in KeywordIds : Plan!Charge(a, k)
<1>1. PICK u \in Live : u = thread[t].id
  BY DEF AddCommit
<1>2. /\ users[u].available - users[u].used >= 1
      /\ thread[t].word \in Words
  BY <1>1, LocalTypes
     DEF AddCommit, SnapshotHolds, PlanInv, CreditInv, SnapshotsCurrent
<1>3. PICK k \in NextRowId({j \in KeywordIds : keywords[j] # None}, KeywordIds) :
        keywords' = [keywords EXCEPT ![k] = [user |-> u, word |-> thread[t].word]]
  BY <1>1 DEF AddCommit
<1>4. k \in KeywordIds /\ keywords[k] = None
  BY <1>3, NextRowIdIsNew DEF KeywordIds
<1>5. u \in UserIds /\ users[u] \in Account
  BY DEF Live, PlanInv, CreditInv, TypeOK
<1>6. /\ Held(u)' = Held(u) \cup {k}
      /\ \A v \in UserIds : v # u => Held(v)' = Held(v)
  BY <1>2, <1>3, <1>4, <1>5, HeldAfterAdd DEF PlanInv, CreditInv
<1>7. users' = [users EXCEPT ![u] = [users[u] EXCEPT !.used = @ + 1]]
  BY <1>1 DEF AddCommit
<1>8. /\ users'[u].used = users[u].used + 1
      /\ users'[u].end = users[u].end
      /\ users'[u] \in Account
  BY <1>5, <1>7 DEF Account, PlanInv, CreditInv, TypeOK
<1>9. \A v \in UserIds : v # u => users'[v] = users[v]
  BY <1>7 DEF PlanInv, CreditInv, TypeOK
<1>10. Live' = Live
  BY <1>5, <1>8, <1>9 DEF Live
<1>11. users[u].used < Credits
  BY <1>2, <1>5 DEF PlanInv, CreditInv, CreditsCoverKeywords, Account
<1>12. \A v \in UserIds : k \notin Held(v)
  BY <1>4 DEF Held
<1>13. clock' = clock
  BY DEF AddCommit, Committed
<1>14. Plan!Charge(u, k)
  BY <1>5, <1>6, <1>8, <1>9, <1>10, <1>11, <1>12, <1>13 DEF Plan!Charge
<1>15. QED
  BY <1>4, <1>5, <1>14

LEMMA DropIsPlanned ==
  ASSUME PlanInv, NEW t \in Threads, NEW k \in KeywordIds, DeleteKeyword(t, k)
  PROVE  \E a \in UserIds : Plan!Drop(a, k)
<1>1. PICK u \in UserIds : u = thread[t].row.id
  BY LocalTypes DEF DeleteKeyword, PlanInv, CreditInv, Row
<1>2. /\ k \in Held(u)
      /\ keywords' = [keywords EXCEPT ![k] = None]
      /\ users' = users
      /\ clock' = clock
  BY <1>1 DEF DeleteKeyword, AfterKeywordDelete, Committed
<1>3. Live' = Live
  BY <1>2 DEF Live
<1>4. \A v : Held(v)' = Held(v) \ {k}
  BY <1>2 DEF Held, PlanInv, CreditInv, TypeOK
<1>5. \A v \in UserIds : v # u => Held(v)' = Held(v)
  BY <1>2, <1>4 DEF Held
<1>6. Plan!Drop(u, k)
  BY <1>2, <1>3, <1>4, <1>5 DEF Plan!Drop
<1>7. QED
  BY <1>6

(* The rotation of a row that still is in the cycle that was read; a late one
   leaves the counters alone. *)
LEMMA RenewIsPlanned ==
  ASSUME PlanInv, NEW t \in Threads, RotateCommit(t)
  PROVE  UNCHANGED Plan!planVars \/ \E a \in UserIds : Plan!Renew(a)
<1> DEFINE local == thread[t]
           u == local.row.id
           end == local.row.account.end
           new == [Rotated(local) EXCEPT !.email = users[u].email]
<1>1. clock' = clock /\ keywords' = keywords
  BY DEF RotateCommit, Committed
<1>2. CASE users' = users
  BY <1>1, <1>2, PlanStutter
<1>3. CASE users[u].end = end /\ users' = [users EXCEPT ![u] = new]
  <2>1. /\ u \in Live
        /\ local.held = Held(u)
        /\ local.row \in Row
        /\ local.start \in 0..MaxClock
        /\ local.start <= clock
        /\ \E years \in Nat : years <= clock - end /\ local.start = end + years * Year
    BY LocalTypes DEF RotateCommit, SnapshotHolds, PlanInv, CreditInv, SnapshotsCurrent,
                      RenewalsAreDue
  <2>2. /\ u \in UserIds
        /\ users[u] \in Account
        /\ end \in Nat
        /\ end >= 1
    <3>1. u \in UserIds /\ users[u] \in Account
      BY <2>1 DEF Live, PlanInv, CreditInv, TypeOK
    <3>2. users[u].start \in Nat /\ users[u].end = users[u].start + Year
      BY <2>1, <3>1 DEF PlanInv, CyclesInv, Account, Time
    <3>3. QED
      BY <1>3, <3>1, <3>2
  <2>3. Cardinality(Held(u)) \in Nat /\ Cardinality(Held(u)) <= Credits
    BY <2>1, <2>2, HeldFinite DEF PlanInv, CreditInv, CreditsCoverKeywords, Account
  <2>4. Renewed(local.held) = Cardinality(Held(u))
    BY <2>1, <2>3 DEF Renewed, AtMostCredits
  <2>5. Rotated(local) \in Account
    BY <2>1, RotatedType DEF Held
  <2>6. /\ Rotated(local).used = Cardinality(Held(u))
        /\ Rotated(local).end = local.start + Year
    BY <2>1, <2>4 DEF Rotated, Row, Account
  <2>7. /\ new \in Account
        /\ new.used = Cardinality(Held(u))
        /\ new.end = local.start + Year
    BY <2>2, <2>5, <2>6 DEF Account
  <2> HIDE DEF new
  <2>8. users'[u] = new /\ \A v \in UserIds : v # u => users'[v] = users[v]
    BY <1>3, <2>2 DEF PlanInv, CreditInv, TypeOK
  <2>9. Live' = Live
    BY <2>1, <2>7, <2>8 DEF Live
  <2>10. \A v : Held(v)' = Held(v)
    BY <1>1 DEF Held
  <2>11. clock \in Nat
    BY DEF PlanInv, CreditInv, TypeOK
  <2>12. PICK years \in Nat : years <= clock - end /\ local.start = end + years * Year
    BY <2>1
  <2>13. /\ years + 1 \in 1..clock
         /\ end <= clock
    BY <2>2, <2>11, <2>12
  <2>14. end + (years + 1) * Year = local.start + Year
    BY <2>2, <2>12
  <2>15. end + (years + 1) * Year <= clock + Year
    BY <2>1, <2>11, <2>14
  <2>16. PICK a \in UserIds : a = u
    BY <2>2
  <2>17. Plan!Renew(a)
    <3> DEFINE more == years + 1
    <3>1. more \in 1..clock /\ end + more * Year <= clock + Year /\ new.end = end + more * Year
      BY <2>7, <2>13, <2>14, <2>15
    <3> HIDE DEF more
    <3>2. /\ UsedOf' = [UsedOf EXCEPT ![a] = Cardinality(Held(a))]
          /\ EndOf' = [EndOf EXCEPT ![a] = end + more * Year]
          /\ HeldOf' = [HeldOf EXCEPT ![a] = Held(a)]
      BY <2>1, <2>7, <2>8, <2>9, <2>10, <2>16, <3>1, OneAccount
    <3>3. /\ EndOf[a] = end
          /\ HeldOf[a] = Held(a)
          /\ HeldOf' = HeldOf
      BY <1>3, <2>1, <2>16, <3>2 DEF EndOf, HeldOf
    <3>4. QED
      BY <1>1, <2>1, <2>9, <2>13, <2>16, <3>1, <3>2, <3>3, PlanCounts
         DEF Plan!Renew, UsedOf, EndOf, HeldOf
  <2>18. QED
    BY <2>17
<1>4. QED
  BY <1>2, <1>3 DEF RotateCommit, RotateCounters

LEMMA CloseIsPlanned ==
  ASSUME PlanInv, NEW t \in Threads, DeleteUser(t)
  PROVE  \E a \in UserIds : Plan!Close(a)
<1>1. PICK u \in Live : /\ users' = [users EXCEPT ![u] = None]
                        /\ keywords' = Cascade(u)
                        /\ clock' = clock
  BY DEF DeleteUser, Committed
<1>2. u \in UserIds
  BY DEF Live
<1>3. users'[u] = None /\ \A v \in UserIds : v # u => users'[v] = users[v]
  BY <1>1, <1>2 DEF PlanInv, CreditInv, TypeOK
<1>4. Live' = Live \ {u}
  BY <1>3 DEF Live
<1>5. \A k \in KeywordIds : keywords'[k] = IF k \in Held(u) THEN None ELSE keywords[k]
  BY <1>1 DEF Cascade
<1>6. Held(u)' = {}
  BY <1>5 DEF Held
<1>7. \A v \in UserIds : v # u => Held(v)' = Held(v)
  BY <1>5 DEF Held
<1>8. Plan!Close(u)
  <2>1. /\ UsedOf' = [UsedOf EXCEPT ![u] = 0]
        /\ EndOf' = [EndOf EXCEPT ![u] = 0]
        /\ HeldOf' = [HeldOf EXCEPT ![u] = {}]
    BY <1>2, <1>3, <1>4, <1>6, <1>7, OneAccount
  <2>2. QED
    BY <1>1, <1>4, <2>1 DEF Plan!Close, UsedOf, EndOf, HeldOf
<1>9. QED
  BY <1>2, <1>8

-----------------------------------------------------------------------------
LEMMA InitIsPlanned == Init => Plan!Init
<1> SUFFICES ASSUME Init PROVE Plan!Init
  OBVIOUS
<1>1. Live = {} /\ \A u : Held(u) = {}
  BY DEF Init, Live, Held
<1>2. QED
  BY <1>1 DEF Init, Plan!Init

(* Every step of a thread is one of the plan's, or none. *)
LEMMA NextIsPlanned ==
  ASSUME PlanInv, [Next]_vars
  PROVE  [Plan!Next]_(Plan!planVars)
<1> DEFINE Planned == Plan!Next \/ UNCHANGED Plan!planVars
<1> SUFFICES Planned
  OBVIOUS
<1>1. CASE UNCHANGED <<clock, users, keywords>>
  BY <1>1, PlanStutter
<1>2. CASE Tick
  BY <1>2, TickIsPlanned DEF Plan!Next
<1>3. ASSUME NEW t \in Threads, SignInCommit(t) PROVE Planned
  BY <1>3, OpenIsPlanned DEF Plan!Next
<1>4. ASSUME NEW t \in Threads, RotateCommit(t) PROVE Planned
  BY <1>4, RenewIsPlanned DEF Plan!Next
<1>5. ASSUME NEW t \in Threads, AddCommit(t) PROVE Planned
  BY <1>5, ChargeIsPlanned DEF Plan!Next
<1>6. ASSUME NEW t \in Threads, NEW k \in KeywordIds, DeleteKeyword(t, k) PROVE Planned
  BY <1>6, DropIsPlanned DEF Plan!Next
<1>7. ASSUME NEW t \in Threads, DeleteUser(t) PROVE Planned
  BY <1>7, CloseIsPlanned DEF Plan!Next
<1> HIDE DEF Planned
<1>8. QED
  BY <1>1, <1>2, <1>3, <1>4, <1>5, <1>6, <1>7
     DEF Next, vars, SignInBegin, FindSession, ReadUser, ReadHolders, KeepCycle,
         RotateBegin, AddBegin, Abandon, Begin, Proceed

(* Threads, snapshots, stale copies of rows and reused ids included, the
   accounts do nothing but what the plan allows (the property of the same name;
   accounts.rs:8-11): credits are charged one by one and within the year's
   amount, they stay spent, and a renewal adds whole years that are over. *)
THEOREM AccountsKeepThePlan == Spec => PlanHolds
<1>1. Init => PlanInv
  BY InitCreditInv DEF Init, PlanInv, CyclesInv, RenewalsAreDue, Live, Idle
<1>2. PlanInv /\ [Next]_vars => PlanInv'
  <2> SUFFICES ASSUME PlanInv, [Next]_vars PROVE PlanInv'
    OBVIOUS
  <2>1. TypeOK /\ TypeOK' /\ CreditInv'
    BY NextCreditInv, NextTypeOK DEF PlanInv, CreditInv
  <2>2. QED
    BY <2>1, NextCyclesInv, NextRenewalsAreDue DEF PlanInv
<1>3. PlanInv /\ [Next]_vars => [Plan!Next]_(Plan!planVars)
  BY NextIsPlanned
<1>4. QED
  BY <1>1, <1>2, <1>3, InitIsPlanned, PTL DEF Spec, PlanHolds, Plan!Spec
=============================================================================
