----------------------- MODULE CertificatePagesProofs -----------------------
(***************************************************************************)
(* Proofs about CertificatePages: what the index, the rows and the pauses  *)
(* of the processes promise, for any number of certificates and processes, *)
(* any cap, delay and number of attempts.                                  *)
(***************************************************************************)
EXTENDS CertificatePages, FiniteSetTheorems, TLAPS

(* The cases of a step, by what they do to rows, index and pauses. *)
LEMMA Cases ==
  ASSUME [Next]_vars
  PROVE  \/ UNCHANGED <<rows, index, pause, asked>>
         \/ Tick
         \/ \E c \in Certificates, kind \in Kinds : ListCertificate(c, kind)
         \/ \E p \in Runners, c \in Certificates, answered \in BOOLEAN :
              Request(p, c, answered) /\ UNCHANGED <<rows, index>>
         \/ \E p \in Runners, c \in Certificates : Write(p, c)
         \/ \E p \in Runners : Restart(p)
<1>1. CASE Tick
  BY <1>1
<1>2. CASE \E c \in Certificates : Toggle(c)
  BY <1>2 DEF Toggle
<1>3. CASE \E c \in Certificates, kind \in Kinds : ListCertificate(c, kind)
  BY <1>3
<1>4. CASE \E p \in Runners : Begin(p) \/ Fail(p)
  BY <1>4 DEF Begin, Fail
<1>5. CASE \E p \in Runners, c \in Certificates : Answered(p, c)
  BY <1>5 DEF Answered
<1>6. CASE \E p \in Runners, c \in Certificates :
             Transient(p, c) \/ Refused(p, c) \/ CutShort(p, c)
  BY <1>6 DEF Transient, Refused, CutShort
<1>7. CASE \E p \in Runners, c \in Certificates : Write(p, c)
  BY <1>7
<1>8. CASE \E p \in Runners : Restart(p)
  BY <1>8
<1>9. CASE UNCHANGED vars
  BY <1>9 DEF vars
<1> QED
  BY <1>1, <1>2, <1>3, <1>4, <1>5, <1>6, <1>7, <1>8, <1>9 DEF Next, Step, Interrupted

-----------------------------------------------------------------------------
(* What the search sees of a certificate is what its row says. *)
THEOREM IndexAlwaysShowsRow == Spec => []IndexShowsRow
<1>1. Init => IndexShowsRow
  BY DEF Init, IndexShowsRow
<1>2. IndexShowsRow /\ [Next]_vars => IndexShowsRow'
  <2> SUFFICES ASSUME IndexShowsRow, [Next]_vars PROVE IndexShowsRow'
    OBVIOUS
  <2>1. CASE UNCHANGED <<rows, index>>
    BY <2>1 DEF IndexShowsRow
  <2>2. CASE \E c \in Certificates, kind \in Kinds : ListCertificate(c, kind)
    BY <2>2 DEF IndexShowsRow, ListCertificate, UpsertedBy
  <2>3. CASE \E p \in Runners, c \in Certificates : Write(p, c)
    BY <2>3 DEF IndexShowsRow, Write, Reindexed
  <2> QED
    BY <2>1, <2>2, <2>3, Cases DEF Tick, Restart
<1> QED
  BY <1>1, <1>2, PTL DEF Spec

-----------------------------------------------------------------------------
(* After a request there is a pause, as long as it counts for this tick. *)
Pauses ==
  /\ pause \in [Runners -> Nat]
  /\ asked \in [Runners -> Nat]
  /\ \A p \in Runners : asked[p] <= 1 /\ (asked[p] > 0 => pause[p] > 0)

(* At most one request in a second, of each process, through retries, failures,
   restarts and the change from one page to the next. *)
THEOREM ProcessesArePolite == Spec => []ProcessIsPolite
<1>1. Init => Pauses
  BY DEF Init, Pauses
<1>2. Pauses /\ [Next]_vars => Pauses'
  <2> SUFFICES ASSUME Pauses, [Next]_vars PROVE Pauses'
    OBVIOUS
  <2>1. CASE UNCHANGED <<pause, asked>>
    BY <2>1 DEF Pauses
  <2>2. CASE Tick
    BY <2>2 DEF Pauses, Tick, Less
  <2>3. ASSUME NEW p \in Runners, NEW c \in Certificates, NEW answered \in BOOLEAN,
               Request(p, c, answered)
        PROVE  Pauses'
    BY <2>3, CertificatePagesAssumption DEF Pauses, Request, PauseAfter
  <2>4. CASE \E p \in Runners : Restart(p)
    BY <2>4 DEF Pauses, Restart
  <2> QED
    BY <2>1, <2>2, <2>3, <2>4, Cases DEF ListCertificate, Write
<1>3. Pauses => ProcessIsPolite
  BY DEF Pauses, ProcessIsPolite
<1> QED
  BY <1>1, <1>2, <1>3, PTL DEF Spec

-----------------------------------------------------------------------------
Listed == {c \in Certificates : rows[c] # None}

(* The rows, and what a run works on: certificates that have one. *)
Tables ==
  /\ rows \in [Certificates -> Row \cup {None}]
  /\ DOMAIN run = Runners
  /\ \A p \in Runners :
       run[p].pc \in {"asking", "writing"} => run[p].todo \subseteq Listed

(* What keeps the two: the rows keep their shape, none disappears, and no run works
   on more than it did or on what has no row. *)
LEMMA Kept ==
  ASSUME Tables,
         rows' \in [Certificates -> Row \cup {None}],
         \A c \in Certificates : rows[c] # None => rows'[c] # None,
         DOMAIN run' = Runners,
         \A p \in Runners :
           run'[p].pc \in {"asking", "writing"} =>
             \/ run'[p].todo \subseteq Listed
             \/ run[p].pc \in {"asking", "writing"} /\ run'[p].todo \subseteq run[p].todo
  PROVE  Tables'
  BY DEF Tables, Listed

LEMMA TablesHold == Spec => []Tables
<1>1. Init => Tables
  BY DEF Init, Tables, Idle
<1>2. Tables /\ [Next]_vars => Tables'
  <2> SUFFICES ASSUME Tables, [Next]_vars PROVE Tables'
    OBVIOUS
  <2>1. CASE Tick
    BY <2>1, Kept DEF Tick, Asking, Tables
  <2>2. ASSUME NEW c \in Certificates, Toggle(c)
        PROVE  Tables'
    BY <2>2, Kept DEF Toggle, Tables
  <2>3. ASSUME NEW c \in Certificates, NEW kind \in Kinds, ListCertificate(c, kind)
        PROVE  Tables'
    <3>1. UpsertedBy(c, kind) \in Row
      BY DEF Tables, UpsertedBy, Row
    <3>2. UpsertedBy(c, kind) # None
      BY <3>1, CertificatePagesAssumption
    <3> QED
      BY <2>3, <3>1, <3>2, Kept DEF ListCertificate, Tables
  <2>4. ASSUME NEW p \in Runners, Begin(p)
        PROVE  Tables'
    BY <2>4, Kept DEF Begin, Goes, Continue, Asking, Idle, Selected, Pending, Listed, Tables
  <2>5. ASSUME NEW p \in Runners, NEW c \in Certificates, Answered(p, c)
        PROVE  Tables'
    BY <2>5, Kept DEF Answered, Request, Goes, Tables
  <2>6. ASSUME NEW p \in Runners, NEW c \in Certificates,
               Transient(p, c) \/ Refused(p, c) \/ CutShort(p, c)
        PROVE  Tables'
    <3>1. rows' = rows /\ run[p].pc = "asking"
      BY <2>6 DEF Transient, Refused, CutShort, Request
    <3>2. \/ \E n, wait : run' = [run EXCEPT ![p] = Asking(run[p].todo, n, wait)]
          \/ run' = [run EXCEPT ![p] = Continue(Rest(p, c))]
      BY <2>6 DEF Transient, Refused, CutShort, Goes, Skip
    <3>3. ASSUME NEW n, NEW wait, run' = [run EXCEPT ![p] = Asking(run[p].todo, n, wait)]
          PROVE  Tables'
      BY <3>1, <3>3, Kept DEF Asking, Tables
    <3>4. CASE run' = [run EXCEPT ![p] = Continue(Rest(p, c))]
      BY <3>1, <3>4, Kept DEF Continue, Asking, Idle, Rest, Tables
    <3> QED
      BY <3>2, <3>3, <3>4
  <2>7. ASSUME NEW p \in Runners, NEW c \in Certificates, Write(p, c)
        PROVE  Tables'
    <3>1. rows[c] \in Row
      BY <2>7 DEF Write, Newest, Tables, Listed
    <3>2. [kind |-> rows[c].kind, fetched |-> TRUE] \in Row
      BY <3>1 DEF Row
    <3>3. [kind |-> rows[c].kind, fetched |-> TRUE] # None
      BY <3>2, CertificatePagesAssumption
    <3> QED
      BY <2>7, <3>2, <3>3, Kept DEF Write, Goes, Rest, Continue, Asking, Idle, Tables
  <2>8. ASSUME NEW p \in Runners, Fail(p) \/ Restart(p)
        PROVE  Tables'
    <3>1. rows' = rows /\ run' = [run EXCEPT ![p] = Idle]
      BY <2>8 DEF Fail, Restart, Goes
    <3> QED
      BY <3>1, Kept DEF Idle, Tables
  <2>9. CASE UNCHANGED vars
    BY <2>9, Kept DEF vars, Tables
  <2> QED
    BY <2>1, <2>2, <2>3, <2>4, <2>5, <2>6, <2>7, <2>8, <2>9 DEF Next, Step, Interrupted
<1> QED
  BY <1>1, <1>2, PTL DEF Spec

(* A page that was fetched stays fetched, whatever the list says of the certificate
   later, and whoever writes. *)
THEOREM FetchedStays == Spec => FetchedForGood
<1>1. ASSUME Tables, [Next]_vars,
             NEW c \in Certificates, rows[c] # None, rows[c].fetched
      PROVE  rows'[c].fetched
  <2>1. CASE UNCHANGED rows
    BY <1>1, <2>1
  <2>2. ASSUME NEW d \in Certificates, NEW kind \in Kinds, ListCertificate(d, kind)
        PROVE  rows'[c].fetched
    BY <1>1, <2>2 DEF ListCertificate, UpsertedBy, Tables
  <2>3. ASSUME NEW p \in Runners, NEW d \in Certificates, Write(p, d)
        PROVE  rows'[c].fetched
    BY <1>1, <2>3 DEF Write, Tables
  <2> QED
    BY <1>1, <2>1, <2>2, <2>3, Cases DEF Tick, Restart
<1>2. Tables /\ [Next]_vars =>
        [\A c \in Certificates : rows[c] # None /\ rows[c].fetched => rows'[c].fetched]_vars
  BY <1>1
<1> QED
  BY <1>2, TablesHold, PTL DEF Spec, FetchedForGood
-----------------------------------------------------------------------------
(* The backoff grows with the attempts.  A power of two is the number of subsets of
   an interval, which is what the provers know of it. *)
LEMMA Powers ==
  ASSUME NEW n \in Nat, NEW m \in Nat, n <= m
  PROVE  2^n \in Nat /\ 2^m \in Nat /\ 2^n <= 2^m
<1>1. ASSUME NEW k \in Nat
      PROVE  /\ IsFiniteSet(SUBSET (1..k))
             /\ Cardinality(SUBSET (1..k)) = 2^k
             /\ 2^k \in Nat
  <2>1. IsFiniteSet(1..k) /\ Cardinality(1..k) = k
    BY FS_Interval
  <2>2. IsFiniteSet(SUBSET (1..k)) /\ Cardinality(SUBSET (1..k)) = 2^Cardinality(1..k)
    BY <2>1, FS_SUBSET
  <2> QED
    BY <2>1, <2>2, FS_CardinalityType
<1>2. SUBSET (1..n) \subseteq SUBSET (1..m)
  OBVIOUS
<1>3. Cardinality(SUBSET (1..n)) <= Cardinality(SUBSET (1..m))
  BY <1>1, <1>2, FS_Subset
<1> QED
  BY <1>1, <1>3

LEMMA LocalStatesOf ==
  /\ Idle \in LocalStates
  /\ \A todo \in SUBSET Certificates : Continue(todo) \in LocalStates
  /\ \A todo \in (SUBSET Certificates) \ {{}} :
       [pc |-> "writing", todo |-> todo] \in LocalStates
<1>1. 0 \in 0..2^(MaxAttempts - 1) /\ 1 \in 1..MaxAttempts
  BY Powers, CertificatePagesAssumption
<1> QED
  BY <1>1 DEF LocalStates, Continue, Asking, Idle

(* What a run holds, and the pauses; the tables are in Tables and IndexShowsRow. *)
Held ==
  /\ site \in [Certificates -> BOOLEAN]
  /\ run \in [Runners -> LocalStates]
  /\ pause \in [Runners -> 0..Delay]
  /\ asked \in [Runners -> Nat]

LEMMA HeldStep ==
  ASSUME Held, Tables, [Next]_vars
  PROVE  Held'
<1>0. Delay \in Nat
  BY CertificatePagesAssumption
<1>1. ASSUME NEW p \in Runners, run[p].pc \in {"asking", "writing"}
      PROVE  run[p].todo \in (SUBSET Certificates) \ {{}}
  BY <1>1 DEF Held, LocalStates, Idle
<1>2. ASSUME NEW p \in Runners, NEW c \in Certificates, NEW answered \in BOOLEAN,
             Request(p, c, answered)
      PROVE  pause' \in [Runners -> 0..Delay] /\ asked' \in [Runners -> Nat]
  BY <1>0, <1>2 DEF Held, Request, PauseAfter
<1>3. ASSUME NEW p \in Runners, NEW local \in LocalStates, Goes(p, local)
      PROVE  run' \in [Runners -> LocalStates]
  BY <1>3 DEF Goes, Held
<1>4. CASE Tick
  <2>1. ASSUME NEW p \in Runners, run[p].pc = "asking"
        PROVE  Asking(run[p].todo, run[p].attempt, Less(run[p].wait)) \in LocalStates
    <3>1. /\ run[p].todo \in (SUBSET Certificates) \ {{}}
          /\ run[p].attempt \in 1..MaxAttempts
          /\ run[p].wait \in 0..2^(MaxAttempts - 1)
      BY <2>1 DEF Held, LocalStates, Idle
    <3>2. MaxAttempts - 1 \in Nat
      BY CertificatePagesAssumption
    <3>3. 2^(MaxAttempts - 1) \in Nat
      BY <3>2, Powers
    <3>4. Less(run[p].wait) \in 0..2^(MaxAttempts - 1)
      BY <3>1, <3>3 DEF Less
    <3> QED
      BY <3>1, <3>4 DEF LocalStates, Asking
  <2>2. pause' \in [Runners -> 0..Delay]
    BY <1>4, <1>0 DEF Tick, Less, Held
  <2> QED
    BY <1>4, <2>1, <2>2 DEF Tick, Held
<1>5. ASSUME NEW c \in Certificates, Toggle(c)
      PROVE  Held'
  BY <1>5 DEF Toggle, Held
<1>6. ASSUME NEW c \in Certificates, NEW kind \in Kinds, ListCertificate(c, kind)
      PROVE  Held'
  BY <1>6 DEF ListCertificate, Held
<1>7. ASSUME NEW p \in Runners, Begin(p)
      PROVE  Held'
  <2>1. Selected \in SUBSET Certificates
    BY DEF Selected, Pending
  <2>2. Continue(Selected) \in LocalStates
    BY <2>1, LocalStatesOf
  <2>3. run' \in [Runners -> LocalStates]
    BY <1>7, <2>2, <1>3 DEF Begin
  <2> QED
    BY <1>7, <2>3 DEF Begin, Held
<1>8. ASSUME NEW p \in Runners, NEW c \in Certificates, Answered(p, c)
      PROVE  Held'
  <2>1. Request(p, c, TRUE) /\ Goes(p, [pc |-> "writing", todo |-> run[p].todo])
    BY <1>8 DEF Answered
  <2>2. [pc |-> "writing", todo |-> run[p].todo] \in LocalStates
    BY <2>1, <1>1, LocalStatesOf DEF Request
  <2>3. run' \in [Runners -> LocalStates]
    BY <2>1, <2>2, <1>3
  <2>4. site' = site
    BY <1>8 DEF Answered, Request
  <2> QED
    BY <1>2, <2>1, <2>3, <2>4 DEF Held
<1>9. ASSUME NEW p \in Runners, NEW c \in Certificates, Transient(p, c)
      PROVE  Held'
  <2>1. Request(p, c, FALSE) /\ run[p].pc = "asking" /\ site' = site
    BY <1>9 DEF Transient, Request
  <2>2. /\ run[p].todo \in (SUBSET Certificates) \ {{}}
        /\ run[p].attempt \in 1..MaxAttempts
    BY <2>1 DEF Held, LocalStates, Idle
  <2>3. CASE MayRetry(run[p].attempt)
    <3>1. /\ run[p].attempt \in Nat /\ MaxAttempts - 1 \in Nat
          /\ run[p].attempt <= MaxAttempts - 1
          /\ run[p].attempt + 1 \in 1..MaxAttempts
      BY <2>2, <2>3, CertificatePagesAssumption DEF MayRetry
    <3>2. 2^run[p].attempt \in 0..2^(MaxAttempts - 1)
      BY <3>1, Powers
    <3>3. Asking(run[p].todo, run[p].attempt + 1, 2^run[p].attempt) \in LocalStates
      BY <2>2, <3>1, <3>2 DEF Asking, LocalStates
    <3>4. Goes(p, Asking(run[p].todo, run[p].attempt + 1, 2^run[p].attempt))
      BY <1>9, <2>3 DEF Transient
    <3>5. run' \in [Runners -> LocalStates]
      BY <3>3, <3>4, <1>3
    <3> QED
      BY <1>2, <2>1, <3>5 DEF Held
  <2>4. CASE ~MayRetry(run[p].attempt)
    <3>1. Goes(p, Continue(Rest(p, c)))
      BY <1>9, <2>4 DEF Transient, Skip
    <3>2. Continue(Rest(p, c)) \in LocalStates
      BY <2>2, LocalStatesOf DEF Rest
    <3>3. run' \in [Runners -> LocalStates]
      BY <3>1, <3>2, <1>3
    <3> QED
      BY <1>2, <2>1, <3>3 DEF Held
  <2> QED
    BY <2>3, <2>4
<1>10. ASSUME NEW p \in Runners, NEW c \in Certificates, Refused(p, c) \/ CutShort(p, c)
       PROVE  Held'
  <2>1. /\ Request(p, c, FALSE) /\ run[p].pc = "asking" /\ site' = site
        /\ Goes(p, Continue(Rest(p, c)))
    BY <1>10 DEF Refused, CutShort, Request, Skip
  <2>2. Continue(Rest(p, c)) \in LocalStates
    BY <2>1, <1>1, LocalStatesOf DEF Rest
  <2>3. run' \in [Runners -> LocalStates]
    BY <2>1, <2>2, <1>3
  <2> QED
    BY <1>2, <2>1, <2>3 DEF Held
<1>11. ASSUME NEW p \in Runners, NEW c \in Certificates, Write(p, c)
       PROVE  Held'
  <2>1. /\ run[p].pc = "writing" /\ UNCHANGED <<site, pause, asked>>
        /\ Goes(p, Continue(Rest(p, c)))
    BY <1>11 DEF Write
  <2>2. Continue(Rest(p, c)) \in LocalStates
    BY <2>1, <1>1, LocalStatesOf DEF Rest
  <2>3. run' \in [Runners -> LocalStates]
    BY <2>1, <2>2, <1>3
  <2> QED
    BY <2>1, <2>3 DEF Held
<1>12. ASSUME NEW p \in Runners, Fail(p) \/ Restart(p)
       PROVE  Held'
  <2>1. run' \in [Runners -> LocalStates]
    BY <1>12, <1>3, LocalStatesOf DEF Fail, Restart
  <2> QED
    BY <1>12, <1>0, <2>1 DEF Fail, Restart, Held
<1>13. CASE UNCHANGED vars
  BY <1>13 DEF vars, Held
<1> QED
  BY <1>4, <1>5, <1>6, <1>7, <1>8, <1>9, <1>10, <1>11, <1>12, <1>13
  DEF Next, Step, Interrupted

(* No page is asked for more than MAX_ATTEMPTS times in a run, whatever is interrupted
   where, and the backoff stays within what that allows. *)
THEOREM TypeCorrect == Spec => []TypeOK
<1>1. Init => Held
  BY LocalStatesOf, CertificatePagesAssumption DEF Init, Held
<1>2. Held /\ Tables /\ [Next]_vars => Held'
  BY HeldStep
<1>3. Held /\ Tables /\ IndexShowsRow => TypeOK
  BY DEF Held, Tables, IndexShowsRow, TypeOK
<1> QED
  BY <1>1, <1>2, <1>3, TablesHold, IndexAlwaysShowsRow, PTL DEF Spec
=============================================================================
