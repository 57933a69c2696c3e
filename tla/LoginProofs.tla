---------------------------- MODULE LoginProofs ----------------------------
(***************************************************************************)
(* Proofs about Login, for any number of requests, addresses and links:    *)
(* requests that overlap do not break what sessions and links promise.     *)
(***************************************************************************)
EXTENDS Login, FiniteSetTheorems, TLAPS

TypeInv == TypeOK /\ Len(links) <= MaxLinks

LEMMA TypeInit == Init => TypeInv
<1> SUFFICES ASSUME Init PROVE TypeInv
  OBVIOUS
<1>1. links = <<>> /\ links \in Seq(Link) /\ sessions \in Seq(Session) /\ Len(links) = 0
  BY DEF Init
<1>2. clock \in Time
  BY LoginAssumption DEF Init, Time
<1> QED
  BY <1>1, <1>2, LoginAssumption DEF Init, TypeInv, TypeOK, LocalStates

LEMMA Fields ==
  /\ \A link \in Link : /\ link.email \in Emails /\ link.created \in Time
                       /\ [link EXCEPT !.used = TRUE] \in Link
                       /\ \A kept \in BOOLEAN : [link EXCEPT !.kept = kept] \in Link
  /\ \A session \in Session : /\ session.user \in UserIds /\ session.created \in Time
                             /\ \A kept \in BOOLEAN : [session EXCEPT !.kept = kept] \in Session
BY DEF Link, Session

LEMMA Elements ==
  ASSUME TypeOK
  PROVE  /\ DOMAIN links = 1..Len(links) /\ Len(links) \in Nat
         /\ DOMAIN sessions = 1..Len(sessions) /\ Len(sessions) \in Nat
         /\ \A i \in DOMAIN links : links[i] \in Link
         /\ \A i \in DOMAIN sessions : sessions[i] \in Session
BY DEF TypeOK

(* What a thread holds in each of its states. *)
LEMMA Local ==
  ASSUME TypeOK, NEW t \in Threads
  PROVE  /\ thread[t] \in LocalStates
         /\ thread[t].pc = "linking" =>
              thread[t] \in [pc: {"linking"}, email: Emails, now: Time]
         /\ thread[t].pc \in {"sending", "consuming", "consumed", "signed"} =>
              thread[t].link \in DOMAIN links
         /\ thread[t].pc \in {"signed", "resolved"} => thread[t].user \in UserIds
BY DEF TypeOK, LocalStates, Idle

(* A step of one thread that leaves the domain of the links alone. *)
LEMMA TypeGoes ==
  ASSUME TypeInv, NEW t \in Threads, NEW local \in LocalStates', Goes(t, local),
         clock' = clock,
         users' \in [UserIds -> Emails \cup {None}],
         links' \in Seq(Link), DOMAIN links \subseteq DOMAIN links', Len(links') <= MaxLinks,
         sessions' \in Seq(Session),
         inbox' \subseteq DOMAIN links'
  PROVE  TypeInv'
<1>1. LocalStates \subseteq LocalStates'
  BY DEF LocalStates
<1>2. thread' \in [Threads -> LocalStates']
  BY <1>1 DEF TypeInv, TypeOK, Goes
<1> QED
  BY <1>2 DEF TypeInv, TypeOK

LEMMA SameLinks ==
  ASSUME UNCHANGED links
  PROVE  LocalStates' = LocalStates
BY DEF LocalStates

LEMMA TypeLinking ==
  ASSUME TypeInv, NEW t \in Threads,
         (\E e \in Emails : AskLink(t, e)) \/ CreateLink(t) \/ SendLink(t)
  PROVE  TypeInv'
<1> USE DEF TypeInv, TypeOK
<1>1. ASSUME NEW e \in Emails, AskLink(t, e) PROVE TypeInv'
  <2>1. [pc |-> "linking", email |-> e, now |-> clock] \in LocalStates'
    BY DEF LocalStates
  <2> QED
    BY <1>1, <2>1, TypeGoes DEF AskLink
<1>2. CASE CreateLink(t)
  <2> DEFINE link == [email |-> thread[t].email, created |-> thread[t].now,
                      used |-> FALSE, kept |-> TRUE]
  <2>1. link \in Link
    BY <1>2, Local DEF CreateLink, Link
  <2>2. links' = Append(links, link) /\ Len(links) < MaxLinks
    BY <1>2 DEF CreateLink
  <2> HIDE DEF link
  <2>3. /\ links' \in Seq(Link) /\ Len(links') = Len(links) + 1
        /\ DOMAIN links = 1..Len(links) /\ DOMAIN links' = 1..Len(links')
        /\ Len(links) \in Nat
    BY <2>1, <2>2
  <2>4. [pc |-> "sending", link |-> Len(links')] \in LocalStates'
    BY <2>3 DEF LocalStates
  <2>5. Len(links') <= MaxLinks /\ DOMAIN links \subseteq DOMAIN links'
    BY <2>2, <2>3, LoginAssumption
  <2>6. /\ UNCHANGED <<clock, users, sessions, inbox>>
        /\ Goes(t, [pc |-> "sending", link |-> Len(links')])
    BY <1>2 DEF CreateLink
  <2>7. inbox' \subseteq DOMAIN links'
    BY <2>5, <2>6
  <2> HIDE DEF TypeInv, TypeOK
  <2>8. PICK local \in LocalStates' : Goes(t, local)
    BY <2>4, <2>6
  <2>9. users' \in [UserIds -> Emails \cup {None}] /\ sessions' \in Seq(Session)
    BY <2>6 DEF TypeInv, TypeOK
  <2> QED
    BY <2>3, <2>5, <2>6, <2>7, <2>8, <2>9, TypeGoes
<1>3. CASE SendLink(t)
  BY <1>3, Local, TypeGoes DEF SendLink, LocalStates
<1> QED
  BY <1>1, <1>2, <1>3

LEMMA TypeSigning ==
  ASSUME TypeInv, NEW t \in Threads,
         \/ \E i \in DOMAIN links : ReadLink(t, i)
         \/ MarkLink(t)
         \/ SignIn(t)
         \/ OpenSession(t)
  PROVE  TypeInv'
<1> USE DEF TypeInv, TypeOK
<1>1. ASSUME NEW i \in DOMAIN links, ReadLink(t, i) PROVE TypeInv'
  <2>1. [pc |-> "consuming", link |-> i] \in LocalStates'
    BY <1>1 DEF ReadLink, LocalStates
  <2> QED
    BY <1>1, <2>1, TypeGoes DEF ReadLink
<1>2. CASE MarkLink(t)
  <2> DEFINE i == thread[t].link
  <2>1. i \in DOMAIN links /\ links' = [links EXCEPT ![i].used = TRUE]
    BY <1>2, Local DEF MarkLink
  <2>2. [links[i] EXCEPT !.used = TRUE] \in Link
    BY <2>1, Elements, Fields
  <2>3. links' \in Seq(Link) /\ DOMAIN links' = DOMAIN links /\ Len(links') = Len(links)
    BY <2>1, <2>2
  <2>4. [pc |-> "consumed", link |-> i] \in LocalStates'
    BY <2>1, <2>3 DEF LocalStates
  <2> QED
    BY <1>2, <2>3, <2>4, TypeGoes DEF MarkLink
<1>3. CASE SignIn(t)
  <2>1. PICK u \in UserIds :
          /\ users' = [users EXCEPT ![u] = links[thread[t].link].email]
          /\ Goes(t, [pc |-> "signed", link |-> thread[t].link, user |-> u])
    BY <1>3 DEF SignIn, Live, NextUserId
  <2>2. thread[t].link \in DOMAIN links
    BY <1>3, Local DEF SignIn
  <2>3. links[thread[t].link].email \in Emails
    BY <2>2, Elements, Fields
  <2>4. [pc |-> "signed", link |-> thread[t].link, user |-> u] \in LocalStates'
    BY <1>3, <2>2 DEF SignIn, LocalStates
  <2> QED
    BY <1>3, <2>1, <2>3, <2>4, TypeGoes DEF SignIn
<1>4. CASE OpenSession(t)
  <2> DEFINE session == [user |-> thread[t].user, created |-> clock, kept |-> TRUE,
                         link |-> thread[t].link]
  <2>1. thread[t].link \in DOMAIN links /\ thread[t].user \in UserIds
    BY <1>4, Local DEF OpenSession
  <2>2. session \in Session
    BY <2>1, LoginAssumption DEF Session
  <2>3. sessions' = Append(sessions, session)
    BY <1>4 DEF OpenSession
  <2> HIDE DEF session
  <2>4. sessions' \in Seq(Session)
    BY <2>2, <2>3
  <2>5. Idle \in LocalStates'
    BY DEF LocalStates
  <2> QED
    BY <1>4, <2>4, <2>5, TypeGoes DEF OpenSession
<1> QED
  BY <1>1, <1>2, <1>3, <1>4

LEMMA TypeSessions ==
  ASSUME TypeInv, NEW t \in Threads,
         \/ \E i \in DOMAIN sessions : ResolveSession(t, i) \/ Logout(t, i)
         \/ DeleteAccount(t)
         \/ SweepSessions(t)
         \/ SweepLinks(t)
         \/ Abandon(t)
  PROVE  TypeInv'
<1> USE DEF TypeInv, TypeOK
<1>0. Idle \in LocalStates'
  BY DEF LocalStates
<1>1. ASSUME NEW i \in DOMAIN sessions, ResolveSession(t, i) PROVE TypeInv'
  <2>1. [pc |-> "resolved", user |-> sessions[i].user] \in LocalStates'
    <3>1. sessions[i].user \in UserIds
      BY Elements, Fields
    <3> QED
      BY <3>1 DEF LocalStates
  <2> QED
    BY <1>1, <2>1, TypeGoes DEF ResolveSession
<1>2. ASSUME NEW i \in DOMAIN sessions, Logout(t, i) PROVE TypeInv'
  <2>1. [sessions[i] EXCEPT !.kept = FALSE] \in Session
    BY Elements, Fields
  <2>2. sessions' \in Seq(Session)
    BY <1>2, <2>1 DEF Logout
  <2> QED
    BY <1>2, <2>2, SameLinks DEF Logout
<1>3. CASE DeleteAccount(t)
  <2>1. sessions' = [i \in 1..Len(sessions) |->
                       IF sessions[i].user = thread[t].user
                       THEN [sessions[i] EXCEPT !.kept = FALSE] ELSE sessions[i]]
    BY <1>3 DEF DeleteAccount, SessionsCascade
  <2>2. \A i \in 1..Len(sessions) : [sessions[i] EXCEPT !.kept = FALSE] \in Session
    BY Elements, Fields
  <2>3. sessions' \in Seq(Session)
    BY <2>1, <2>2
  <2> QED
    BY <1>0, <1>3, <2>3, TypeGoes DEF DeleteAccount
<1>4. CASE SweepSessions(t)
  <2> DEFINE Kept(i) == [sessions[i] EXCEPT
                           !.kept = sessions[i].kept /\ ~Swept(sessions[i].created, SessionTtl)]
  <2>1. sessions' = [i \in 1..Len(sessions) |-> Kept(i)]
    BY <1>4 DEF SweepSessions
  <2>2. \A i \in 1..Len(sessions) : Kept(i) \in Session
    BY Elements, Fields
  <2> HIDE DEF Kept
  <2>3. sessions' \in Seq(Session)
    BY <2>1, <2>2
  <2>4. [pc |-> "sweeping", cutoff |-> clock - SweepAfter] \in LocalStates'
    BY LoginAssumption DEF LocalStates, Time
  <2> QED
    BY <1>4, <2>3, <2>4, TypeGoes DEF SweepSessions
<1>5. CASE SweepLinks(t)
  <2> DEFINE Kept(i) == [links[i] EXCEPT
                           !.kept = links[i].kept /\ ~(links[i].created + LinkTtl < thread[t].cutoff)]
  <2>1. links' = [i \in 1..Len(links) |-> Kept(i)]
    BY <1>5 DEF SweepLinks
  <2>2. \A i \in 1..Len(links) : Kept(i) \in Link
    BY Elements, Fields
  <2> HIDE DEF Kept
  <2>3. links' \in Seq(Link) /\ Len(links') = Len(links) /\ DOMAIN links' = DOMAIN links
    BY <2>1, <2>2
  <2> QED
    BY <1>0, <1>5, <2>3, TypeGoes DEF SweepLinks
<1>6. CASE Abandon(t)
  BY <1>0, <1>6, TypeGoes DEF Abandon
<1> QED
  BY <1>1, <1>2, <1>3, <1>4, <1>5, <1>6

LEMMA TypeStep == TypeInv /\ [Next]_vars => TypeInv'
<1> SUFFICES ASSUME TypeInv, [Next]_vars PROVE TypeInv'
  OBVIOUS
<1>1. CASE UNCHANGED vars \/ Tick
  <2>1. UNCHANGED <<users, links, sessions, inbox, thread>> /\ clock' \in Time
    BY <1>1, LoginAssumption DEF vars, Tick, TypeInv, TypeOK, Time
  <2> QED
    BY <2>1, SameLinks DEF TypeInv, TypeOK
<1> QED
  BY <1>1, TypeLinking, TypeSigning, TypeSessions DEF Next

(* Tables and requests are well-formed, and no request holds a link that is not there. *)
THEOREM TypeCorrect == Spec => []TypeOK
<1>1. TypeInv => TypeOK
  BY DEF TypeInv
<1> QED
  BY <1>1, TypeInit, TypeStep, PTL DEF Spec

-----------------------------------------------------------------------------
(* How the tables grow: rows keep what they say, marks are not taken back. *)
LinksStay ==
  \A i \in DOMAIN links :
    /\ i \in DOMAIN links'
    /\ links'[i].email = links[i].email /\ links'[i].created = links[i].created
    /\ links[i].used => links'[i].used

SessionsStayOrEnd ==
  /\ DOMAIN sessions' = DOMAIN sessions
  /\ \A i \in DOMAIN sessions :
       /\ sessions'[i].user = sessions[i].user /\ sessions'[i].link = sessions[i].link
       /\ sessions'[i].kept => sessions[i].kept

LEMMA LinksGrow == TypeInv /\ [Next]_vars => LinksStay
<1> SUFFICES ASSUME TypeInv, [Next]_vars PROVE LinksStay
  OBVIOUS
<1>0. TypeOK
  BY DEF TypeInv
<1>1. ASSUME UNCHANGED links PROVE LinksStay
  BY <1>1 DEF LinksStay
<1>2. ASSUME NEW t \in Threads, CreateLink(t) PROVE LinksStay
  <2>1. PICK link : links' = Append(links, link)
    BY <1>2 DEF CreateLink
  <2> QED
    BY <1>0, <2>1 DEF LinksStay, TypeOK
<1>3. ASSUME NEW t \in Threads, MarkLink(t) PROVE LinksStay
  <2>1. \A i \in DOMAIN links :
          links'[i] = IF i = thread[t].link THEN [links[i] EXCEPT !.used = TRUE] ELSE links[i]
    BY <1>3, <1>0, Elements DEF MarkLink
  <2>2. DOMAIN links' = DOMAIN links
    BY <1>3 DEF MarkLink
  <2>3. \A i \in DOMAIN links : links[i] \in Link
    BY <1>0, Elements
  <2> QED
    BY <2>1, <2>2, <2>3 DEF LinksStay, Link
<1>4. ASSUME NEW t \in Threads, SweepLinks(t) PROVE LinksStay
  <2>1. \A i \in DOMAIN links : links[i] \in Link
    BY <1>0, Elements
  <2> QED
    BY <1>4, <2>1 DEF SweepLinks, LinksStay, Link
<1> QED
  BY <1>1, <1>2, <1>3, <1>4 DEF Next, vars, Tick, AskLink, SendLink, ReadLink, SignIn,
     OpenSession, ResolveSession, Logout, DeleteAccount, SweepSessions, Abandon

LEMMA Created ==
  ASSUME TypeInv, NEW t \in Threads, CreateLink(t)
  PROVE  LET new == Len(links) + 1
         IN /\ new \notin DOMAIN links /\ DOMAIN links' = DOMAIN links \cup {new}
            /\ \A i \in DOMAIN links : links'[i] = links[i]
            /\ links'[new].email = thread[t].email /\ links'[new].created = thread[t].now
            /\ links'[new].kept
<1> DEFINE link == [email |-> thread[t].email, created |-> thread[t].now,
                    used |-> FALSE, kept |-> TRUE]
<1>1. links' = Append(links, link)
  BY DEF CreateLink
<1>0. link.email = thread[t].email /\ link.created = thread[t].now /\ link.kept
  OBVIOUS
<1> HIDE DEF link
<1>2. links \in Seq(Link)
  BY DEF TypeInv, TypeOK
<1>3. /\ DOMAIN links = 1..Len(links) /\ Len(links) \in Nat
      /\ DOMAIN links' = 1..(Len(links) + 1)
  BY <1>1, <1>2
<1>4. \A i \in 1..(Len(links) + 1) :
        links'[i] = IF i <= Len(links) THEN links[i] ELSE link
  BY <1>1, <1>2
<1>5. /\ 1..(Len(links) + 1) = 1..Len(links) \cup {Len(links) + 1}
      /\ Len(links) + 1 \notin 1..Len(links)
  BY <1>3
<1>6. DOMAIN links' = DOMAIN links \cup {Len(links) + 1} /\ Len(links) + 1 \notin DOMAIN links
  BY <1>3, <1>5
<1>7. links'[Len(links) + 1] = link /\ \A i \in DOMAIN links : links'[i] = links[i]
  BY <1>3, <1>4
<1> QED
  BY <1>0, <1>6, <1>7

LEMMA SessionsGrow ==
  ASSUME TypeInv, [Next]_vars
  PROVE  SessionsStayOrEnd \/ \E t \in Threads : OpenSession(t)
<1>0. \A i \in DOMAIN sessions : sessions[i] \in Session
  BY Elements DEF TypeInv
<1>1. ASSUME UNCHANGED sessions PROVE SessionsStayOrEnd
  BY <1>1 DEF SessionsStayOrEnd
<1>2. ASSUME NEW t \in Threads, NEW i \in DOMAIN sessions, Logout(t, i)
      PROVE  SessionsStayOrEnd
  <2>1. /\ DOMAIN sessions' = DOMAIN sessions
        /\ \A j \in DOMAIN sessions :
             sessions'[j] = IF j = i THEN [sessions[j] EXCEPT !.kept = FALSE] ELSE sessions[j]
    BY <1>2, Elements DEF Logout, TypeInv
  <2> QED
    BY <1>0, <2>1 DEF SessionsStayOrEnd, Session
<1>3. ASSUME NEW t \in Threads, DeleteAccount(t) \/ SweepSessions(t)
      PROVE  SessionsStayOrEnd
  BY <1>0, <1>3 DEF DeleteAccount, SessionsCascade, SweepSessions, SessionsStayOrEnd, Session
<1> QED
  BY <1>1, <1>2, <1>3 DEF Next, vars, Tick, AskLink, CreateLink, SendLink, ReadLink,
     MarkLink, SignIn, ResolveSession, SweepLinks, Abandon

LEMMA Opened ==
  ASSUME TypeInv, NEW t \in Threads, OpenSession(t)
  PROVE  /\ \A i \in DOMAIN sessions : i \in DOMAIN sessions' /\ sessions'[i] = sessions[i]
         /\ \A i \in DOMAIN sessions' :
              \/ i \in DOMAIN sessions /\ sessions'[i] = sessions[i]
              \/ sessions'[i].user = thread[t].user /\ sessions'[i].link = thread[t].link
<1> DEFINE new == [user |-> thread[t].user, created |-> clock, kept |-> TRUE,
                   link |-> thread[t].link]
<1>1. sessions' = Append(sessions, new)
  BY DEF OpenSession
<1>2. new.user = thread[t].user /\ new.link = thread[t].link
  OBVIOUS
<1> HIDE DEF new
<1>3. sessions \in Seq(Session)
  BY DEF TypeInv, TypeOK
<1>4. /\ DOMAIN sessions = 1..Len(sessions) /\ Len(sessions) \in Nat
      /\ DOMAIN sessions' = 1..(Len(sessions) + 1)
  BY <1>1, <1>3
<1>5. \A i \in 1..(Len(sessions) + 1) :
        sessions'[i] = IF i <= Len(sessions) THEN sessions[i] ELSE new
  BY <1>1, <1>3
<1> QED
  BY <1>2, <1>4, <1>5

LEMMA AccountsStep ==
  ASSUME TypeInv, SessionsHaveAccount, [Next]_vars
  PROVE  SessionsHaveAccount'
<1>0. users \in [UserIds -> Emails \cup {None}]
  BY DEF TypeInv, TypeOK
<1>1. ASSUME NEW t \in Threads, OpenSession(t) PROVE SessionsHaveAccount'
  <2>1. \A i \in DOMAIN sessions' :
          sessions'[i].user = thread[t].user \/ (i \in DOMAIN sessions /\ sessions'[i] = sessions[i])
    BY <1>1, Opened
  <2>2. thread[t].user \in Live
    BY <1>1 DEF OpenSession
  <2>3. Live' = Live
    BY <1>1 DEF OpenSession, Live
  <2> QED
    BY <2>1, <2>2, <2>3 DEF SessionsHaveAccount
<1>2. ASSUME SessionsStayOrEnd, Live \subseteq Live' PROVE SessionsHaveAccount'
  BY <1>2 DEF SessionsHaveAccount, SessionsStayOrEnd
<1>3. ASSUME NEW t \in Threads, DeleteAccount(t) PROVE SessionsHaveAccount'
  <2> DEFINE u == thread[t].user
  <2>1. \A i \in DOMAIN sessions : sessions[i] \in Session
    BY Elements DEF TypeInv
  <2>2. Live \ {u} \subseteq Live'
    BY <1>0, <1>3 DEF DeleteAccount, Live
  <2>3. /\ DOMAIN sessions' = DOMAIN sessions
        /\ \A i \in DOMAIN sessions :
             /\ sessions'[i].user = sessions[i].user
             /\ sessions'[i].kept => sessions[i].kept /\ sessions[i].user # u
    BY <1>3, <2>1 DEF DeleteAccount, SessionsCascade, Session
  <2> QED
    BY <2>2, <2>3 DEF SessionsHaveAccount
<1>4. ASSUME NEW t \in Threads, SignIn(t) PROVE Live \subseteq Live'
  <2>1. PICK u \in UserIds : users' = [users EXCEPT ![u] = links[thread[t].link].email]
    BY <1>4 DEF SignIn, Live, NextUserId
  <2>2. links[thread[t].link].email \in Emails
    BY <1>4, Local, Elements, Fields DEF SignIn, TypeInv
  <2> QED
    BY <1>0, <2>1, <2>2, LoginAssumption DEF Live
<1>5. UNCHANGED users \/ (\E t \in Threads : SignIn(t) \/ DeleteAccount(t))
  BY DEF Next, vars, Tick, AskLink, CreateLink, SendLink, ReadLink, MarkLink, OpenSession,
     ResolveSession, Logout, SweepSessions, SweepLinks, Abandon
<1> QED
  BY <1>1, <1>2, <1>3, <1>4, <1>5, SessionsGrow DEF Live

(* A session that is there has its account, though a request may have found the account
   in an earlier statement than the one that opens the session. *)
THEOREM SessionsKeepAccounts == Spec => []SessionsHaveAccount
<1>1. Init => SessionsHaveAccount
  BY DEF Init, SessionsHaveAccount
<1> QED
  BY <1>1, TypeInit, TypeStep, AccountsStep, PTL DEF Spec

-----------------------------------------------------------------------------
(* What has opened a session, or is about to, is marked as used. *)
LinkInv ==
  /\ \A s \in DOMAIN sessions : LET i == sessions[s].link
                               IN i \in DOMAIN links /\ links[i].used
  /\ \A t \in Threads : thread[t].pc \in {"consumed", "signed"} =>
                         LET i == thread[t].link
                         IN i \in DOMAIN links /\ links[i].used

LEMMA LinkStep ==
  ASSUME TypeInv, LinkInv, [Next]_vars
  PROVE  LinkInv'
<1> DEFINE Dead(i) == i \in DOMAIN links /\ links[i].used
<1>0. \A i : Dead(i) => Dead(i)'
  BY LinksGrow DEF LinksStay
<1>1. \A t \in Threads : thread'[t].pc \in {"consumed", "signed"} => Dead(thread[t].link)'
  <2>0. thread \in [Threads -> LocalStates]
    BY DEF TypeInv, TypeOK
  <2>1. ASSUME NEW t \in Threads, NEW local, Goes(t, local),
               local.pc \in {"consumed", "signed"} => Dead(local.link)'
        PROVE  \A s \in Threads : thread'[s].pc \in {"consumed", "signed"} => Dead(thread[s].link)'
    <3>1. \A s \in Threads : thread'[s] = IF s = t THEN local ELSE thread[s]
      BY <2>0, <2>1 DEF Goes
    <3> QED
      BY <1>0, <2>1, <3>1 DEF LinkInv
  <2>2. ASSUME NEW t \in Threads, NEW i, MarkLink(t), i = thread[t].link
        PROVE  Dead(i)'
    <3>1. i \in DOMAIN links
      BY <2>2, Local DEF MarkLink, TypeInv
    <3>2. links[i] \in Link
      BY <3>1, Elements DEF TypeInv
    <3>3. links' = [links EXCEPT ![i] = [links[i] EXCEPT !.used = TRUE]]
      BY <2>2 DEF MarkLink
    <3> QED
      BY <3>1, <3>2, <3>3 DEF Link
  <2>3. ASSUME NEW t \in Threads, MarkLink(t)
        PROVE  \A s \in Threads : thread'[s].pc \in {"consumed", "signed"} => Dead(thread[s].link)'
    <3>1. PICK i : i = thread[t].link
      OBVIOUS
    <3>2. Goes(t, [pc |-> "consumed", link |-> i])
      BY <2>3, <3>1 DEF MarkLink
    <3> QED
      BY <2>1, <2>2, <2>3, <3>1, <3>2
  <2>4. ASSUME NEW t \in Threads, SignIn(t)
        PROVE  \A s \in Threads : thread'[s].pc \in {"consumed", "signed"} => Dead(thread[s].link)'
    BY <1>0, <2>1, <2>4 DEF SignIn, LinkInv
  <2>5. CASE UNCHANGED thread
    BY <1>0, <2>5 DEF LinkInv
  <2>6. ASSUME NEW t \in Threads,
               \/ \E e \in Emails : AskLink(t, e)
               \/ CreateLink(t)
               \/ SendLink(t)
               \/ \E i \in DOMAIN links : ReadLink(t, i)
               \/ OpenSession(t)
               \/ \E i \in DOMAIN sessions : ResolveSession(t, i)
               \/ DeleteAccount(t)
               \/ SweepSessions(t)
               \/ SweepLinks(t)
               \/ Abandon(t)
        PROVE  \A s \in Threads : thread'[s].pc \in {"consumed", "signed"} => Dead(thread[s].link)'
    BY <2>1, <2>6 DEF AskLink, CreateLink, SendLink, ReadLink, OpenSession, ResolveSession,
       DeleteAccount, SweepSessions, SweepLinks, Abandon, Idle
  <2> QED
    BY <2>3, <2>4, <2>5, <2>6 DEF Next, vars, Tick, Logout
<1>2. \A s \in DOMAIN sessions' : Dead(sessions[s].link)'
  <2>1. CASE SessionsStayOrEnd
    BY <1>0, <2>1 DEF SessionsStayOrEnd, LinkInv
  <2>2. ASSUME NEW t \in Threads, OpenSession(t)
        PROVE  \A s \in DOMAIN sessions' : Dead(sessions[s].link)'
    <3>1. \A s \in DOMAIN sessions' : \/ sessions'[s].link = thread[t].link
                                      \/ s \in DOMAIN sessions /\ sessions'[s] = sessions[s]
      BY <2>2, Opened
    <3>2. Dead(thread[t].link)
      BY <2>2 DEF OpenSession, LinkInv
    <3> QED
      BY <1>0, <3>1, <3>2 DEF LinkInv
  <2> QED
    BY <2>1, <2>2, SessionsGrow
<1> QED
  BY <1>1, <1>2 DEF LinkInv

(* accounts.rs:190: a click that begins after a link has opened a session gets nowhere,
   whatever is swept or overlaps in between. *)
THEOREM LinksWorkOnce == Spec => UsedLinkIsDead
<1>1. Init => LinkInv
  BY DEF Init, LinkInv, Idle
<1>2. TypeInv /\ LinkInv /\ [Next]_vars =>
        [\A t \in Threads, i \in DOMAIN links :
           ReadLink(t, i) => \A s \in DOMAIN sessions : sessions[s].link # i]_vars
  BY DEF LinkInv, ReadLink, UsableLink
<1>3. TypeInv /\ LinkInv /\ [Next]_vars => LinkInv'
  BY LinkStep
<1> QED
  BY <1>1, <1>2, <1>3, TypeInit, TypeStep, PTL DEF Spec, UsedLinkIsDead

(* accounts.rs:363-370: what ends a session before its time is a logout or the end of
   its account; the sweep takes only what has expired for a day. *)
THEOREM SessionsOutliveTheSweep == Spec => SessionsLast
<1>1. ASSUME TypeInv, [Next]_vars, NEW i \in DOMAIN sessions,
             ValidSession(sessions[i]), ~sessions'[i].kept
      PROVE  users'[sessions[i].user] = None \/ \E t \in Threads : Logout(t, i)
  <2>0. /\ sessions[i] \in Session /\ sessions \in Seq(Session)
        /\ users \in [UserIds -> Emails \cup {None}] /\ clock \in Time
    BY <1>1, Elements DEF TypeInv, TypeOK
  <2>1. sessions[i].kept
    BY <1>1 DEF ValidSession
  <2>2. sessions' # sessions
    BY <1>1, <2>1
  <2>3. ~\E t \in Threads : OpenSession(t)
    BY <1>1, <2>0, <2>1, Opened
  <2>4. ASSUME NEW t \in Threads, NEW j \in DOMAIN sessions, Logout(t, j)
        PROVE  j = i
    BY <1>1, <2>0, <2>1, <2>4 DEF Logout
  <2>5. ASSUME NEW t \in Threads, SweepSessions(t)
        PROVE  FALSE
    <3>1. sessions'[i].kept = (sessions[i].kept /\ ~Swept(sessions[i].created, SessionTtl))
      BY <2>0, <2>5 DEF SweepSessions, Session
    <3>2. Swept(sessions[i].created, SessionTtl)
      BY <1>1, <2>1, <3>1
    <3>3. sessions[i].created \in Int
      BY <2>0 DEF Session, Time
    <3> QED
      BY <1>1, <2>0, <3>2, <3>3, LoginAssumption DEF Swept, ValidSession, Time
  <2>6. ASSUME NEW t \in Threads, DeleteAccount(t)
        PROVE  users'[sessions[i].user] = None
    <3>1. sessions[i].user = thread[t].user
      BY <1>1, <2>1, <2>6 DEF DeleteAccount, SessionsCascade
    <3>2. thread[t].user \in UserIds
      BY <1>1, <2>6, Local DEF DeleteAccount, TypeInv
    <3> QED
      BY <2>0, <2>6, <3>1, <3>2 DEF DeleteAccount
  <2> QED
    BY <1>1, <2>2, <2>3, <2>4, <2>5, <2>6 DEF Next, vars, Tick, AskLink, CreateLink, SendLink,
       ReadLink, MarkLink, SignIn, ResolveSession, SweepLinks, Abandon
<1>2. TypeInv /\ [Next]_vars =>
        [\A i \in DOMAIN sessions :
           ValidSession(sessions[i]) /\ ~sessions'[i].kept =>
             \/ users'[sessions[i].user] = None
             \/ \E t \in Threads : Logout(t, i)]_vars
  BY <1>1
<1> QED
  BY <1>2, TypeInit, TypeStep, PTL DEF Spec, SessionsLast

-----------------------------------------------------------------------------
(* The links of an interval, and the requests that have counted none and will each
   insert one: a request that begins to do so in the interval has counted none of it. *)
Within(from) == from..(from + Throttle - 1)

Made(e, from) == {i \in DOMAIN links : links[i].email = e /\ links[i].created \in Within(from)}

Making(e, from) ==
  {t \in Threads : /\ thread[t].pc = "linking"
                   /\ thread[t].email = e /\ thread[t].now \in Within(from)}

FewLinks ==
  \A e \in Emails, from \in Time :
    Cardinality(Made(e, from)) + Cardinality(Making(e, from)) <= Cardinality(Threads)

SweptAreOld ==
  /\ \A i \in DOMAIN links :
       ~links[i].kept => links[i].created + LinkTtl < clock - SweepAfter
  /\ \A t \in Threads : thread[t].pc = "sweeping" => thread[t].cutoff <= clock - SweepAfter

ThrottleInv == FewLinks /\ SweptAreOld

LEMMA Finite ==
  ASSUME TypeInv, NEW e, NEW from
  PROVE  /\ IsFiniteSet(Made(e, from)) /\ Cardinality(Made(e, from)) \in Nat
         /\ IsFiniteSet(Making(e, from)) /\ Cardinality(Making(e, from)) \in Nat
         /\ \A S \in SUBSET Making(e, from) :
              Cardinality(S) \in Nat /\ Cardinality(S) <= Cardinality(Making(e, from))
         /\ Cardinality(Threads) \in Nat
         /\ Cardinality(Making(e, from)) <= Cardinality(Threads)
<1>1. DOMAIN links = 1..Len(links) /\ Len(links) \in Nat
  BY Elements DEF TypeInv
<1>2. IsFiniteSet(DOMAIN links)
  BY <1>1, FS_Interval
<1>3. IsFiniteSet(Made(e, from))
  BY <1>2, FS_Subset DEF Made
<1>4. IsFiniteSet(Making(e, from)) /\ Cardinality(Making(e, from)) <= Cardinality(Threads)
  BY LoginAssumption, FS_Subset DEF Making
<1>5. \A S \in SUBSET Making(e, from) :
        IsFiniteSet(S) /\ Cardinality(S) <= Cardinality(Making(e, from))
  BY <1>4, FS_Subset
<1> QED
  BY <1>3, <1>4, <1>5, LoginAssumption, FS_CardinalityType

LEMMA SweptStep ==
  ASSUME TypeInv, SweptAreOld, [Next]_vars
  PROVE  SweptAreOld'
<1>0. /\ clock \in Int /\ clock' \in Int /\ clock <= clock'
      /\ \A i \in DOMAIN links : links[i] \in Link /\ links[i].created \in Int
      /\ {LinkTtl, SweepAfter} \subseteq Int
      /\ thread \in [Threads -> LocalStates]
  <2>1. clock \in Time /\ thread \in [Threads -> LocalStates]
    BY DEF TypeInv, TypeOK
  <2>2. \A i \in DOMAIN links : links[i] \in Link
    BY Elements DEF TypeInv
  <2>3. clock' = clock \/ clock' = clock + 1
    BY DEF Next, vars, Tick, AskLink, CreateLink, SendLink, ReadLink, MarkLink, SignIn,
       OpenSession, ResolveSession, Logout, DeleteAccount, SweepSessions, SweepLinks, Abandon
  <2> QED
    BY <2>1, <2>2, <2>3, LoginAssumption DEF Time, Link
<1>00. \A t \in Threads : thread[t].pc = "sweeping" => thread[t].cutoff \in Int
  BY <1>0 DEF LocalStates, Idle
<1>1. \A t \in Threads : thread'[t].pc = "sweeping" => thread'[t].cutoff <= clock' - SweepAfter
  <2>1. ASSUME NEW t \in Threads, NEW local, Goes(t, local),
               local.pc = "sweeping" => local.cutoff <= clock' - SweepAfter
        PROVE  \A s \in Threads :
                 thread'[s].pc = "sweeping" => thread'[s].cutoff <= clock' - SweepAfter
    <3>1. \A s \in Threads : thread'[s] = IF s = t THEN local ELSE thread[s]
      BY <1>0, <2>1 DEF Goes
    <3> QED
      BY <1>0, <1>00, <2>1, <3>1 DEF SweptAreOld
  <2>2. CASE UNCHANGED thread
    BY <1>0, <1>00, <2>2 DEF SweptAreOld
  <2>3. ASSUME NEW t \in Threads, SweepSessions(t) PROVE
          \A s \in Threads : thread'[s].pc = "sweeping" => thread'[s].cutoff <= clock' - SweepAfter
    BY <1>0, <2>1, <2>3 DEF SweepSessions
  <2>4. ASSUME NEW t \in Threads,
               \/ \E e \in Emails : AskLink(t, e)
               \/ CreateLink(t)
               \/ SendLink(t)
               \/ \E i \in DOMAIN links : ReadLink(t, i)
               \/ MarkLink(t)
               \/ SignIn(t)
               \/ OpenSession(t)
               \/ \E i \in DOMAIN sessions : ResolveSession(t, i)
               \/ DeleteAccount(t)
               \/ SweepLinks(t)
               \/ Abandon(t)
        PROVE  \A s \in Threads :
                 thread'[s].pc = "sweeping" => thread'[s].cutoff <= clock' - SweepAfter
    BY <2>1, <2>4 DEF AskLink, CreateLink, SendLink, ReadLink, MarkLink, SignIn, OpenSession,
       ResolveSession, DeleteAccount, SweepLinks, Abandon, Idle
  <2> QED
    BY <2>2, <2>3, <2>4 DEF Next, vars, Tick, Logout
<1>2. ASSUME NEW i \in DOMAIN links', ~links'[i].kept
      PROVE  links'[i].created + LinkTtl < clock' - SweepAfter
  <2>1. CASE UNCHANGED links
    BY <1>0, <1>2, <2>1 DEF SweptAreOld
  <2>2. ASSUME NEW t \in Threads, CreateLink(t)
        PROVE  i \in DOMAIN links /\ links'[i] = links[i]
    BY <1>2, <2>2, Created
  <2>3. ASSUME NEW t \in Threads, MarkLink(t)
        PROVE  i \in DOMAIN links /\ links'[i].kept = links[i].kept
    <3>1. DOMAIN links' = DOMAIN links
      BY <2>3 DEF MarkLink
    <3>2. links'[i] = IF i = thread[t].link THEN [links[i] EXCEPT !.used = TRUE] ELSE links[i]
      BY <1>2, <2>3, <3>1, Elements DEF MarkLink, TypeInv
    <3> QED
      BY <1>0, <1>2, <3>1, <3>2 DEF Link
  <2>4. ASSUME NEW t \in Threads, SweepLinks(t)
        PROVE  links[i].created + LinkTtl < clock - SweepAfter /\ i \in DOMAIN links
    <3>0. /\ DOMAIN links' = DOMAIN links
          /\ links'[i] = [links[i] EXCEPT !.kept =
               links[i].kept /\ ~(links[i].created + LinkTtl < thread[t].cutoff)]
      BY <1>2, <2>4 DEF SweepLinks
    <3>1. i \in DOMAIN links /\ (~links[i].kept \/ links[i].created + LinkTtl < thread[t].cutoff)
      BY <1>0, <1>2, <3>0 DEF Link
    <3>2. thread[t].cutoff \in Int /\ thread[t].cutoff <= clock - SweepAfter
      BY <1>00, <2>4 DEF SweepLinks, SweptAreOld
    <3> QED
      BY <1>0, <1>2, <3>1, <3>2 DEF SweptAreOld
  <2>5. i \in DOMAIN links => links'[i].created = links[i].created
    BY LinksGrow DEF LinksStay
  <2>6. ASSUME i \in DOMAIN links, links[i].created + LinkTtl < clock - SweepAfter
        PROVE  links'[i].created + LinkTtl < clock' - SweepAfter
    BY <1>0, <2>5, <2>6
  <2>7. i \in DOMAIN links /\ ~links[i].kept => links[i].created + LinkTtl < clock - SweepAfter
    BY DEF SweptAreOld
  <2>8. \/ UNCHANGED links
        \/ \E t \in Threads : CreateLink(t) \/ MarkLink(t) \/ SweepLinks(t)
    BY DEF Next, vars, Tick, AskLink, SendLink, ReadLink, SignIn, OpenSession,
       ResolveSession, Logout, DeleteAccount, SweepSessions, Abandon
  <2> QED
    BY <1>2, <2>1, <2>2, <2>3, <2>4, <2>6, <2>7, <2>8
<1> QED
  BY <1>1, <1>2 DEF SweptAreOld

LEMMA FewStep ==
  ASSUME TypeInv, TypeInv', ThrottleInv, [Next]_vars
  PROVE  FewLinks'
<1>0. /\ clock \in Int
      /\ \A i \in DOMAIN links : links[i].created \in Int
      /\ {Throttle, LinkTtl, SweepAfter} \subseteq Int /\ Throttle <= LinkTtl + SweepAfter
      /\ thread \in [Threads -> LocalStates]
  <2>1. clock \in Time /\ thread \in [Threads -> LocalStates]
    BY DEF TypeInv, TypeOK
  <2>2. \A i \in DOMAIN links : links[i].created \in Time
    BY Elements, Fields DEF TypeInv
  <2> QED
    BY <2>1, <2>2, LoginAssumption DEF Time
<1>1. ASSUME NEW t \in Threads, CreateLink(t), NEW e \in Emails, NEW from \in Time
      PROVE  Cardinality(Made(e, from)') + Cardinality(Making(e, from)') <= Cardinality(Threads)
  <2> DEFINE new == Len(links) + 1
             mine == thread[t].email = e /\ thread[t].now \in Within(from)
  <2>1. /\ new \notin DOMAIN links /\ DOMAIN links' = DOMAIN links \cup {new}
        /\ \A i \in DOMAIN links : links'[i] = links[i]
        /\ links'[new].email = thread[t].email /\ links'[new].created = thread[t].now
    BY <1>1, Created
  <2>2. /\ thread[t].pc = "linking" /\ thread'[t].pc = "sending"
        /\ \A s \in Threads \ {t} : thread'[s] = thread[s]
    BY <1>0, <1>1 DEF CreateLink, Goes
  <2> HIDE DEF new
  <2>3. CASE mine
    <3>1. Made(e, from)' = Made(e, from) \cup {new} /\ new \notin Made(e, from)
      BY <2>1, <2>3 DEF Made
    <3>2. Making(e, from)' = Making(e, from) \ {t} /\ t \in Making(e, from)
      BY <2>2, <2>3 DEF Making
    <3>3. Cardinality(Made(e, from)') = Cardinality(Made(e, from)) + 1
      BY <3>1, Finite, FS_AddElement
    <3>4. Cardinality(Making(e, from)') = Cardinality(Making(e, from)) - 1
      BY <3>2, Finite, FS_RemoveElement
    <3> QED
      BY <3>3, <3>4, Finite DEF ThrottleInv, FewLinks
  <2>4. CASE ~mine
    <3>1. Made(e, from)' = Made(e, from)
      BY <2>1, <2>4 DEF Made
    <3>2. Making(e, from)' = Making(e, from)
      BY <2>2, <2>4 DEF Making
    <3> QED
      BY <3>1, <3>2 DEF ThrottleInv, FewLinks
  <2> QED
    BY <2>3, <2>4
<1>2. ASSUME NEW t \in Threads, NEW a \in Emails, AskLink(t, a), NEW e \in Emails, NEW from \in Time
      PROVE  Cardinality(Made(e, from)') + Cardinality(Making(e, from)') <= Cardinality(Threads)
  <2>0. from \in Int
    BY DEF Time
  <2>1. Made(e, from)' = Made(e, from)
    BY <1>2 DEF AskLink, Made
  <2>2. /\ thread[t].pc = "idle"
        /\ \A s \in Threads : thread'[s] = IF s = t THEN [pc |-> "linking", email |-> a, now |-> clock]
                                        ELSE thread[s]
    BY <1>0, <1>2 DEF AskLink, Goes
  <2>3. CASE a = e /\ clock \in Within(from)
    <3>1. ASSUME NEW i \in Made(e, from) PROVE FALSE
      <4>1. i \in DOMAIN links /\ links[i].email = e /\ links[i].created > clock - Throttle
        BY <1>0, <2>0, <2>3, <3>1 DEF Made, Within
      <4>2. ~links[i].kept
        BY <1>2, <2>3, <4>1 DEF AskLink, Recent
      <4>3. links[i].created + LinkTtl < clock - SweepAfter
        BY <4>1, <4>2 DEF ThrottleInv, SweptAreOld
      <4> QED
        BY <1>0, <4>1, <4>3
    <3>2. Made(e, from)' = {}
      BY <2>1, <3>1
    <3>3. Cardinality(Made(e, from)') = 0
      BY <3>2, FS_EmptySet
    <3>4. Making(e, from)' \in SUBSET Threads
      BY DEF Making
    <3>5. /\ Cardinality(Making(e, from)') <= Cardinality(Threads)
          /\ Cardinality(Making(e, from)') \in Nat
      BY <3>4, LoginAssumption, FS_Subset, FS_CardinalityType
    <3> QED
      BY <3>3, <3>5, Finite
  <2>4. CASE ~(a = e /\ clock \in Within(from))
    <3>1. Making(e, from)' = Making(e, from)
      BY <2>2, <2>4 DEF Making
    <3> QED
      BY <2>1, <3>1 DEF ThrottleInv, FewLinks
  <2> QED
    BY <2>3, <2>4
<1>3. ASSUME DOMAIN links' = DOMAIN links,
             \A s \in Threads : thread'[s] = thread[s] \/ thread'[s].pc # "linking",
             NEW e \in Emails, NEW from \in Time
      PROVE  Cardinality(Made(e, from)') + Cardinality(Making(e, from)') <= Cardinality(Threads)
  <2>1. Made(e, from)' = Made(e, from)
    BY <1>3, LinksGrow DEF LinksStay, Made
  <2>2. Making(e, from)' \in SUBSET Making(e, from)
    BY <1>3 DEF Making
  <2> QED
    BY <2>1, <2>2, Finite DEF ThrottleInv, FewLinks
<1>4. \/ DOMAIN links' = DOMAIN links
      \/ \E t \in Threads : CreateLink(t)
  BY DEF Next, vars, Tick, AskLink, SendLink, ReadLink, MarkLink, SignIn, OpenSession,
     ResolveSession, Logout, DeleteAccount, SweepSessions, SweepLinks, Abandon
<1>5. \/ \A s \in Threads : thread'[s] = thread[s] \/ thread'[s].pc # "linking"
      \/ \E t \in Threads, e \in Emails : AskLink(t, e)
  <2>1. ASSUME NEW t \in Threads, NEW local, Goes(t, local), local.pc # "linking"
        PROVE  \A s \in Threads : thread'[s] = thread[s] \/ thread'[s].pc # "linking"
    BY <1>0, <2>1 DEF Goes
  <2>2. ASSUME NEW t \in Threads,
               \/ CreateLink(t)
               \/ SendLink(t)
               \/ \E i \in DOMAIN links : ReadLink(t, i)
               \/ MarkLink(t)
               \/ SignIn(t)
               \/ OpenSession(t)
               \/ \E i \in DOMAIN sessions : ResolveSession(t, i)
               \/ DeleteAccount(t)
               \/ SweepSessions(t)
               \/ SweepLinks(t)
               \/ Abandon(t)
        PROVE  \A s \in Threads : thread'[s] = thread[s] \/ thread'[s].pc # "linking"
    BY <2>1, <2>2 DEF CreateLink, SendLink, ReadLink, MarkLink, SignIn, OpenSession,
       ResolveSession, DeleteAccount, SweepSessions, SweepLinks, Abandon, Idle
  <2> QED
    BY <2>2 DEF Next, vars, Tick, Logout
<1> QED
  BY <1>1, <1>2, <1>3, <1>4, <1>5 DEF FewLinks

(* accounts.rs:23: an address has no more links of one interval than there are requests:
   one, but for requests that overlap, however links are used and swept in between. *)
THEOREM ThrottleIsKept == Spec => []ThrottleHolds
<1>1. Init => ThrottleInv
  <2> SUFFICES ASSUME Init PROVE ThrottleInv
    OBVIOUS
  <2>1. DOMAIN links = {}
    BY DEF Init
  <2>2. \A t \in Threads : thread[t].pc = "idle"
    BY DEF Init, Idle
  <2>3. \A e \in Emails, from \in Time : Made(e, from) = {} /\ Making(e, from) = {}
    BY <2>1, <2>2 DEF Made, Making
  <2>4. Cardinality(Threads) \in Nat
    BY LoginAssumption, FS_CardinalityType
  <2>5. FewLinks
    BY <2>3, <2>4, FS_EmptySet DEF FewLinks
  <2> QED
    BY <2>1, <2>2, <2>5 DEF ThrottleInv, SweptAreOld
<1>2. TypeInv /\ TypeInv' /\ ThrottleInv /\ [Next]_vars => ThrottleInv'
  BY FewStep, SweptStep DEF ThrottleInv
<1>3. TypeInv /\ ThrottleInv => ThrottleHolds
  <2> SUFFICES ASSUME TypeInv, ThrottleInv, NEW e \in Emails, NEW from \in Time
               PROVE  Cardinality(Made(e, from)) <= Cardinality(Threads)
    BY DEF ThrottleHolds, Made, Within
  <2> QED
    BY Finite DEF ThrottleInv, FewLinks
<1> QED
  BY <1>1, <1>2, <1>3, TypeInit, TypeStep, PTL DEF Spec
=============================================================================
