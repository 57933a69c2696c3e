------------------------------- MODULE Login -------------------------------
(***************************************************************************)
(* Signing in by a link sent by email: crates/core/src/accounts.rs         *)
(* (create_magic_link, consume_magic_link, sessions, sweep_expired) and    *)
(* the handlers of crates/app/src/account.rs.                              *)
(*                                                                         *)
(* None of the operations on links and sessions is a transaction: each SQL *)
(* statement is a step of its own, and requests interleave between them.   *)
(* The time a statement compares with or writes is the one its function    *)
(* took at the beginning.  Accounts models what the transaction of         *)
(* find_or_create_user does; here it is one step.                          *)
(***************************************************************************)
EXTENDS Integers, FiniteSets, Sequences

CONSTANTS
  Threads,      \* request handlers and the digest
  Emails,       \* normalized addresses
  None,         \* no such row
  Throttle,     \* LOGIN_THROTTLE_SECONDS
  LinkTtl,      \* MAGIC_LINK_TTL_MINUTES
  SessionTtl,   \* SESSION_TTL_DAYS
  SweepAfter,   \* the day expired rows are kept
  MaxUserId,    \* bound: row ids of users
  MaxLinks,     \* bound: links ever created
  MaxSessions,  \* bound: sessions ever opened
  MaxClock      \* bound: ticks

ASSUME LoginAssumption ==
  /\ {MaxUserId, MaxLinks, MaxSessions, MaxClock} \subseteq Nat
  /\ {Throttle, LinkTtl, SessionTtl, SweepAfter} \subseteq Nat \ {0}
  /\ Throttle <= LinkTtl + SweepAfter  \* 120 seconds; 15 minutes, a day
  /\ None \notin Emails
  /\ IsFiniteSet(Threads)

VARIABLES
  clock,
  users,     \* the users table: the address of each row
  links,     \* magic_links in the order of creation; `kept` until it is swept
  sessions,  \* sessions in the order of creation; `kept` until it is deleted
  inbox,     \* the links whose email has left
  thread     \* what each request holds between two steps

vars == <<clock, users, links, sessions, inbox, thread>>

UserIds == 1..MaxUserId
Time    == 0..MaxClock
Link    == [email: Emails, created: Time, used: BOOLEAN, kept: BOOLEAN]
(* `link`, the link the session was opened by, is history: no table has it. *)
Session == [user: UserIds, created: Time, kept: BOOLEAN, link: 1..MaxLinks]

Idle == [pc |-> "idle"]

Goes(t, local) == thread' = [thread EXCEPT ![t] = local]

ValidSession(s) == s.kept /\ clock < s.created + SessionTtl

-----------------------------------------------------------------------------
(* Mutant: a link that was used does not count. *)
RecentUnused(e) ==
  {i \in DOMAIN links : /\ links[i].kept /\ ~links[i].used
                        /\ links[i].email = e
                        /\ links[i].created > clock - Throttle}

Recent(e) ==
  {i \in DOMAIN links : /\ links[i].kept
                        /\ links[i].email = e
                        /\ links[i].created > clock - Throttle}

(* login, create_magic_link: the COUNT.  With a recent link the answer is the
   same, and nothing else happens. *)
AskLink(t, e) ==
  /\ thread[t].pc = "idle"
  /\ Recent(e) = {}
  /\ Goes(t, [pc |-> "linking", email |-> e, now |-> clock])
  /\ UNCHANGED <<clock, users, links, sessions, inbox>>

(* create_magic_link: the INSERT. *)
CreateLink(t) ==
  /\ thread[t].pc = "linking"
  /\ Len(links) < MaxLinks
  /\ links' = Append(links,
       [email |-> thread[t].email, created |-> thread[t].now,
        used |-> FALSE, kept |-> TRUE])
  /\ Goes(t, [pc |-> "sending", link |-> Len(links')])
  /\ UNCHANGED <<clock, users, sessions, inbox>>

(* login: the email leaves (a failure is Abandon: the link stays). *)
SendLink(t) ==
  /\ thread[t].pc = "sending"
  /\ inbox' = inbox \cup {thread[t].link}
  /\ Goes(t, Idle)
  /\ UNCHANGED <<clock, users, links, sessions>>

(* Mutant: whether the link was used is not asked. *)
UnexpiredLink(i) == links[i].kept /\ clock < links[i].created + LinkTtl

UsableLink(i) ==
  links[i].kept /\ ~links[i].used /\ clock < links[i].created + LinkTtl

(* verify, consume_magic_link: the SELECT finds the link. *)
ReadLink(t, i) ==
  /\ thread[t].pc = "idle"
  /\ i \in inbox
  /\ UsableLink(i)
  /\ Goes(t, [pc |-> "consuming", link |-> i])
  /\ UNCHANGED <<clock, users, links, sessions, inbox>>

(* consume_magic_link: the UPDATE, by the row's id and nothing else. *)
MarkLink(t) ==
  LET i == thread[t].link
  IN /\ thread[t].pc = "consuming"
     /\ links' = [links EXCEPT ![i].used = TRUE]
     /\ Goes(t, [pc |-> "consumed", link |-> i])
     /\ UNCHANGED <<clock, users, sessions, inbox>>

Live == {u \in UserIds : users[u] # None}

(* Mutant: the row id is read before the INSERT. *)
LastRowId == {Cardinality(Live)}

NextUserId == {u \in UserIds : /\ \A v \in Live : v < u
                               /\ u = 1 \/ u - 1 \in Live}

(* verify, find_or_create_user; without consent for a new account, Abandon. *)
SignIn(t) ==
  LET link == links[thread[t].link]
      mine == {u \in Live : users[u] = link.email}
  IN /\ thread[t].pc = "consumed"
     /\ \E u \in IF mine # {} THEN mine ELSE NextUserId :
          /\ users' = [users EXCEPT ![u] = link.email]
          /\ Goes(t, [pc |-> "signed", link |-> thread[t].link, user |-> u])
     /\ UNCHANGED <<clock, links, sessions, inbox>>

(* verify, create_session: its foreign key needs the account. *)
OpenSession(t) ==
  LET local == thread[t]
  IN /\ local.pc = "signed"
     /\ local.user \in Live
     /\ Len(sessions) < MaxSessions
     /\ sessions' = Append(sessions,
          [user |-> local.user, created |-> clock, kept |-> TRUE,
           link |-> local.link])
     /\ Goes(t, Idle)
     /\ UNCHANGED <<clock, users, links, inbox>>

-----------------------------------------------------------------------------
(* current_user, user_by_session: the account of a session that has not
   expired; the request goes on with its id. *)
ResolveSession(t, i) ==
  /\ thread[t].pc = "idle"
  /\ ValidSession(sessions[i])
  /\ Goes(t, [pc |-> "resolved", user |-> sessions[i].user])
  /\ UNCHANGED <<clock, users, links, sessions, inbox>>

(* Mutant: the sessions outlive their account. *)
SessionsStay(u) == sessions

SessionsCascade(u) ==
  [i \in DOMAIN sessions |->
     IF sessions[i].user = u THEN [sessions[i] EXCEPT !.kept = FALSE]
     ELSE sessions[i]]

(* delete_account, delete_user: the sessions go with the account; the links are
   not in any relation to it. *)
DeleteAccount(t) ==
  LET u == thread[t].user
  IN /\ thread[t].pc = "resolved"
     /\ u \in Live
     /\ users' = [users EXCEPT ![u] = None]
     /\ sessions' = SessionsCascade(u)
     /\ Goes(t, Idle)
     /\ UNCHANGED <<clock, links, inbox>>

(* logout, delete_session. *)
Logout(t, i) ==
  /\ thread[t].pc = "idle"
  /\ sessions' = [sessions EXCEPT ![i].kept = FALSE]
  /\ UNCHANGED <<clock, users, links, inbox, thread>>

(* Mutant: rows of a day and more go, whether they have expired or not. *)
SweptByAge(created, ttl) == created + SweepAfter <= clock

Swept(created, ttl) == created + ttl < clock - SweepAfter

(* sweep_expired, first the sessions ... *)
SweepSessions(t) ==
  /\ thread[t].pc = "idle"
  /\ sessions' = [i \in DOMAIN sessions |->
       [sessions[i] EXCEPT !.kept = @ /\ ~Swept(sessions[i].created, SessionTtl)]]
  /\ Goes(t, [pc |-> "sweeping", cutoff |-> clock - SweepAfter])
  /\ UNCHANGED <<clock, users, links, inbox>>

(* ... then the links. *)
SweepLinks(t) ==
  /\ thread[t].pc = "sweeping"
  /\ links' = [i \in DOMAIN links |->
       [links[i] EXCEPT
          !.kept = @ /\ ~(links[i].created + LinkTtl < thread[t].cutoff)]]
  /\ Goes(t, Idle)
  /\ UNCHANGED <<clock, users, sessions, inbox>>

(* An error of the database or of the mailer, a refusal, a restart. *)
Abandon(t) ==
  /\ thread[t].pc # "idle"
  /\ Goes(t, Idle)
  /\ UNCHANGED <<clock, users, links, sessions, inbox>>

Tick ==
  /\ clock < MaxClock
  /\ clock' = clock + 1
  /\ UNCHANGED <<users, links, sessions, inbox, thread>>

-----------------------------------------------------------------------------
Init ==
  /\ clock = 0
  /\ users = [u \in UserIds |-> None]
  /\ links = <<>>
  /\ sessions = <<>>
  /\ inbox = {}
  /\ thread = [t \in Threads |-> Idle]

Next ==
  \/ Tick
  \/ \E t \in Threads :
       \/ \E e \in Emails : AskLink(t, e)
       \/ CreateLink(t)
       \/ SendLink(t)
       \/ \E i \in DOMAIN links : ReadLink(t, i)
       \/ MarkLink(t)
       \/ SignIn(t)
       \/ OpenSession(t)
       \/ \E i \in DOMAIN sessions : ResolveSession(t, i) \/ Logout(t, i)
       \/ DeleteAccount(t)
       \/ SweepSessions(t)
       \/ SweepLinks(t)
       \/ Abandon(t)

Spec == Init /\ [][Next]_vars

-----------------------------------------------------------------------------
LocalStates ==
  {Idle}
  \cup [pc: {"linking"}, email: Emails, now: Time]
  \cup [pc: {"sending"}, link: DOMAIN links]
  \cup [pc: {"consuming", "consumed"}, link: DOMAIN links]
  \cup [pc: {"signed"}, link: DOMAIN links, user: UserIds]
  \cup [pc: {"resolved"}, user: UserIds]
  \cup [pc: {"sweeping"}, cutoff: Int]

TypeOK ==
  /\ clock \in Time
  /\ users \in [UserIds -> Emails \cup {None}]
  /\ links \in Seq(Link)
  /\ sessions \in Seq(Session)
  /\ inbox \subseteq DOMAIN links
  /\ thread \in [Threads -> LocalStates]

(* "Cel mult un link de autentificare per adresă în acest interval"
   (accounts.rs:23), up to requests that overlap: neither a click nor the sweep
   lets an address have more links in the interval than there are requests. *)
ThrottleHolds ==
  \A e \in Emails, from \in Time :
    Cardinality({i \in DOMAIN links :
                   /\ links[i].email = e
                   /\ links[i].created \in from..(from + Throttle - 1)})
      <= Cardinality(Threads)

(* "Un jeton merge o singură dată" (accounts.rs:190), up to clicks that overlap:
   once a link has opened a session, no click that begins later gets anywhere. *)
UsedLinkIsDead ==
  [][\A t \in Threads, i \in DOMAIN links :
       ReadLink(t, i) => \A s \in DOMAIN sessions : sessions[s].link # i]_vars

(* A session never refers to an account that is gone, although the request that
   opens it may have found the account before it was deleted (account.rs:173-177). *)
SessionsHaveAccount ==
  \A i \in DOMAIN sessions : sessions[i].kept => sessions[i].user \in Live

(* A session that has not expired ends only by a logout or with its account: the
   sweep that runs next to the requests never takes it (accounts.rs:363-370). *)
SessionsLast ==
  [][\A i \in DOMAIN sessions :
       ValidSession(sessions[i]) /\ ~sessions'[i].kept =>
         \/ users'[sessions[i].user] = None
         \/ \E t \in Threads : Logout(t, i)]_vars
=============================================================================
