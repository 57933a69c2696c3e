----------------------------- MODULE JobsProofs -----------------------------
(***************************************************************************)
(* Proofs about Jobs: the alerts, the marker of the full sync and the      *)
(* outcomes in sync_runs, for any number of meetings, days, markers and    *)
(* command lines.                                                          *)
(***************************************************************************)
EXTENDS Jobs, TLAPS

Listed == {m \in Meetings : rows[m] # None}

(* What a process holds exists: the meetings it syncs are on the city's page, those
   it mails about have a row. *)
HeldExist ==
  \A p \in Processes :
    /\ run[p].pc = "syncing" => \A m \in run[p].todo : site[m] # None
    /\ run[p].pc \in {"sending", "marking"} => run[p].todo \subseteq Listed

(* A marker, and a full sync the server still has to start, are each granted. *)
Grants ==
  LET pending == run[Server].pc \in {"pause", "starting"} /\ run[Server].full
  IN /\ marker => granted >= 1
     /\ pending => granted >= 1
     /\ marker /\ pending => granted >= 2

TypeInv == WellFormed /\ HeldExist /\ Grants

-----------------------------------------------------------------------------
LEMMA TypeInit == Init => TypeInv
<1> SUFFICES ASSUME Init PROVE TypeInv
  OBVIOUS
<1>1. Off \in LocalStates /\ 0 \in Days /\ 0 \in 0..MaxMarkers
  BY JobsAssumption DEF Off, LocalStates, Days
<1>2. WellFormed
  BY <1>1 DEF Init, WellFormed, RunStates
<1>3. HeldExist
  BY DEF Init, HeldExist, Off
<1>4. Grants
  BY DEF Init, Grants, Processes, Off
<1> QED
  BY <1>2, <1>3, <1>4 DEF TypeInv

(* The steps of the world: the city, the people with a shell, the calendar. *)
LEMMA TypeWorld ==
  ASSUME TypeInv,
         \/ \E m \in Meetings, d \in Days : Announce(m, d)
         \/ TouchMarker
         \/ NextDay
  PROVE  TypeInv'
<1>1. ASSUME NEW m \in Meetings, NEW d \in Days, Announce(m, d)
      PROVE  TypeInv'
  BY <1>1, JobsAssumption DEF TypeInv, WellFormed, HeldExist, Grants, Announce, Listed
<1>2. CASE TouchMarker
  BY <1>2, JobsAssumption DEF TypeInv, WellFormed, HeldExist, Grants, TouchMarker, Listed
<1>3. CASE NextDay
  BY <1>3, JobsAssumption DEF TypeInv, WellFormed, HeldExist, Grants, NextDay, Listed, Days
<1> QED
  BY <1>1, <1>2, <1>3

(* A step that gives one process another local state and leaves the tables. *)
LEMMA TypeGoes ==
  ASSUME TypeInv,
         NEW p \in Processes, NEW local \in LocalStates, Goes(p, local),
         UNCHANGED <<today, site, rows>>,
         syncRuns' \in [Processes -> RunStates],
         {running', marker'} \subseteq BOOLEAN,
         granted' \in 0..MaxMarkers,
         mailed' \subseteq Meetings,
         excused' \subseteq Meetings,
         ended' \in [Processes -> {None, "ok", "failed"}],
         local.pc = "syncing" => \A m \in local.todo : site[m] # None,
         local.pc \in {"sending", "marking"} => local.todo \subseteq Listed,
         Grants'
  PROVE  TypeInv'
BY DEF TypeInv, WellFormed, HeldExist, Goes, Listed

(* Where that local state is no full sync to come, and the marker stays. *)
LEMMA TypeMoves ==
  ASSUME TypeInv,
         NEW p \in Processes, NEW local \in LocalStates, Goes(p, local),
         UNCHANGED <<today, site, rows, marker, granted>>,
         syncRuns' \in [Processes -> RunStates],
         running' \in BOOLEAN,
         mailed' \subseteq Meetings,
         excused' \subseteq Meetings,
         ended' \in [Processes -> {None, "ok", "failed"}],
         local.pc = "syncing" => \A m \in local.todo : site[m] # None,
         local.pc \in {"sending", "marking"} => local.todo \subseteq Listed,
         p = Server => ~(local.pc \in {"pause", "starting"} /\ local.full)
  PROVE  TypeInv'
<1>1. Grants'
  BY DEF TypeInv, WellFormed, Grants, Goes, Processes
<1> QED
  BY <1>1, TypeGoes DEF TypeInv, WellFormed

(* The server's task, up to its sync. *)
LEMMA TypeServer ==
  ASSUME TypeInv, StartServer \/ TakeMarker \/ BeginRound
  PROVE  TypeInv'
<1> USE DEF TypeInv, WellFormed, LocalStates
<1>0. Server \in Processes
  BY DEF Processes
<1>1. CASE StartServer
  <2>1. CloseStale \in [Processes -> RunStates]
    BY DEF CloseStale, RunStates
  <2> QED
    BY <1>0, <1>1, <2>1, TypeMoves DEF StartServer
<1>2. CASE TakeMarker
  <2>1. PICK full \in BOOLEAN :
          /\ Goes(Server, [pc |-> "pause", full |-> full])
          /\ full => marker /\ ~marker'
          /\ marker' \in BOOLEAN
          /\ marker' => marker
    BY <1>2 DEF TakeMarker, MarkerAfter, Pause
  <2>2. Grants'
    BY <1>0, <1>2, <2>1 DEF TakeMarker, Grants, Goes
  <2> QED
    BY <1>0, <1>2, <2>1, <2>2, TypeGoes DEF TakeMarker
<1>3. CASE BeginRound
  <2>0. run[Server].full \in BOOLEAN
    BY <1>0, <1>3 DEF BeginRound, Off
  <2>1. PICK pc \in {"pause", "starting"}, full \in BOOLEAN :
          /\ Goes(Server, [pc |-> pc, full |-> full])
          /\ full => run[Server].full
    <3>1. CASE running
      BY <1>3, <3>1 DEF BeginRound, Pause
    <3>2. CASE ~running
      BY <1>3, <2>0, <3>2 DEF BeginRound
    <3> QED
      BY <3>1, <3>2
  <2>2. running' \in BOOLEAN
    BY <1>3 DEF BeginRound
  <2>3. Grants'
    BY <1>0, <1>3, <2>1 DEF BeginRound, Grants, Goes
  <2> QED
    BY <1>0, <1>3, <2>1, <2>2, <2>3, TypeGoes DEF BeginRound
<1> QED
  BY <1>1, <1>2, <1>3

LEMMA TypeCli ==
  ASSUME TypeInv,
         NEW p \in Cli, (\E full \in BOOLEAN : BeginCli(p, full)) \/ BeginNotify(p)
  PROVE  TypeInv'
<1> USE DEF TypeInv, WellFormed, LocalStates
<1>0. p \in Processes /\ p # Server
  BY JobsAssumption DEF Processes
<1>1. ASSUME NEW full \in BOOLEAN, BeginCli(p, full)
      PROVE  TypeInv'
  BY <1>0, <1>1, TypeMoves DEF BeginCli
<1>2. CASE BeginNotify(p)
  BY <1>0, <1>2, TypeMoves DEF BeginNotify
<1> QED
  BY <1>1, <1>2

(* The steps of a sync that write no meeting. *)
LEMMA TypeSync ==
  ASSUME TypeInv,
         NEW p \in Processes,
         \/ FetchListing(p)
         \/ \E m \in Meetings : FailMeeting(p, m)
         \/ GiveUp(p)
         \/ EndSync(p)
         \/ FinishRun(p)
         \/ LoseRun(p)
  PROVE  TypeInv'
<1> USE DEF TypeInv, WellFormed
<1>1. CASE FetchListing(p)
  <2> DEFINE local == Syncing(Selected(run[p].full), FALSE)
  <2>1. local \in LocalStates /\ local.pc = "syncing"
    BY DEF Syncing, Selected, LocalStates
  <2>2. \A m \in local.todo : site[m] # None
    BY DEF Syncing, Selected
  <2> QED
    BY <1>1, <2>1, <2>2, TypeMoves DEF FetchListing
<1>2. ASSUME NEW m \in Meetings, FailMeeting(p, m)
      PROVE  TypeInv'
  <2> DEFINE local == Syncing(run[p].todo \ {m}, TRUE)
  <2>1. local \in LocalStates /\ local.pc = "syncing"
    BY <1>2 DEF FailMeeting, Syncing, LocalStates, Off
  <2>2. \A o \in local.todo : site[o] # None
    BY <1>2 DEF FailMeeting, HeldExist, Syncing
  <2> QED
    BY <1>2, <2>1, <2>2, TypeMoves DEF FailMeeting
<1>3. CASE GiveUp(p)
  BY <1>3, TypeMoves DEF GiveUp, LocalStates
<1>4. CASE EndSync(p)
  <2>1. PICK outcome \in {"ok", "failed"} : Goes(p, [pc |-> "finishing", outcome |-> outcome])
    BY <1>4 DEF EndSync
  <2> QED
    BY <1>4, <2>1, TypeMoves DEF EndSync, LocalStates
<1>5. AfterRun(p) \in LocalStates /\ AfterRun(p).pc \in {"selecting", "off"}
  BY DEF AfterRun, Off, LocalStates
<1>6. CASE FinishRun(p)
  <2>1. run[p].outcome \in {"ok", "failed"}
    BY <1>6 DEF FinishRun, LocalStates, Off
  <2>2. /\ syncRuns' \in [Processes -> RunStates]
        /\ ended' \in [Processes -> {None, "ok", "failed"}]
    BY <1>6, <2>1 DEF FinishRun, Finished, RunStates
  <2>3. running' \in BOOLEAN
    BY <1>6 DEF FinishRun, Lowered
  <2> QED
    BY <1>5, <1>6, <2>2, <2>3, TypeMoves DEF FinishRun, Lowered
<1>7. CASE LoseRun(p)
  <2>1. running' \in BOOLEAN
    BY <1>7 DEF LoseRun, Lowered
  <2> QED
    BY <1>5, <1>7, <2>1, TypeMoves DEF LoseRun
<1> QED
  BY <1>1, <1>2, <1>3, <1>4, <1>6, <1>7

(* A full sync of the server that starts uses up what was granted for it. *)
LEMMA TypeStartRun ==
  ASSUME TypeInv, NEW p \in Processes, StartRun(p)
  PROVE  TypeInv'
<1> USE DEF TypeInv, WellFormed
<1>1. run[p].full \in BOOLEAN
  BY DEF StartRun, LocalStates, Off
<1>2. [pc |-> "listing", full |-> run[p].full] \in LocalStates
  BY <1>1 DEF LocalStates
<1>3. syncRuns' \in [Processes -> RunStates] /\ ended' \in [Processes -> {None, "ok", "failed"}]
  BY DEF StartRun, RunStates
<1>4. granted' \in 0..MaxMarkers /\ Grants'
  <2>1. CASE p = Server /\ run[p].full
    BY <2>1, JobsAssumption DEF StartRun, Grants, Goes
  <2>2. CASE p # Server \/ ~run[p].full
    BY <2>2 DEF StartRun, Grants, Goes, Processes
  <2> QED
    BY <2>1, <2>2
<1> QED
  BY <1>2, <1>3, <1>4, TypeGoes DEF StartRun

(* A step that writes the row of a meeting. *)
LEMMA TypeWrites ==
  ASSUME TypeInv,
         NEW p \in Processes, NEW m \in Meetings, NEW row \in Row,
         NEW local \in LocalStates, Goes(p, local),
         rows' = [rows EXCEPT ![m] = row],
         UNCHANGED <<today, site, syncRuns, running, marker, mailed, excused, granted,
                     ended>>,
         local.pc \in {"syncing", "sending", "marking"} =>
           local.pc = run[p].pc /\ local.todo \subseteq run[p].todo,
         p = Server => ~(local.pc \in {"pause", "starting"} /\ local.full)
  PROVE  TypeInv'
<1> USE DEF TypeInv, WellFormed
<1>1. rows' \in [Meetings -> Row \cup {None}] /\ Listed \subseteq Listed'
  BY JobsAssumption DEF Listed
<1>2. run' \in [Processes -> LocalStates]
  BY DEF Goes
<1>3. HeldExist'
  BY <1>1 DEF HeldExist, Goes
<1>4. Grants'
  BY DEF Grants, Goes, Processes
<1> QED
  BY <1>1, <1>2, <1>3, <1>4

LEMMA TypeSyncMeeting ==
  ASSUME TypeInv, NEW p \in Processes, NEW m \in Meetings, SyncMeeting(p, m)
  PROVE  TypeInv'
<1> DEFINE local == Syncing(run[p].todo \ {m}, run[p].failed)
<1>1. local \in LocalStates
  BY DEF TypeInv, WellFormed, SyncMeeting, Syncing, LocalStates, Off
<1>2. Upserted(m) \in Row
  BY DEF TypeInv, WellFormed, HeldExist, SyncMeeting, Upserted, Row
<1>3. local.pc = "syncing" /\ run[p].pc = "syncing" /\ local.todo \subseteq run[p].todo
  BY DEF SyncMeeting, Syncing
<1> HIDE DEF local
<1> QED
  BY <1>1, <1>2, <1>3, TypeWrites DEF SyncMeeting, local

LEMMA TypeMark ==
  ASSUME TypeInv, NEW p \in Processes, NEW m \in Meetings, Mark(p, m)
  PROVE  TypeInv'
<1>1. [date |-> rows[m].date, alerted |-> TRUE] \in Row
  BY DEF TypeInv, WellFormed, HeldExist, Listed, Mark, Row
<1>2. PICK local :
        /\ Goes(p, local)
        /\ \/ local = AfterAlert(p)
           \/ local = [pc |-> "marking", todo |-> run[p].todo \ {m}] /\ run[p].todo # {m}
  BY DEF Mark
<1>3. CASE local = AfterAlert(p)
  BY <1>1, <1>2, <1>3, TypeWrites DEF Mark, AfterAlert, Pause, Off, LocalStates
<1>4. CASE local = [pc |-> "marking", todo |-> run[p].todo \ {m}] /\ run[p].todo # {m}
  <2>1. local \in LocalStates
    BY <1>4 DEF TypeInv, WellFormed, Mark, LocalStates, Off
  <2> QED
    BY <1>1, <1>2, <1>4, <2>1, TypeWrites DEF Mark
<1> QED
  BY <1>2, <1>3, <1>4

(* The other steps of an alert. *)
LEMMA TypeAlert ==
  ASSUME TypeInv,
         NEW p \in Processes,
         Select(p) \/ Send(p) \/ FailToSend(p) \/ FailAlert(p) \/ Crash(p)
  PROVE  TypeInv'
<1> USE DEF TypeInv, WellFormed
<1>1. /\ AfterAlert(p) \in LocalStates /\ Off \in LocalStates
      /\ AfterAlert(p).pc \in {"pause", "off"} /\ Off.pc = "off"
      /\ AfterAlert(p).pc = "pause" => ~AfterAlert(p).full
  BY DEF AfterAlert, Pause, Off, LocalStates
<1>2. ToAlert \subseteq Listed
  BY DEF ToAlert, Listed
<1>3. run[p].pc \in {"sending", "marking"} => run[p].todo \subseteq Meetings /\ run[p].todo # {}
  BY DEF LocalStates, Off
<1>4. CASE Select(p)
  <2>1. excused' \subseteq Meetings
    BY <1>4, <1>2 DEF Select, Listed
  <2>2. CASE ToAlert = {}
    BY <1>1, <1>4, <2>1, <2>2, TypeMoves DEF Select
  <2>3. CASE ToAlert # {}
    <3>1. [pc |-> "sending", todo |-> ToAlert] \in LocalStates
      BY <1>2, <2>3 DEF LocalStates, Listed
    <3> QED
      BY <1>2, <1>4, <2>1, <2>3, <3>1, TypeMoves DEF Select
  <2> QED
    BY <2>2, <2>3
<1>5. CASE Send(p)
  <2>1. [pc |-> "marking", todo |-> run[p].todo] \in LocalStates
    BY <1>3, <1>5 DEF Send, LocalStates
  <2>2. mailed' \subseteq Meetings /\ run[p].todo \subseteq Listed
    BY <1>3, <1>5 DEF Send, HeldExist
  <2> QED
    BY <1>5, <2>1, <2>2, TypeMoves DEF Send
<1>6. CASE FailToSend(p)
  <2>1. mailed' \subseteq Meetings /\ excused' \subseteq Meetings
    BY <1>3, <1>6 DEF FailToSend
  <2> QED
    BY <1>1, <1>6, <2>1, TypeMoves DEF FailToSend, AfterFailure
<1>7. CASE FailAlert(p)
  <2>1. excused' \subseteq Meetings
    BY <1>3, <1>7 DEF FailAlert
  <2> QED
    BY <1>1, <1>7, <2>1, TypeMoves DEF FailAlert
<1>8. CASE Crash(p)
  <2>1. mailed' \subseteq Meetings /\ excused' \subseteq Meetings
    BY <1>3, <1>8 DEF Crash
  <2> QED
    BY <1>1, <1>8, <2>1, TypeMoves DEF Crash
<1> QED
  BY <1>4, <1>5, <1>6, <1>7, <1>8

-----------------------------------------------------------------------------
LEMMA TypeStep == TypeInv /\ [Next]_vars => TypeInv'
<1> SUFFICES ASSUME TypeInv, [Next]_vars PROVE TypeInv'
  OBVIOUS
<1>1. CASE UNCHANGED vars
  BY <1>1 DEF vars, TypeInv, WellFormed, HeldExist, Grants, Listed
<1>2. CASE Next
  BY <1>2, TypeWorld, TypeServer, TypeCli, TypeSync, TypeStartRun, TypeSyncMeeting,
     TypeMark, TypeAlert DEF Next, Sync, Alert
<1> QED
  BY <1>1, <1>2

LEMMA TypeHolds == Spec => []TypeInv
BY TypeInit, TypeStep, PTL DEF Spec

LEMMA FlagStep == TypeInv /\ FlagIsOfTheSync /\ [Next]_vars => FlagIsOfTheSync'
<1> SUFFICES ASSUME run \in [Processes -> LocalStates], running \in BOOLEAN,
                    FlagIsOfTheSync, [Next]_vars
             PROVE  FlagIsOfTheSync'
  BY DEF TypeInv, WellFormed
<1> USE DEF FlagIsOfTheSync, Goes
<1>0. Server \in Processes /\ Server \notin Cli
  BY JobsAssumption DEF Processes
<1>1. CASE \/ UNCHANGED vars
           \/ \E m \in Meetings, d \in Days : Announce(m, d)
           \/ TouchMarker
           \/ NextDay
  BY <1>1 DEF vars, Announce, TouchMarker, NextDay
<1>2. CASE StartServer
  BY <1>0, <1>2 DEF StartServer
<1>3. CASE TakeMarker
  BY <1>0, <1>3 DEF TakeMarker, Pause
<1>4. CASE BeginRound
  BY <1>0, <1>4 DEF BeginRound
<1>5. ASSUME NEW p \in Cli, (\E full \in BOOLEAN : BeginCli(p, full)) \/ BeginNotify(p)
      PROVE  FlagIsOfTheSync'
  <2>1. run'[Server] = run[Server] /\ running' = running
    BY <1>0, <1>5 DEF BeginCli, BeginNotify
  <2> QED
    BY <2>1
<1>6. ASSUME NEW p \in Processes, Sync(p)
      PROVE  FlagIsOfTheSync'
  <2>1. CASE p # Server
    <3>1. run'[Server] = run[Server] /\ running' = running
      BY <1>0, <1>6, <2>1 DEF Sync, StartRun, FetchListing, SyncMeeting, FailMeeting, GiveUp,
         EndSync, FinishRun, LoseRun, Lowered
    <3> QED
      BY <3>1
  <2>2. CASE p = Server /\ ~(FinishRun(p) \/ LoseRun(p))
    <3>1. /\ run[Server].pc \in {"starting", "listing", "syncing"}
          /\ run'[Server].pc \in {"listing", "syncing", "finishing"}
          /\ running' = running
      BY <1>0, <1>6, <2>2 DEF Sync, StartRun, FetchListing, SyncMeeting, FailMeeting, GiveUp,
         EndSync, Syncing
    <3> QED
      BY <3>1
  <2>3. CASE p = Server /\ (FinishRun(p) \/ LoseRun(p))
    <3>1. run'[Server].pc = "selecting"
      BY <1>0, <2>3 DEF FinishRun, LoseRun, AfterRun
    <3>2. running' = Lowered(Server)
      BY <2>3 DEF FinishRun, LoseRun
    <3>3. ~running'
      BY <3>2, Zenon DEF Lowered
    <3> QED
      BY <3>1, <3>3
  <2> QED
    BY <2>1, <2>2, <2>3
<1>7. ASSUME NEW p \in Processes, Alert(p)
      PROVE  FlagIsOfTheSync'
  <2>1. CASE p # Server
    <3>1. run'[Server] = run[Server] /\ running' = running
      BY <1>0, <1>7, <2>1 DEF Alert, Select, Send, FailToSend, Mark, FailAlert
    <3> QED
      BY <3>1
  <2>2. CASE p = Server
    <3>1. /\ run[Server].pc \in {"selecting", "sending", "marking"}
          /\ run'[Server].pc \in {"selecting", "sending", "marking", "pause"}
          /\ running' = running
      BY <1>0, <1>7, <2>2 DEF Alert, Select, Send, FailToSend, Mark, FailAlert, AfterFailure,
         AfterAlert, Pause
    <3> QED
      BY <3>1
  <2> QED
    BY <2>1, <2>2
<1>8. ASSUME NEW p \in Processes, Crash(p)
      PROVE  FlagIsOfTheSync'
  BY <1>0, <1>8 DEF Crash, Off
<1> QED
  BY <1>1, <1>2, <1>3, <1>4, <1>5, <1>6, <1>7, <1>8 DEF Next

(* Tables and local states are well-formed, and the flag of a server that runs is up
   exactly during its sync. *)
THEOREM TypeCorrect == Spec => []TypeOK
<1>1. Init => FlagIsOfTheSync
  BY DEF Init, FlagIsOfTheSync, Off, Processes
<1>2. TypeInv /\ FlagIsOfTheSync => TypeOK
  BY DEF TypeInv, TypeOK
<1> QED
  BY <1>1, <1>2, FlagStep, TypeHolds, PTL DEF Spec

(* Every full sync of the server that starts was granted by a marker of its own,
   whatever fails and however often the server restarts. *)
THEOREM MarkersCount == Spec => MarkerIsForOneRun
<1>1. TypeInv /\ [Next]_vars => [StartRun(Server) /\ run[Server].full => granted > 0]_vars
  BY DEF TypeInv, WellFormed, Grants, StartRun
<1> QED
  BY <1>1, TypeHolds, PTL DEF Spec, MarkerIsForOneRun

-----------------------------------------------------------------------------
(* A run that has ended is in sync_runs with its own outcome: a server that starts
   closes only what is open, and what it closed too early is corrected. *)
THEOREM OutcomesAreRecorded == Spec => []OutcomeIsRecorded
<1>1. Init => OutcomeIsRecorded
  BY DEF Init, OutcomeIsRecorded
<1>2. TypeInv /\ OutcomeIsRecorded /\ [Next]_vars => OutcomeIsRecorded'
  <2> SUFFICES ASSUME TypeInv, OutcomeIsRecorded, [Next]_vars PROVE OutcomeIsRecorded'
    OBVIOUS
  <2> USE DEF OutcomeIsRecorded, TypeInv, WellFormed
  <2>1. CASE UNCHANGED <<syncRuns, ended>>
    BY <2>1
  <2>2. CASE StartServer
    BY <2>2 DEF StartServer, CloseStale
  <2>3. ASSUME NEW p \in Processes, StartRun(p)
        PROVE  OutcomeIsRecorded'
    BY <2>3 DEF StartRun
  <2>4. ASSUME NEW p \in Processes, FinishRun(p)
        PROVE  OutcomeIsRecorded'
    BY <2>4 DEF FinishRun, Finished
  <2>5. \/ UNCHANGED <<syncRuns, ended>>
        \/ StartServer
        \/ \E p \in Processes : StartRun(p) \/ FinishRun(p)
    BY DEF Next, vars, Announce, TouchMarker, NextDay, TakeMarker, BeginRound, BeginCli,
           BeginNotify, Sync, FetchListing, SyncMeeting, FailMeeting, GiveUp, EndSync,
           LoseRun, Alert, Select, Send, FailToSend, Mark, FailAlert, Crash
  <2> QED
    BY <2>1, <2>2, <2>3, <2>4, <2>5
<1> QED
  BY <1>1, <1>2, TypeHolds, PTL DEF Spec

-----------------------------------------------------------------------------
Alerted(m) == rows[m] # None /\ rows[m].alerted

(* What p is about to mail about, or has mailed about and is about to mark. *)
Sending(p) == IF run[p].pc = "sending" THEN run[p].todo ELSE {}
Marking(p) == IF run[p].pc = "marking" THEN run[p].todo ELSE {}
InMail(p)  == Sending(p) \cup Marking(p)

(* A mail that has left was marked, or is about to be; and what p is about to mail
   about was in no mail before, nor is in another's hand: all of it up to the
   meetings that are excused. *)
AlertInv ==
  /\ MarkedIsMailed
  /\ \A m \in mailed \ excused : Alerted(m) \/ \E p \in Processes : m \in Marking(p)
  /\ \A p \in Processes : Sending(p) \cap mailed \subseteq excused
  /\ \A p, q \in Processes : p # q => InMail(p) \cap InMail(q) \subseteq excused

(* The steps in which no mail leaves and no meeting is marked; a process may let go
   of what it was to mail about. *)
LEMMA AlertKept ==
  ASSUME TypeInv, AlertInv,
         UNCHANGED <<mailed, excused>>,
         \A m \in Meetings : Alerted(m)' <=> Alerted(m),
         \A p \in Processes : Marking(p)' = Marking(p) /\ Sending(p)' \subseteq Sending(p)
  PROVE  AlertInv'
<1>1. \A p \in Processes : (run[p].pc = "marking" => run[p].todo \subseteq mailed)'
  BY DEF AlertInv, MarkedIsMailed, Marking
<1>2. \A p \in Processes : InMail(p)' \subseteq InMail(p)
  BY DEF InMail
<1>3. \A m \in mailed : m \in Meetings
  BY DEF TypeInv, WellFormed
<1>4. MarkedIsMailed'
  BY <1>1 DEF AlertInv, MarkedIsMailed, Alerted
<1>5. (\A m \in mailed \ excused : Alerted(m) \/ \E p \in Processes : m \in Marking(p))'
  BY <1>3 DEF AlertInv
<1>6. (\A p \in Processes : Sending(p) \cap mailed \subseteq excused)'
  BY DEF AlertInv
<1>7. (\A p, q \in Processes : p # q => InMail(p) \cap InMail(q) \subseteq excused)'
  BY <1>2 DEF AlertInv, Processes
<1> QED
  BY <1>4, <1>5, <1>6, <1>7 DEF AlertInv

(* A process gives up on a mail, about meetings that may have been in it: a failed
   or unanswered send, an error while marking, a stop. *)
LEMMA AlertGivenUp ==
  ASSUME TypeInv, AlertInv,
         NEW p \in Processes, NEW local, Goes(p, local),
         local.pc \notin {"sending", "marking"},
         UNCHANGED rows,
         \/ /\ mailed' = mailed \cup InMail(p)
            /\ excused' = excused \cup InMail(p)
         \/ /\ UNCHANGED <<mailed, excused>>
            /\ Marking(p) = {}
  PROVE  AlertInv'
<1>1. /\ Marking(p)' = {} /\ Sending(p)' = {}
      /\ \A q \in Processes \ {p} : Marking(q)' = Marking(q) /\ Sending(q)' = Sending(q)
  BY DEF TypeInv, WellFormed, Goes, Marking, Sending
<1>2. \A q \in Processes : InMail(q)' \subseteq InMail(q)
  BY <1>1 DEF InMail
<1>3. \A m : Alerted(m)' <=> Alerted(m)
  BY DEF Alerted
<1>4. /\ mailed \subseteq mailed' /\ excused \subseteq excused'
      /\ mailed' \ excused' \subseteq mailed \ excused
      /\ mailed' \subseteq mailed \cup excused'
  OBVIOUS
<1>5. \A q \in Processes : Marking(q)' \subseteq mailed'
  BY <1>1, <1>4 DEF AlertInv, MarkedIsMailed, Marking
<1>6. MarkedIsMailed'
  BY <1>3, <1>4, <1>5 DEF AlertInv, MarkedIsMailed, Alerted, Marking
<1>7. \A m \in mailed' \ excused' : m \notin Marking(p)
  BY <1>4 DEF InMail
<1>8. (\A m \in mailed \ excused : Alerted(m) \/ \E q \in Processes : m \in Marking(q))'
  BY <1>1, <1>3, <1>4, <1>7 DEF AlertInv, Processes
<1>9. (\A q \in Processes : Sending(q) \cap mailed \subseteq excused)'
  BY <1>1, <1>4 DEF AlertInv, Processes
<1>10. (\A q, r \in Processes : q # r => InMail(q) \cap InMail(r) \subseteq excused)'
  BY <1>2, <1>4 DEF AlertInv, Processes
<1> QED
  BY <1>6, <1>8, <1>9, <1>10 DEF AlertInv

LEMMA AlertSelect ==
  ASSUME TypeInv, AlertInv, NEW p \in Processes, Select(p)
  PROVE  AlertInv'
<1> DEFINE todo == ToAlert
<1>1. /\ Marking(p)' = {} /\ Sending(p)' = todo /\ Marking(p) = {}
      /\ \A q \in Processes \ {p} : Marking(q)' = Marking(q) /\ Sending(q)' = Sending(q)
  BY DEF TypeInv, WellFormed, Select, Goes, Marking, Sending, AfterAlert, Pause, Off
<1>2. \A q \in Processes \ {p} : todo \cap InMail(q) \subseteq excused'
  BY DEF Select, InHand, InMail, Sending, Marking
<1>3. \A m \in todo : ~Alerted(m)
  BY DEF ToAlert, Alerted
<1>4. todo \cap mailed \subseteq excused'
  BY <1>1, <1>2, <1>3 DEF AlertInv, Select, InMail
<1> HIDE DEF todo
<1>5. \A m : Alerted(m)' <=> Alerted(m)
  BY DEF Select, Alerted
<1>6. mailed' = mailed /\ excused \subseteq excused'
  BY DEF Select
<1>7. \A q \in Processes : Marking(q)' \subseteq mailed
  BY <1>1 DEF AlertInv, MarkedIsMailed, Marking
<1>8. MarkedIsMailed'
  BY <1>5, <1>6, <1>7 DEF AlertInv, MarkedIsMailed, Alerted, Marking
<1>9. (\A m \in mailed \ excused : Alerted(m) \/ \E q \in Processes : m \in Marking(q))'
  BY <1>1, <1>5, <1>6 DEF AlertInv, Processes
<1>10. (\A q \in Processes : Sending(q) \cap mailed \subseteq excused)'
  BY <1>1, <1>4, <1>6 DEF AlertInv, Processes
<1>11. (\A q, r \in Processes : q # r => InMail(q) \cap InMail(r) \subseteq excused)'
  BY <1>1, <1>2, <1>6 DEF AlertInv, Processes, InMail
<1> QED
  BY <1>8, <1>9, <1>10, <1>11 DEF AlertInv

LEMMA AlertSend ==
  ASSUME TypeInv, AlertInv, NEW p \in Processes, Send(p)
  PROVE  AlertInv'
<1>1. /\ Marking(p)' = Sending(p) /\ Sending(p)' = {} /\ Marking(p) = {}
      /\ mailed' = mailed \cup Sending(p)
      /\ \A q \in Processes \ {p} : Marking(q)' = Marking(q) /\ Sending(q)' = Sending(q)
  BY DEF TypeInv, WellFormed, Send, Goes, Marking, Sending
<1>2. \A q \in Processes : InMail(q)' = InMail(q)
  BY <1>1 DEF InMail
<1>3. \A m : Alerted(m)' <=> Alerted(m)
  BY DEF Send, Alerted
<1>4. excused' = excused
  BY DEF Send
<1>5. \A q \in Processes : Marking(q)' \subseteq mailed'
  BY <1>1 DEF AlertInv, MarkedIsMailed, Marking
<1>6. MarkedIsMailed'
  BY <1>1, <1>3, <1>5 DEF AlertInv, MarkedIsMailed, Alerted, Marking
<1>7. (\A m \in mailed \ excused : Alerted(m) \/ \E q \in Processes : m \in Marking(q))'
  BY <1>1, <1>3, <1>4 DEF AlertInv, Processes
<1>8. (\A q \in Processes : Sending(q) \cap mailed \subseteq excused)'
  BY <1>1, <1>4 DEF AlertInv, Processes, InMail
<1>9. (\A q, r \in Processes : q # r => InMail(q) \cap InMail(r) \subseteq excused)'
  BY <1>2, <1>4 DEF AlertInv, Processes
<1> QED
  BY <1>6, <1>7, <1>8, <1>9 DEF AlertInv

LEMMA AlertMark ==
  ASSUME TypeInv, AlertInv, NEW p \in Processes, NEW m \in Meetings, Mark(p, m)
  PROVE  AlertInv'
<1>1. /\ Marking(p)' = Marking(p) \ {m} /\ Sending(p)' = {} /\ m \in Marking(p)
      /\ \A q \in Processes \ {p} : Marking(q)' = Marking(q) /\ Sending(q)' = Sending(q)
  BY DEF TypeInv, WellFormed, Mark, Goes, Marking, Sending, AfterAlert, Pause, Off
<1>2. \A q \in Processes : InMail(q)' \subseteq InMail(q)
  BY <1>1 DEF InMail
<1>3. /\ Alerted(m)'
      /\ \A o \in Meetings \ {m} : Alerted(o)' <=> Alerted(o)
  <2>1. [date |-> rows[m].date, alerted |-> TRUE] \in Row
    BY DEF TypeInv, WellFormed, HeldExist, Listed, Mark, Row
  <2>2. [date |-> rows[m].date, alerted |-> TRUE] # None
    BY <2>1, JobsAssumption
  <2> QED
    BY <2>2 DEF TypeInv, WellFormed, Mark, Alerted
<1>4. UNCHANGED <<mailed, excused>> /\ mailed \subseteq Meetings
  BY DEF TypeInv, WellFormed, Mark
<1>5. Marking(p) \subseteq mailed /\ \A q \in Processes : Marking(q)' \subseteq mailed
  BY <1>1 DEF AlertInv, MarkedIsMailed, Marking
<1>6. MarkedIsMailed'
  BY <1>1, <1>3, <1>4, <1>5 DEF AlertInv, MarkedIsMailed, Alerted, Marking
<1>7. (\A o \in mailed \ excused : Alerted(o) \/ \E q \in Processes : o \in Marking(q))'
  BY <1>1, <1>3, <1>4 DEF AlertInv, Processes
<1>8. (\A q \in Processes : Sending(q) \cap mailed \subseteq excused)'
  BY <1>1, <1>4 DEF AlertInv, Processes
<1>9. (\A q, r \in Processes : q # r => InMail(q) \cap InMail(r) \subseteq excused)'
  BY <1>2, <1>4 DEF AlertInv, Processes
<1> QED
  BY <1>6, <1>7, <1>8, <1>9 DEF AlertInv

(* A meeting that is written keeps its mark. *)
LEMMA AlertSyncMeeting ==
  ASSUME TypeInv, AlertInv, NEW p \in Processes, NEW m \in Meetings, SyncMeeting(p, m)
  PROVE  AlertInv'
<1>1. Upserted(m) \in Row
  BY DEF TypeInv, WellFormed, HeldExist, SyncMeeting, Upserted, Row
<1>2. Upserted(m) # None
  BY <1>1, JobsAssumption
<1>3. \A o \in Meetings : Alerted(o)' <=> Alerted(o)
  BY <1>2 DEF TypeInv, WellFormed, SyncMeeting, Upserted, Alerted
<1>4. \A q \in Processes : Marking(q)' = Marking(q) /\ Sending(q)' \subseteq Sending(q)
  BY DEF TypeInv, WellFormed, SyncMeeting, Syncing, Goes, Marking, Sending
<1> QED
  BY <1>3, <1>4, AlertKept DEF SyncMeeting

(* Steps of a process that has nothing to do with a mail, before or after. *)
LEMMA AlertMoves ==
  ASSUME TypeInv, AlertInv,
         NEW p \in Processes, NEW local, Goes(p, local),
         run[p].pc \notin {"sending", "marking"},
         local.pc \notin {"sending", "marking"},
         UNCHANGED <<rows, mailed, excused>>
  PROVE  AlertInv'
<1>1. Marking(p) = {}
  BY DEF Marking
<1> QED
  BY <1>1, AlertGivenUp

(* What fails while a mail is sent or marked: any of its meetings may have been in a
   mail that was not marked. *)
LEMMA AlertFails ==
  ASSUME TypeInv, AlertInv, NEW p \in Processes, FailToSend(p) \/ FailAlert(p) \/ Crash(p)
  PROVE  AlertInv'
<1>1. PICK local : Goes(p, local) /\ local.pc \notin {"sending", "marking"}
  BY DEF FailToSend, FailAlert, Crash, AfterFailure, AfterAlert, Pause, Off
<1>2. run[p].pc \in {"sending", "marking"} => InMail(p) = run[p].todo
  BY DEF InMail, Sending, Marking
<1>3. run[p].pc # "marking" => Marking(p) = {}
  BY DEF Marking
<1>4. run[p].pc = "marking" => mailed \cup run[p].todo = mailed
  BY DEF AlertInv, MarkedIsMailed
<1>5. CASE FailToSend(p)
  BY <1>1, <1>2, <1>3, <1>5, AlertGivenUp DEF FailToSend
<1>6. CASE FailAlert(p)
  <2>1. CASE run[p].pc = "marking"
    BY <1>1, <1>2, <1>4, <1>6, <2>1, AlertGivenUp DEF FailAlert
  <2>2. CASE run[p].pc # "marking"
    BY <1>1, <1>3, <1>6, <2>2, AlertGivenUp DEF FailAlert
  <2> QED
    BY <2>1, <2>2
<1>7. CASE Crash(p)
  <2>1. CASE run[p].pc # "marking" /\ UNCHANGED <<mailed, excused>>
    BY <1>1, <1>3, <1>7, <2>1, AlertGivenUp DEF Crash
  <2>2. CASE /\ run[p].pc \in {"sending", "marking"}
             /\ mailed' = mailed \cup run[p].todo
             /\ excused' = excused \cup run[p].todo
    BY <1>1, <1>2, <1>7, <2>2, AlertGivenUp DEF Crash
  <2> QED
    BY <1>7, <2>1, <2>2 DEF Crash
<1> QED
  BY <1>5, <1>6, <1>7

(* The other steps of the processes. *)
LEMMA AlertOther ==
  ASSUME TypeInv, AlertInv,
         \/ StartServer \/ TakeMarker \/ BeginRound
         \/ \E p \in Cli : (\E full \in BOOLEAN : BeginCli(p, full)) \/ BeginNotify(p)
         \/ \E p \in Processes :
              \/ StartRun(p) \/ FetchListing(p) \/ GiveUp(p) \/ EndSync(p)
              \/ FinishRun(p) \/ LoseRun(p)
              \/ \E m \in Meetings : FailMeeting(p, m)
  PROVE  AlertInv'
<1>0. Server \in Processes /\ Cli \subseteq Processes
  BY DEF Processes
<1>1. ASSUME NEW p \in Processes,
             \/ StartRun(p) \/ FetchListing(p) \/ GiveUp(p) \/ EndSync(p)
             \/ FinishRun(p) \/ LoseRun(p)
             \/ \E m \in Meetings : FailMeeting(p, m)
      PROVE  AlertInv'
  <2>1. CASE StartRun(p) \/ FetchListing(p)
    BY <2>1, AlertMoves DEF StartRun, FetchListing, Syncing
  <2>2. ASSUME NEW m \in Meetings, FailMeeting(p, m)
        PROVE  AlertInv'
    BY <2>2, AlertMoves DEF FailMeeting, Syncing
  <2>3. CASE GiveUp(p) \/ EndSync(p)
    BY <2>3, AlertMoves DEF GiveUp, EndSync
  <2>4. CASE FinishRun(p) \/ LoseRun(p)
    BY <2>4, AlertMoves DEF FinishRun, LoseRun, AfterRun, Off
  <2> QED
    BY <1>1, <2>1, <2>2, <2>3, <2>4
<1>2. CASE StartServer
  BY <1>0, <1>2, AlertMoves DEF StartServer
<1>3. CASE TakeMarker
  BY <1>0, <1>3, AlertMoves DEF TakeMarker, Pause
<1>4. CASE BeginRound
  BY <1>0, <1>4, AlertMoves DEF BeginRound, Pause
<1>5. ASSUME NEW p \in Cli, (\E full \in BOOLEAN : BeginCli(p, full)) \/ BeginNotify(p)
      PROVE  AlertInv'
  BY <1>0, <1>5, AlertMoves DEF BeginCli, BeginNotify
<1> QED
  BY <1>1, <1>2, <1>3, <1>4, <1>5

LEMMA AlertWorld ==
  ASSUME TypeInv, AlertInv, UNCHANGED <<rows, run, mailed, excused>>
  PROVE  AlertInv'
BY AlertKept DEF Alerted, Marking, Sending

LEMMA AlertStep == TypeInv /\ AlertInv /\ [Next]_vars => AlertInv'
<1> SUFFICES ASSUME TypeInv, AlertInv, [Next]_vars PROVE AlertInv'
  OBVIOUS
<1>1. CASE \/ UNCHANGED vars \/ TouchMarker \/ NextDay
           \/ \E m \in Meetings, d \in Days : Announce(m, d)
  BY <1>1, AlertWorld DEF vars, TouchMarker, NextDay, Announce
<1>2. ASSUME NEW p \in Processes, Sync(p)
      PROVE  AlertInv'
  BY <1>2, AlertOther, AlertSyncMeeting DEF Sync
<1>3. ASSUME NEW p \in Processes, Alert(p) \/ Crash(p)
      PROVE  AlertInv'
  BY <1>3, AlertSelect, AlertSend, AlertMark, AlertFails DEF Alert
<1> QED
  BY <1>1, <1>2, <1>3, AlertOther DEF Next

LEMMA AlertHolds == Spec => []AlertInv
<1>1. Init => AlertInv
  BY DEF Init, AlertInv, MarkedIsMailed, Sending, Marking, InMail, Off
<1> QED
  BY <1>1, AlertStep, TypeHolds, PTL DEF Spec

(* No meeting is marked, or about to be, that no mail has left about. *)
THEOREM MarkedAfterMail == Spec => []MarkedIsMailed
BY AlertHolds, PTL DEF AlertInv

(* A second mail about a meeting is one of the excused: it was never marked because
   of an error, a lost answer or a stop, or two processes overlapped. *)
THEOREM AlertsAreNotRepeated == Spec => AlertedOnce
<1>1. AlertInv /\ [Next]_vars =>
        [\A p \in Processes : Send(p) => run[p].todo \cap mailed \subseteq excused]_vars
  BY DEF AlertInv, Sending, Send
<1> QED
  BY <1>1, AlertHolds, PTL DEF Spec, AlertedOnce
=============================================================================
