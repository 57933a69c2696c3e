-------------------------------- MODULE Jobs --------------------------------
(***************************************************************************)
(* The periodic task of the server (crates/app/src/jobs.rs) next to `urban *)
(* sync` and `urban notify` (crates/core/src/bin/urban.rs): who runs when, *)
(* what sync_runs records of it, and the alert of the upcoming meetings    *)
(* (alert_new_meetings in notify.rs).                                      *)
(*                                                                         *)
(* Of a sync only what concerns these is kept: the listing, and the row of *)
(* each meeting with its date.  Each process has the row in sync_runs of   *)
(* its current or latest run; older rows are only ever closed.  The        *)
(* keyword digests that follow the alert are in KeywordAlerts.  Any step   *)
(* of a process may fail, and the process may stop at any of them; systemd *)
(* starts the server again (deploy/urban.service).                         *)
(***************************************************************************)
EXTENDS Integers, FiniteSets

CONSTANTS
  Server,
  Cli,          \* the command line: `urban sync` or `urban notify`, one at a time
  Meetings,
  None,
  RefreshDays,
  MaxDay,       \* bound: days
  MaxMarkers    \* bound: markers set and not used

Days == 0..MaxDay
Row  == [date: Days, alerted: BOOLEAN]

ASSUME JobsAssumption ==
  /\ Meetings \subseteq Nat
  /\ {RefreshDays, MaxDay, MaxMarkers} \subseteq Nat
  /\ Server \notin Cli
  /\ None \notin Days \cup Row

VARIABLES
  today,
  site,      \* the date the city's pages give for each meeting, or None
  rows,      \* table meetings: date, and whether alerted_at is set
  syncRuns,  \* table sync_runs: the row of the latest run of each process
  running,   \* AppState::sync_running
  marker,    \* whether the file full-sync exists
  run,       \* what each process holds between two steps
  mailed,    \* history: the meetings a mail has left about
  excused,   \* history: those a mail may be repeated for
  granted,   \* history: markers set less full syncs of the server started
  ended      \* history: how the latest run of each process ended

vars == <<today, site, rows, syncRuns, running, marker, run,
          mailed, excused, granted, ended>>

Processes == {Server} \cup Cli
RunStates == {"none", "open", "ok", "failed"}

Off   == [pc |-> "off"]
Pause == [pc |-> "pause", full |-> FALSE]

Goes(p, local) == run' = [run EXCEPT ![p] = local]

-----------------------------------------------------------------------------
(* The city announces a meeting or moves it; someone runs `just resync full`;
   days pass. *)
Announce(m, d) ==
  /\ site[m] # d
  /\ today <= d
  /\ site' = [site EXCEPT ![m] = d]
  /\ UNCHANGED <<today, rows, syncRuns, running, marker, run, mailed, excused,
                 granted, ended>>

TouchMarker ==
  /\ ~marker
  /\ granted < MaxMarkers
  /\ marker' = TRUE
  /\ granted' = granted + 1
  /\ UNCHANGED <<today, site, rows, syncRuns, running, run, mailed, excused, ended>>

NextDay ==
  /\ today < MaxDay
  /\ today' = today + 1
  /\ UNCHANGED <<site, rows, syncRuns, running, marker, run, mailed, excused,
                 granted, ended>>

-----------------------------------------------------------------------------
(* close_stale_runs: whosever they are. *)
CloseStale ==
  [p \in Processes |-> IF syncRuns[p] = "open" THEN "failed" ELSE syncRuns[p]]

(* server::run: a new process, whose flag is FALSE; the task waits. *)
StartServer ==
  /\ run[Server].pc = "off"
  /\ syncRuns' = CloseStale
  /\ running' = FALSE
  /\ Goes(Server, [pc |-> "delay"])
  /\ UNCHANGED <<today, site, rows, marker, mailed, excused, granted, ended>>

(* Mutant: the marker is read and left where it is. *)
MarkerStays == marker

MarkerAfter == FALSE

(* take_full_sync_marker: a marker that cannot be removed does not count. *)
TakeMarker ==
  /\ run[Server].pc = "delay"
  /\ \/ /\ marker' = MarkerAfter
        /\ Goes(Server, [pc |-> "pause", full |-> marker])
     \/ /\ marker
        /\ marker' = marker
        /\ Goes(Server, Pause)
  /\ UNCHANGED <<today, site, rows, syncRuns, running, mailed, excused, granted,
                 ended>>

(* run_once, up to sync::run: the round is skipped when one is under way. *)
BeginRound ==
  /\ run[Server].pc = "pause"
  /\ IF running
     THEN Goes(Server, Pause) /\ running' = running
     ELSE /\ Goes(Server, [pc |-> "starting", full |-> run[Server].full])
          /\ running' = TRUE
  /\ UNCHANGED <<today, site, rows, syncRuns, marker, mailed, excused, granted,
                 ended>>

(* `urban sync`, with or without --full. *)
BeginCli(p, full) ==
  /\ run[p].pc = "off"
  /\ Goes(p, [pc |-> "starting", full |-> full])
  /\ UNCHANGED <<today, site, rows, syncRuns, running, marker, mailed, excused,
                 granted, ended>>

-----------------------------------------------------------------------------
(* sync::run: start_sync_run, then run_inner. *)
StartRun(p) ==
  /\ run[p].pc = "starting"
  /\ syncRuns' = [syncRuns EXCEPT ![p] = "open"]
  /\ ended' = [ended EXCEPT ![p] = None]
  /\ granted' = IF p = Server /\ run[p].full THEN granted - 1 ELSE granted
  /\ Goes(p, [pc |-> "listing", full |-> run[p].full])
  /\ UNCHANGED <<today, site, rows, running, marker, mailed, excused>>

(* The meetings of the listing that are new, recent, or all of them; whether each is
   new is looked up at its turn, here for all of them at once. *)
Selected(full) ==
  {m \in Meetings :
     site[m] # None /\ (full \/ rows[m] = None \/ today - site[m] <= RefreshDays)}

Syncing(todo, failed) == [pc |-> "syncing", todo |-> todo, failed |-> failed]

FetchListing(p) ==
  /\ run[p].pc = "listing"
  /\ Goes(p, Syncing(Selected(run[p].full), FALSE))
  /\ UNCHANGED <<today, site, rows, syncRuns, running, marker, mailed, excused,
                 granted, ended>>

(* Mutant: INSERT OR REPLACE. *)
Replaced(m) == [date |-> site[m], alerted |-> FALSE]

(* write_meeting: alerted_at is not among the columns updated. *)
Upserted(m) ==
  [date |-> site[m], alerted |-> IF rows[m] = None THEN FALSE ELSE rows[m].alerted]

(* process_meeting, taken as one step here (see MeetingSync). *)
SyncMeeting(p, m) ==
  /\ run[p].pc = "syncing"
  /\ m \in run[p].todo
  /\ rows' = [rows EXCEPT ![m] = Upserted(m)]
  /\ Goes(p, Syncing(run[p].todo \ {m}, run[p].failed))
  /\ UNCHANGED <<today, site, syncRuns, running, marker, mailed, excused, granted,
                 ended>>

(* An error of one meeting, or of the certificates, is noted and the run goes on. *)
FailMeeting(p, m) ==
  /\ run[p].pc = "syncing"
  /\ m \in run[p].todo
  /\ Goes(p, Syncing(run[p].todo \ {m}, TRUE))
  /\ UNCHANGED <<today, site, rows, syncRuns, running, marker, mailed, excused,
                 granted, ended>>

(* Without a listing, or by an error of the database, run_inner gives up. *)
GiveUp(p) ==
  /\ run[p].pc \in {"listing", "syncing"}
  /\ Goes(p, [pc |-> "finishing", outcome |-> "failed"])
  /\ UNCHANGED <<today, site, rows, syncRuns, running, marker, mailed, excused,
                 granted, ended>>

EndSync(p) ==
  /\ run[p].pc = "syncing"
  /\ run[p].todo = {}
  /\ Goes(p, [pc |-> "finishing",
              outcome |-> IF run[p].failed THEN "failed" ELSE "ok"])
  /\ UNCHANGED <<today, site, rows, syncRuns, running, marker, mailed, excused,
                 granted, ended>>

(* What follows sync::run in run_once, or in the command line. *)
AfterRun(p) == IF p = Server THEN [pc |-> "selecting"] ELSE Off

(* Mutant: the flag stays up. *)
StaysUp(p) == running

(* The store after sync::run, whatever that has answered. *)
Lowered(p) == running /\ p # Server

(* Mutant: a run that was closed in between stays as it is. *)
FinishIfOpen(p) == IF syncRuns[p] = "open" THEN run[p].outcome ELSE syncRuns[p]

Finished(p) == run[p].outcome

(* finish_sync_run, by the id of the run, which a server that started meanwhile
   may have closed. *)
FinishRun(p) ==
  /\ run[p].pc = "finishing"
  /\ syncRuns' = [syncRuns EXCEPT ![p] = Finished(p)]
  /\ ended' = [ended EXCEPT ![p] = run[p].outcome]
  /\ running' = Lowered(p)
  /\ Goes(p, AfterRun(p))
  /\ UNCHANGED <<today, site, rows, marker, mailed, excused, granted>>

(* start_sync_run or finish_sync_run fails: the flag is lowered all the same,
   and a row stays open. *)
LoseRun(p) ==
  /\ run[p].pc \in {"starting", "finishing"}
  /\ running' = Lowered(p)
  /\ Goes(p, AfterRun(p))
  /\ UNCHANGED <<today, site, rows, syncRuns, marker, mailed, excused, granted, ended>>

-----------------------------------------------------------------------------
(* `urban notify`. *)
BeginNotify(p) ==
  /\ run[p].pc = "off"
  /\ Goes(p, [pc |-> "selecting"])
  /\ UNCHANGED <<today, site, rows, syncRuns, running, marker, mailed, excused,
                 granted, ended>>

(* What follows the alert: the pause of the task, or the end of the process. *)
AfterAlert(p) == IF p = Server THEN Pause ELSE Off

(* The meetings other processes are about to mark. *)
InHand(p) ==
  UNION {run[q].todo : q \in {o \in Processes \ {p} : run[o].pc \in {"sending", "marking"}}}

(* Mutant: those of today are not upcoming any more. *)
AfterToday(m) == rows[m].date > today

Upcoming(m) == rows[m].date >= today

(* meetings_to_alert. *)
ToAlert == {m \in Meetings : rows[m] # None /\ ~rows[m].alerted /\ Upcoming(m)}

Select(p) ==
  /\ run[p].pc = "selecting"
  /\ Goes(p, IF ToAlert = {} THEN AfterAlert(p)
             ELSE [pc |-> "sending", todo |-> ToAlert])
  /\ excused' = excused \cup (ToAlert \cap InHand(p))
  /\ UNCHANGED <<today, site, rows, syncRuns, running, marker, mailed, granted, ended>>

(* One mail about all of them. *)
Send(p) ==
  /\ run[p].pc = "sending"
  /\ mailed' = mailed \cup run[p].todo
  /\ Goes(p, [pc |-> "marking", todo |-> run[p].todo])
  /\ UNCHANGED <<today, site, rows, syncRuns, running, marker, excused, granted, ended>>

(* Mutant: a mail that failed is marked like one that left. *)
MarkAnyway(p) == [pc |-> "marking", todo |-> run[p].todo]

AfterFailure(p) == AfterAlert(p)

(* It fails before it has left, or its answer is lost. *)
FailToSend(p) ==
  /\ run[p].pc = "sending"
  /\ Goes(p, AfterFailure(p))
  /\ \/ UNCHANGED <<mailed, excused>>
     \/ /\ mailed' = mailed \cup run[p].todo
        /\ excused' = excused \cup run[p].todo
  /\ UNCHANGED <<today, site, rows, syncRuns, running, marker, granted, ended>>

(* mark_alerted: one UPDATE per meeting, in the order of the mail, here that of
   their numbers. *)
Mark(p, m) ==
  LET rest == run[p].todo \ {m}
  IN /\ run[p].pc = "marking"
     /\ m \in run[p].todo
     /\ \A o \in rest : m < o
     /\ rows' = [rows EXCEPT ![m] = [date |-> rows[m].date, alerted |-> TRUE]]
     /\ Goes(p, IF rest = {} THEN AfterAlert(p) ELSE [pc |-> "marking", todo |-> rest])
     /\ UNCHANGED <<today, site, syncRuns, running, marker, mailed, excused, granted,
                    ended>>

(* An error of the database while selecting, which comes to nothing when there was
   nothing to alert, or while marking. *)
FailAlert(p) ==
  /\ \/ run[p].pc = "selecting" /\ ToAlert # {}
     \/ run[p].pc = "marking"
  /\ Goes(p, AfterAlert(p))
  /\ excused' = excused \cup (IF run[p].pc = "marking" THEN run[p].todo ELSE {})
  /\ UNCHANGED <<today, site, rows, syncRuns, running, marker, mailed, granted, ended>>

(* The process stops. *)
Crash(p) ==
  /\ run[p].pc # "off"
  /\ Goes(p, Off)
  /\ \/ /\ run[p].pc # "marking"
        /\ UNCHANGED <<mailed, excused>>
     \/ /\ run[p].pc \in {"sending", "marking"}
        /\ mailed' = mailed \cup run[p].todo
        /\ excused' = excused \cup run[p].todo
  /\ UNCHANGED <<today, site, rows, syncRuns, running, marker, granted, ended>>

-----------------------------------------------------------------------------
Init ==
  /\ today = 0
  /\ site = [m \in Meetings |-> None]
  /\ rows = [m \in Meetings |-> None]
  /\ syncRuns = [p \in Processes |-> "none"]
  /\ running = FALSE
  /\ marker = FALSE
  /\ run = [p \in Processes |-> Off]
  /\ mailed = {}
  /\ excused = {}
  /\ granted = 0
  /\ ended = [p \in Processes |-> None]

Sync(p) ==
  \/ StartRun(p)
  \/ FetchListing(p)
  \/ \E m \in Meetings : SyncMeeting(p, m) \/ FailMeeting(p, m)
  \/ GiveUp(p)
  \/ EndSync(p)
  \/ FinishRun(p)
  \/ LoseRun(p)

Alert(p) ==
  \/ Select(p)
  \/ Send(p)
  \/ FailToSend(p)
  \/ \E m \in Meetings : Mark(p, m)
  \/ FailAlert(p)

Next ==
  \/ \E m \in Meetings, d \in Days : Announce(m, d)
  \/ TouchMarker
  \/ NextDay
  \/ StartServer
  \/ TakeMarker
  \/ BeginRound
  \/ \E p \in Cli : (\E full \in BOOLEAN : BeginCli(p, full)) \/ BeginNotify(p)
  \/ \E p \in Processes : Sync(p) \/ Alert(p) \/ Crash(p)

Spec == Init /\ [][Next]_vars

(* What fails, or stops the process. *)
Fails(p) ==
  \/ \E m \in Meetings : FailMeeting(p, m)
  \/ GiveUp(p)
  \/ LoseRun(p)
  \/ FailToSend(p)
  \/ FailAlert(p)
  \/ Crash(p)

(* systemd restarts the server and its task goes on for ever; the steps of the
   server stop failing at some point, those of the command line need not. *)
Fairness ==
  /\ WF_vars(StartServer \/ TakeMarker \/ BeginRound \/ Sync(Server) \/ Alert(Server))
  /\ <>[][~Fails(Server)]_vars

FairSpec == Spec /\ Fairness

-----------------------------------------------------------------------------
LocalStates ==
  {Off}
  \cup [pc: {"delay", "selecting"}]
  \cup [pc: {"pause", "starting", "listing"}, full: BOOLEAN]
  \cup [pc: {"syncing"}, todo: SUBSET Meetings, failed: BOOLEAN]
  \cup [pc: {"finishing"}, outcome: {"ok", "failed"}]
  \cup [pc: {"sending", "marking"}, todo: (SUBSET Meetings) \ {{}}]

WellFormed ==
  /\ today \in Days
  /\ site \in [Meetings -> Days \cup {None}]
  /\ rows \in [Meetings -> Row \cup {None}]
  /\ syncRuns \in [Processes -> RunStates]
  /\ {running, marker} \subseteq BOOLEAN
  /\ granted \in 0..MaxMarkers
  /\ run \in [Processes -> LocalStates]
  /\ mailed \subseteq Meetings
  /\ excused \subseteq Meetings
  /\ ended \in [Processes -> {None, "ok", "failed"}]

(* run_once, jobs.rs:67-91: the flag is up from its swap to its store, however the sync
   ends; that of a process that has stopped means nothing any more. *)
FlagIsOfTheSync ==
  run[Server].pc # "off" =>
    (running <=> run[Server].pc \in {"starting", "listing", "syncing", "finishing"})

(* Tables and local states are well-formed; while the server runs, its flag is up
   exactly during a sync, so that no round of its only task is ever skipped. *)
TypeOK == WellFormed /\ FlagIsOfTheSync

(* "alerta întârzie, nu se pierde" (requirements.md:132): a meeting is marked only
   after a mail about it has left, and what is about to be marked has been mailed,
   whoever else sends, syncs or stops. *)
MarkedIsMailed ==
  /\ \A m \in Meetings : rows[m] # None /\ rows[m].alerted => m \in mailed
  /\ \A p \in Processes : run[p].pc = "marking" => run[p].todo \subseteq mailed

(* "O ședință e alertată o singură dată" (requirements.md:131), up to what the order
   of sending and marking allows: a second mail about a meeting leaves only if an
   earlier one was not marked because of an error, a lost answer or a stop, or
   was under way in another process; never because the meeting was synced again,
   moved to another day, or the server restarted. *)
AlertedOnce ==
  [][\A p \in Processes : Send(p) => run[p].todo \cap mailed \subseteq excused]_vars

(* A run that reaches its end is recorded with its own outcome, although a server
   that starts closes all runs in progress, those of the command line too; and
   that server does not touch the outcome of runs that had ended. *)
OutcomeIsRecorded ==
  \A p \in Processes : ended[p] # None => syncRuns[p] = ended[p]

(* "ca o sincronizare completă eșuată să nu se repete la fiecare pornire"
   (jobs.rs:56): one marker leads to one full sync of the server at most. *)
MarkerIsForOneRun ==
  [][StartRun(Server) /\ run[Server].full => granted > 0]_vars

(* An upcoming meeting of the city's page is alerted, or its day passes first. *)
UpcomingIsAlerted ==
  \A m \in Meetings :
    site[m] # None ~> m \in mailed \/ (site[m] # None /\ site[m] < today)
=============================================================================
