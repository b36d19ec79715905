---------------------------- MODULE ConfigReload ----------------------------
(***************************************************************************)
(* nanoguard.toml from the console's editors to the live AppState: the     *)
(* backend, routing, raw-edit and revert endpoints of the console, the     *)
(* atomic write with its backups, the reload trigger (socket or SIGHUP),   *)
(* the reload tasks of the proxy and the swap of the shared state.         *)
(* Sources: src/src/console/{handlers,edit,reload}.rs, src/src/reload.rs,  *)
(* src/src/config/mod.rs, src/src/main.rs.                                 *)
(*                                                                         *)
(* Granularity.  An edit handler has no await between its check and the    *)
(* rename, so it holds a console thread for those steps; the trigger is    *)
(* awaited.  A reload runs on the blocking pool, one at a time for SIGHUP, *)
(* one per connection for the socket.  A configuration is abstracted to    *)
(* what Config::pool validates, plus whether the rest of it builds.        *)
(***************************************************************************)
EXTENDS Integers, Sequences, FiniteSets, Functions

CONSTANTS
  Labels,        \* backend labels
  Models,        \* model patterns of routing rules
  LegacyLabel,   \* the label synthesised for a legacy [backend] section
  Legacy,        \* whether the file has a legacy [backend] section
  NoLabel,       \* [routing].default is not set
  Conf0,         \* the configuration at startup
  Backups0,      \* the backups that earlier edits have left
  Tables,        \* [routing] tables that PUT /api/routing may carry
  RawConfs,      \* configurations that POST /api/edit may carry
  Editors,       \* console requests that write the file or trigger a reload
  Threads,       \* worker threads of the console
  BackupLimit,   \* backups kept of one file
  Methods,       \* ways to reach the proxy that [reload] may configure
  MaxRestarts,   \* bound on restarts of the proxy
  Sighup         \* the SIGHUP reload task

\* A rule of [routing] and the section itself.
Rule == [model : Models, backend : Labels, fallback : Seq(Labels)]
Table == [default : Labels \cup {NoLabel}, rules : Seq(Rule)]

\* rest tells whether matcher, redactor, policy, schemas and tool gate build.
Conf == [backends : SUBSET Labels, routing : Table, rest : {"good", "bad"}]

\* The labels Config::pool works with.
Pool(c) ==
  IF c.backends = {} /\ Legacy THEN {LegacyLabel} ELSE c.backends

Primaries(t) == {t.rules[i].backend : i \in DOMAIN t.rules}

\* The labels of a rule are known; no fallback repeats another or the primary.
RuleOK(r, labels) ==
  /\ r.backend \in labels
  /\ Range(r.fallback) \subseteq labels \ {r.backend}
  /\ IsInjective(r.fallback)

\* Config::pool accepts the configuration.
PoolOK(c) ==
  /\ Pool(c) # {}
  /\ \A i \in DOMAIN c.routing.rules : RuleOK(c.routing.rules[i], Pool(c))
  /\ IF c.routing.default = NoLabel
     THEN Cardinality(Pool(c)) = 1
     ELSE c.routing.default \in Pool(c)

\* build_app_state succeeds on the configuration.
Loadable(c) == PoolOK(c) /\ c.rest = "good"

\* A content of the file, with the number of the write that put it there; what
\* is older than this run has number 0.
Version == [conf : Conf, ver : Nat]

ASSUME ConstantsAssumption ==
  /\ LegacyLabel \in Labels /\ NoLabel \notin Labels
  /\ Legacy \in BOOLEAN
  /\ Conf0 \in Conf /\ Loadable(Conf0)
  /\ Tables \subseteq Table /\ RawConfs \subseteq Conf
  /\ IsFiniteSet(Editors) /\ Sighup \notin Editors
  /\ Threads \in Nat \ {0}
  /\ BackupLimit \in Nat \ {0}
  /\ Backups0 \in Seq(Version) /\ Len(Backups0) <= BackupLimit
  /\ Methods \subseteq {"socket", "sighup", "none"}
  /\ MaxRestarts \in Nat

Slots == Editors \cup {Sighup}

VARIABLES
  method,    \* [reload]: socket, sighup or none
  disk,      \* nanoguard.toml
  backups,   \* .nanoguard-backups, oldest first
  ed,        \* where each editor is
  op,        \* what it does: create, update, delete, routing, edit, revert
  arg,       \* its label or table
  held,      \* the content it is about to write
  before,    \* the content atomic_write found and is to back up
  pending,   \* SIGHUP delivered and not yet received
  task,      \* where each reload is
  cand,      \* the content a reload has read
  reply,     \* the answer waiting on each editor's socket
  live,      \* the content that the shared AppState was built from
  outcome,   \* verdict of the last reload line in the audit log
  restarts,
  reported,  \* newest content whose reload was reported to its editor
  orderly    \* no two edits overlapped, and raw edits named known backends

diskVars == <<disk, backups>>
editVars == <<ed, op, arg, held, before>>
proxyVars == <<pending, task, cand, reply, live, outcome, restarts>>
vars == <<method, diskVars, editVars, proxyVars, reported, orderly>>

Init ==
  /\ method \in Methods
  /\ disk = [conf |-> Conf0, ver |-> 0]
  /\ backups = Backups0
  /\ ed = [e \in Editors |-> "idle"]
  /\ op = [e \in Editors |-> "none"]
  /\ arg = [e \in Editors |-> NoLabel]
  /\ held = [e \in Editors |-> Conf0]
  /\ before = [e \in Editors |-> disk]
  /\ pending = FALSE
  /\ task = [r \in Slots |-> "idle"]
  /\ cand = [r \in Slots |-> disk]
  /\ reply = [e \in Editors |-> "none"]
  /\ live = disk
  /\ outcome = "none"
  /\ restarts = 0
  /\ reported = 0
  /\ orderly = TRUE

-----------------------------------------------------------------------------
(* The console's editors                                                   *)

\* [routing].default and the primaries of the rules are in [backends.*].
TargetsIn(c) ==
  /\ c.routing.default \in c.backends \cup {NoLabel}
  /\ Primaries(c.routing) \subseteq c.backends

Busy == {e \in Editors : ed[e] \in {"read", "write", "backup", "rename"}}

FreeThread == Cardinality(Busy) < Threads

Begin(e, what, a) ==
  /\ ed[e] = "idle"
  /\ FreeThread
  /\ ed' = [ed EXCEPT ![e] = "read"]
  /\ op' = [op EXCEPT ![e] = what]
  /\ arg' = [arg EXCEPT ![e] = a]
  /\ orderly' = (orderly /\ Busy = {})
  /\ UNCHANGED <<method, diskVars, held, before, proxyVars, reported>>

\* POST /api/backends: 409 when the label exists.
CreateBackend(e, l) ==
  /\ l \notin disk.conf.backends
  /\ Begin(e, "create", l)

\* PUT /api/backends/:name: 404 when it does not.
UpdateBackend(e, l) ==
  /\ l \in disk.conf.backends
  /\ Begin(e, "update", l)

\* Seeded fault: the reference from [routing].default is not looked up.
MutDeletable(c, l) == l \in c.backends /\ l \notin Primaries(c.routing)

\* What DELETE looks at: the default and the primaries of the rules.
Deletable(c, l) ==
  /\ l \in c.backends
  /\ l # c.routing.default
  /\ l \notin Primaries(c.routing)

\* DELETE /api/backends/:name: 404 or 409 unless the label can go.
DeleteBackend(e, l) ==
  /\ Deletable(disk.conf, l)
  /\ Begin(e, "delete", l)

\* validate_routing_body, against the backends of the file.
RoutingOK(c, t) ==
  /\ t.default \in c.backends
  /\ \A i \in DOMAIN t.rules : RuleOK(t.rules[i], c.backends)
  /\ \A i, j \in DOMAIN t.rules : t.rules[i].model = t.rules[j].model => i = j

\* PUT /api/routing: 400 unless the table passes.
UpdateRouting(e, t) ==
  /\ RoutingOK(disk.conf, t)
  /\ Begin(e, "routing", t)

\* Any of the checks above (or the session, role and body checks) refuses.
Refuse(e) ==
  /\ ed[e] = "idle"
  /\ ed' = [ed EXCEPT ![e] = "done"]
  /\ UNCHANGED <<method, diskVars, op, arg, held, before, proxyVars, reported, orderly>>

\* The TOML round trip on what the file holds now.
Edited(c, what, a) ==
  CASE what = "routing" -> [c EXCEPT !.routing = a]
    [] what = "delete"  -> [c EXCEPT !.backends = @ \ {a}]
    [] OTHER            -> [c EXCEPT !.backends = @ \cup {a}]

ReadToml(e) ==
  /\ ed[e] = "read"
  /\ ed' = [ed EXCEPT ![e] = "write"]
  /\ held' = [held EXCEPT ![e] = Edited(disk.conf, op[e], arg[e])]
  /\ UNCHANGED <<method, diskVars, op, arg, before, proxyVars, reported, orderly>>

\* POST /api/edit: the content only has to parse as a Config.
EditFile(e, c) ==
  /\ ed[e] = "idle"
  /\ FreeThread
  /\ ed' = [ed EXCEPT ![e] = "write"]
  /\ op' = [op EXCEPT ![e] = "edit"]
  /\ held' = [held EXCEPT ![e] = c]
  /\ orderly' = (orderly /\ Busy = {} /\ TargetsIn(c))
  /\ UNCHANGED <<method, diskVars, arg, before, proxyVars, reported>>

\* Seeded fault: the backups are sorted oldest first before the cut.
MutPrune(s) == IF Len(s) > BackupLimit THEN SubSeq(s, 1, BackupLimit) ELSE s

\* Seeded fault: nothing is pruned.
MutNoPrune(s) == s

\* prune_backups: the newest BackupLimit files stay.
Prune(s) ==
  IF Len(s) > BackupLimit THEN SubSeq(s, Len(s) - BackupLimit + 1, Len(s)) ELSE s

\* atomic_write reads the file again ...
ReadBefore(e) ==
  /\ ed[e] = "write"
  /\ ed' = [ed EXCEPT ![e] = "backup"]
  /\ before' = [before EXCEPT ![e] = disk]
  /\ UNCHANGED <<method, diskVars, op, arg, held, proxyVars, reported, orderly>>

\* ... and copies what it read to the backups.
Backup(e) ==
  /\ ed[e] = "backup"
  /\ ed' = [ed EXCEPT ![e] = "rename"]
  /\ backups' = Prune(Append(backups, before[e]))
  /\ UNCHANGED <<method, disk, op, arg, held, before, proxyVars, reported, orderly>>

\* POST /api/revert: a backup is read; it is neither validated nor backed up.
RevertFile(e, i) ==
  /\ ed[e] = "idle"
  /\ FreeThread
  /\ ed' = [ed EXCEPT ![e] = "rename"]
  /\ op' = [op EXCEPT ![e] = "revert"]
  /\ held' = [held EXCEPT ![e] = backups[i].conf]
  /\ orderly' = (orderly /\ Busy = {})
  /\ UNCHANGED <<method, diskVars, arg, before, proxyVars, reported>>

\* An I/O error before the rename: the file is untouched.
WriteFail(e) ==
  /\ ed[e] \in {"read", "write", "backup", "rename"}
  /\ ed' = [ed EXCEPT ![e] = "done"]
  /\ UNCHANGED <<method, diskVars, op, arg, held, before, proxyVars, reported, orderly>>

\* The rename puts the new content in place, whatever is there by now.
Rename(e) ==
  /\ ed[e] = "rename"
  /\ ed' = [ed EXCEPT ![e] = "trigger"]
  /\ disk' = [conf |-> held[e], ver |-> disk.ver + 1]
  /\ UNCHANGED <<method, backups, op, arg, held, before, proxyVars, reported, orderly>>

\* POST /api/reload/trigger: a reload without an edit.
TriggerOnly(e) ==
  /\ ed[e] = "idle"
  /\ ed' = [ed EXCEPT ![e] = "trigger"]
  /\ UNCHANGED <<method, diskVars, op, arg, held, before, proxyVars, reported, orderly>>

-----------------------------------------------------------------------------
(* The trigger                                                             *)

Finish(e) == ed' = [ed EXCEPT ![e] = "done"]

\* trigger_via_socket: RELOAD is written and the answer awaited.
SendReload(e) ==
  /\ method = "socket"
  /\ ed[e] = "trigger"
  /\ ed' = [ed EXCEPT ![e] = "await"]
  /\ task' = [task EXCEPT ![e] = "read"]
  /\ UNCHANGED <<method, diskVars, op, arg, held, before, pending, cand, reply, live, outcome,
                 restarts, reported, orderly>>

\* OK comes back: reload.triggered = true for the content this reload read.
ReloadOk(e) ==
  /\ ed[e] = "await"
  /\ reply[e] = "ok"
  /\ Finish(e)
  /\ reported' = IF cand[e].ver > reported THEN cand[e].ver ELSE reported
  /\ UNCHANGED <<method, diskVars, op, arg, held, before, proxyVars, orderly>>

\* ERR, the 5 s timeout, a refused connection, no method: triggered = false.
\* A reload that was sent goes on.
TriggerFail(e) ==
  /\ ed[e] = "trigger" \/ (ed[e] = "await" /\ reply[e] # "ok")
  /\ Finish(e)
  /\ UNCHANGED <<method, diskVars, op, arg, held, before, proxyVars, reported, orderly>>

\* trigger_via_pid_file: kill(2) succeeds, triggered = true at once.
SendSighup(e) ==
  /\ method = "sighup"
  /\ ed[e] = "trigger"
  /\ Finish(e)
  /\ pending' = TRUE
  /\ reported' = disk.ver
  /\ UNCHANGED <<method, diskVars, op, arg, held, before, task, cand, reply, live, outcome,
                 restarts, orderly>>

-----------------------------------------------------------------------------
(* The proxy's reloads                                                     *)

Step(r, l) == task' = [task EXCEPT ![r] = l]

\* run_reload_task takes the next signal when the last reload is over; recv()
\* consumes the notification before the reload begins.
TakeSignal ==
  /\ pending
  /\ task[Sighup] = "idle"
  /\ pending' = FALSE
  /\ Step(Sighup, "read")
  /\ UNCHANGED <<method, diskVars, editVars, cand, reply, live, outcome, restarts, reported, orderly>>

\* reload_once: Config::from_env_or_default reads the file.
ReadConfig(r) ==
  /\ task[r] = "read"
  /\ cand' = [cand EXCEPT ![r] = disk]
  /\ Step(r, "build")
  /\ UNCHANGED <<method, diskVars, editVars, pending, reply, live, outcome, restarts, reported, orderly>>

\* build_app_state succeeds and the shared state is swapped.
Swap(r) ==
  /\ task[r] = "build"
  /\ Loadable(cand[r].conf)
  /\ live' = cand[r]
  /\ Step(r, "ok")
  /\ UNCHANGED <<method, diskVars, editVars, pending, cand, reply, outcome, restarts, reported, orderly>>

\* The build fails: a configuration the proxy refuses, an unreadable file, a
\* panic.  The live state stays.
BuildFail(r) ==
  /\ task[r] \in {"read", "build"}
  /\ Step(r, "failed")
  /\ UNCHANGED <<method, diskVars, editVars, pending, cand, reply, live, outcome, restarts, reported, orderly>>

\* Seeded fault: signals that came in during the reload are drained at its end.
MutAuditReload(r) ==
  /\ task[r] \in {"ok", "failed"}
  /\ outcome' = task[r]
  /\ reply' = IF r \in Editors THEN [reply EXCEPT ![r] = task[r]] ELSE reply
  /\ Step(r, "idle")
  /\ pending' = FALSE
  /\ UNCHANGED <<method, diskVars, editVars, cand, live, restarts, reported, orderly>>

\* emit_reload_audit, then the answer on the socket.
AuditReload(r) ==
  /\ task[r] \in {"ok", "failed"}
  /\ outcome' = task[r]
  /\ reply' = IF r \in Editors THEN [reply EXCEPT ![r] = task[r]] ELSE reply
  /\ Step(r, "idle")
  /\ UNCHANGED <<method, diskVars, editVars, pending, cand, live, restarts, reported, orderly>>

\* The proxy is stopped and started again; async_main builds the state from
\* the file, or refuses to start (then it is started once the file is good).
Restart ==
  /\ restarts < MaxRestarts
  /\ Loadable(disk.conf)
  /\ restarts' = restarts + 1
  /\ pending' = FALSE
  /\ task' = [r \in Slots |-> "idle"]
  /\ live' = disk
  /\ UNCHANGED <<method, diskVars, editVars, cand, reply, outcome, reported, orderly>>

-----------------------------------------------------------------------------

Reload(r) ==
  \/ ReadConfig(r)
  \/ Swap(r)
  \/ BuildFail(r)
  \/ AuditReload(r)

Editor(e) ==
  \/ \E l \in Labels : CreateBackend(e, l) \/ UpdateBackend(e, l) \/ DeleteBackend(e, l)
  \/ \E t \in Tables : UpdateRouting(e, t)
  \/ \E c \in RawConfs : EditFile(e, c)
  \/ \E i \in 1..Len(backups) : RevertFile(e, i)
  \/ TriggerOnly(e)
  \/ Refuse(e)
  \/ ReadToml(e)
  \/ ReadBefore(e)
  \/ Backup(e)
  \/ Rename(e)
  \/ WriteFail(e)
  \/ SendReload(e)
  \/ ReloadOk(e)
  \/ TriggerFail(e)
  \/ SendSighup(e)

Next ==
  \/ \E e \in Editors : Editor(e)
  \/ TakeSignal
  \/ \E r \in Slots : Reload(r)
  \/ Restart

Spec == Init /\ [][Next]_vars

\* The reload task keeps running; editors may stop anywhere.
FairSpec == Spec /\ WF_vars(TakeSignal) /\ WF_vars(Reload(Sighup))

-----------------------------------------------------------------------------
(* Properties                                                              *)

FileTypes ==
  /\ disk \in Version
  /\ live \in Version
  /\ cand \in [Slots -> Version]
  /\ held \in [Editors -> Conf]
  /\ before \in [Editors -> Version]
  /\ backups \in Seq(Version) /\ Len(backups) <= BackupLimit

StepTypes ==
  /\ method \in Methods
  /\ ed \in [Editors -> {"idle", "read", "write", "backup", "rename", "trigger", "await", "done"}]
  /\ task \in [Slots -> {"idle", "read", "build", "ok", "failed"}]
  /\ reply \in [Editors -> {"none", "ok", "failed"}]
  /\ outcome \in {"none", "ok", "failed"}
  /\ pending \in BOOLEAN
  /\ restarts \in 0..MaxRestarts
  /\ reported \in Nat
  /\ orderly \in BOOLEAN

\* An editor between its check and its read holds an argument of its kind.
ArgTypes ==
  /\ op \in [Editors -> {"none", "create", "update", "delete", "routing", "edit", "revert"}]
  /\ DOMAIN arg = Editors
  /\ \A e \in Editors :
       ed[e] = "read" =>
         /\ op[e] = "routing" => arg[e] \in Table
         /\ op[e] # "routing" => arg[e] \in Labels

TypeOK == FileTypes /\ StepTypes /\ ArgTypes

Quiet == ~pending /\ \A r \in Slots : task[r] = "idle"

\* "A failed reload must not be silent": when no reload is under way, either
\* the live state has every content that was reported as reloaded, or the
\* last reload line of the audit log says that it failed.
NoSilentRollback == Quiet => live.ver >= reported \/ outcome = "failed"

\* So it is when SIGHUP is the trigger, whose reloads run one after the other.
SighupNotSilent == method = "sighup" => NoSilentRollback

\* What makes that inductive: a report that is not live yet is covered by the
\* signal or by the reload under way.
Covered ==
  LET t == task[Sighup] IN
  \/ pending
  \/ t \in {"read", "failed"}
  \/ t = "build" /\ cand[Sighup].ver >= reported
  \/ t = "ok" /\ live.ver >= reported
  \/ t = "idle" /\ (live.ver >= reported \/ outcome = "failed")

SighupCovered == method = "sighup" => Covered

\* What the console looks up before it deletes a backend or replaces the
\* routing table is enough for the default and the primaries: they stay
\* configured as long as no two edits overlap and raw edits, which are only
\* parsed, bring no dangling reference of their own.  Fallbacks do not: no
\* editor looks at them before a delete.
RoutingTargetsExist == orderly => TargetsIn(disk.conf)

Replaces(e) == ed[e] = "rename" /\ ed'[e] = "trigger" /\ op[e] # "revert"

HasBackup(v) == \E i \in 1..Len(backups) : backups[i] = v

\* On any number of threads, as long as no more edits run at once than
\* backups are kept: an edit that replaces the content it found leaves a
\* backup of it, although other edits prune and add older copies meanwhile.
EditKeepsBackup ==
  [][Threads <= BackupLimit =>
       \A e \in Editors : Replaces(e) /\ disk = before[e] => HasBackup(disk)]_vars

\* Signals coalesce, but none is lost: a content that was reported becomes
\* live, or a reload fails for the log to see.
ReportedLands ==
  \A n \in 1..Cardinality(Editors) :
    method = "sighup" /\ reported = n ~> (live.ver >= n \/ outcome = "failed")

=============================================================================
