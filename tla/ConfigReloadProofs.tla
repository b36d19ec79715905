------------------------- MODULE ConfigReloadProofs -------------------------
(***************************************************************************)
(* Proofs about ConfigReload for any number of editors, console threads,   *)
(* labels, routing tables and raw edits, and for both triggers.            *)
(***************************************************************************)
EXTENDS ConfigReload, SequenceTheorems, FiniteSetTheorems, TLAPS

-----------------------------------------------------------------------------
(* Types                                                                   *)

\* prune_backups keeps a list of file contents, of at most BackupLimit.
LEMMA PruneType ==
  ASSUME NEW s \in Seq(Version)
  PROVE  Prune(s) \in Seq(Version) /\ Len(Prune(s)) <= BackupLimit
<1>1. BackupLimit \in Nat \ {0} /\ Len(s) \in Nat
  BY ConstantsAssumption
<1>2. CASE Len(s) > BackupLimit
  <2> DEFINE m == Len(s) - BackupLimit + 1
  <2>1. m \in Int /\ Len(s) \in Int /\ Len(s) - m + 1 = BackupLimit /\ m <= Len(s) /\ m >= 1
    BY <1>1, <1>2
  <2>2. \A i \in m..Len(s) : s[i] \in Version
    BY <2>1
  <2> HIDE DEF m
  <2>3. SubSeq(s, m, Len(s)) \in Seq(Version) /\ Len(SubSeq(s, m, Len(s))) = BackupLimit
    BY <2>1, <2>2, SubSeqProperties
  <2> QED BY <1>2, <2>3 DEF Prune, m
<1>3. CASE ~(Len(s) > BackupLimit)
  BY <1>1, <1>3 DEF Prune
<1> QED BY <1>2, <1>3

\* The TOML round trip turns a configuration into a configuration.
LEMMA EditedType ==
  ASSUME NEW c \in Conf, NEW what, NEW a,
         what = "routing" => a \in Table, what # "routing" => a \in Labels
  PROVE  Edited(c, what, a) \in Conf
<1>1. c.backends \subseteq Labels
  BY DEF Conf
<1>2. CASE what = "routing"
  BY <1>2 DEF Edited, Conf
<1>3. CASE what = "delete"
  <2>1. c.backends \ {a} \in SUBSET Labels
    BY <1>1
  <2> QED BY <1>3, <2>1 DEF Edited, Conf
<1>4. CASE what # "routing" /\ what # "delete"
  <2>1. c.backends \cup {a} \in SUBSET Labels
    BY <1>1, <1>4
  <2>2. Edited(c, what, a) = [c EXCEPT !.backends = @ \cup {a}]
    BY <1>4 DEF Edited
  <2> QED BY <2>1, <2>2 DEF Conf
<1> QED BY <1>2, <1>3, <1>4

\* Steps of an editor that leave the contents alone.
Quietly(e) ==
  \/ \E l \in Labels : CreateBackend(e, l) \/ UpdateBackend(e, l) \/ DeleteBackend(e, l)
  \/ \E t \in Tables : UpdateRouting(e, t)
  \/ TriggerOnly(e) \/ Refuse(e) \/ WriteFail(e)
  \/ SendReload(e) \/ ReloadOk(e) \/ TriggerFail(e) \/ SendSighup(e)

\* Files, candidates and the live state always hold configurations.
LEMMA FileStep ==
  ASSUME FileTypes, StepTypes, ArgTypes, [Next]_vars
  PROVE  FileTypes'
<1>1. ASSUME NEW e \in Editors, Quietly(e) PROVE FileTypes'
  <2>1. UNCHANGED <<disk, live, cand, held, before, backups>>
    BY <1>1 DEF Quietly, CreateBackend, UpdateBackend, DeleteBackend, UpdateRouting,
       TriggerOnly, Refuse, WriteFail, SendReload, ReloadOk, TriggerFail, SendSighup,
       Begin, diskVars, proxyVars
  <2> QED BY <2>1 DEF FileTypes
<1>2. ASSUME NEW e \in Editors, ReadToml(e) PROVE FileTypes'
  <2>1. Edited(disk.conf, op[e], arg[e]) \in Conf
    <3>1. disk.conf \in Conf
      BY DEF FileTypes, Version
    <3>2. op[e] = "routing" => arg[e] \in Table
      BY <1>2 DEF ReadToml, ArgTypes
    <3>3. op[e] # "routing" => arg[e] \in Labels
      BY <1>2 DEF ReadToml, ArgTypes
    <3> QED BY <3>1, <3>2, <3>3, EditedType
  <2> QED BY <1>2, <2>1 DEF ReadToml, FileTypes, diskVars, proxyVars
<1>3. ASSUME NEW e \in Editors, NEW c \in RawConfs, EditFile(e, c) PROVE FileTypes'
  <2>1. c \in Conf
    BY ConstantsAssumption
  <2> QED BY <1>3, <2>1 DEF EditFile, FileTypes, diskVars, proxyVars
<1>4. ASSUME NEW e \in Editors, NEW i \in 1..Len(backups), RevertFile(e, i) PROVE FileTypes'
  <2>1. backups \in Seq(Version)
    BY DEF FileTypes
  <2>2. backups[i] \in Version
    BY <2>1
  <2>3. backups[i].conf \in Conf
    BY <2>2 DEF Version
  <2> QED BY <1>4, <2>3 DEF RevertFile, FileTypes, diskVars, proxyVars
<1>11. ASSUME NEW e \in Editors, ReadBefore(e) PROVE FileTypes'
  BY <1>11 DEF ReadBefore, FileTypes, diskVars, proxyVars
<1>5. ASSUME NEW e \in Editors, Backup(e) PROVE FileTypes'
  <2>1. Append(backups, before[e]) \in Seq(Version)
    BY DEF FileTypes
  <2>2. backups' \in Seq(Version) /\ Len(backups') <= BackupLimit
    BY <1>5, <2>1, PruneType DEF Backup
  <2> QED BY <1>5, <2>2 DEF Backup, FileTypes, proxyVars
<1>6. ASSUME NEW e \in Editors, Rename(e) PROVE FileTypes'
  <2>1. disk' \in Version
    BY <1>6 DEF Rename, FileTypes, Version
  <2> QED BY <1>6, <2>1 DEF Rename, FileTypes, proxyVars
<1>7. CASE TakeSignal
  BY <1>7 DEF TakeSignal, FileTypes, diskVars, editVars
<1>8. ASSUME NEW r \in Slots, Reload(r) PROVE FileTypes'
  BY <1>8 DEF Reload, ReadConfig, Swap, BuildFail, AuditReload, FileTypes, diskVars, editVars
<1>9. CASE Restart
  BY <1>9 DEF Restart, FileTypes, diskVars, editVars
<1>10. CASE UNCHANGED vars
  BY <1>10 DEF vars, diskVars, editVars, proxyVars, FileTypes
<1> QED
  BY <1>1, <1>2, <1>3, <1>4, <1>5, <1>6, <1>7, <1>8, <1>9, <1>10, <1>11 DEF Next, Editor, Quietly

\* Program counters, answers and counters stay in their sets.
LEMMA StepStep ==
  ASSUME FileTypes, StepTypes, [Next]_vars
  PROVE  StepTypes'
<1> USE DEF StepTypes
<1>0. disk.ver \in Nat /\ \A r \in Slots : cand[r].ver \in Nat
  BY DEF FileTypes, Version
<1>1. ASSUME NEW e \in Editors, Editor(e), ~SendReload(e), ~ReloadOk(e), ~SendSighup(e)
      PROVE  StepTypes'
  <2>1. UNCHANGED <<method, proxyVars, reported>>
    BY <1>1 DEF Editor, CreateBackend, UpdateBackend, DeleteBackend, UpdateRouting,
       EditFile, RevertFile, TriggerOnly, Refuse, ReadToml, ReadBefore, Backup, Rename, WriteFail,
       TriggerFail, Begin
  <2>2. \E l \in {"read", "write", "backup", "rename", "trigger", "done"} : ed' = [ed EXCEPT ![e] = l]
    BY <1>1 DEF Editor, CreateBackend, UpdateBackend, DeleteBackend, UpdateRouting,
       EditFile, RevertFile, TriggerOnly, Refuse, ReadToml, ReadBefore, Backup, Rename, WriteFail,
       TriggerFail, Begin, Finish
  <2>3. orderly' \in BOOLEAN
    BY <1>1 DEF Editor, CreateBackend, UpdateBackend, DeleteBackend, UpdateRouting,
       EditFile, RevertFile, TriggerOnly, Refuse, ReadToml, ReadBefore, Backup, Rename,
       WriteFail, TriggerFail, Begin
  <2> QED BY <2>1, <2>2, <2>3 DEF proxyVars
<1>2. ASSUME NEW e \in Editors, SendReload(e) PROVE StepTypes'
  BY <1>2 DEF SendReload, Slots
<1>3. ASSUME NEW e \in Editors, ReloadOk(e) PROVE StepTypes'
  <2>1. reported' \in Nat
    BY <1>0, <1>3 DEF ReloadOk, Slots
  <2> QED BY <1>3, <2>1 DEF ReloadOk, Finish, proxyVars
<1>4. ASSUME NEW e \in Editors, SendSighup(e) PROVE StepTypes'
  BY <1>0, <1>4 DEF SendSighup, Finish
<1>5. CASE TakeSignal
  BY <1>5 DEF TakeSignal, Step, editVars
<1>6. ASSUME NEW r \in Slots, ReadConfig(r) \/ Swap(r) \/ BuildFail(r) PROVE StepTypes'
  BY <1>6 DEF ReadConfig, Swap, BuildFail, Step, editVars
<1>7. ASSUME NEW r \in Slots, AuditReload(r) PROVE StepTypes'
  BY <1>7 DEF AuditReload, Step, editVars
<1>8. CASE Restart
  <2>1. restarts' \in 0..MaxRestarts
    <3>1. MaxRestarts \in Nat /\ restarts \in 0..MaxRestarts
      BY ConstantsAssumption
    <3>2. restarts < MaxRestarts /\ restarts' = restarts + 1
      BY <1>8 DEF Restart
    <3> QED BY <3>1, <3>2
  <2>2. task' \in [Slots -> {"idle", "read", "build", "ok", "failed"}]
    BY <1>8 DEF Restart
  <2>3. pending' \in BOOLEAN
    BY <1>8 DEF Restart
  <2>4. UNCHANGED <<method, ed, reply, outcome, reported, orderly>>
    BY <1>8 DEF Restart, editVars
  <2> QED BY <2>1, <2>2, <2>3, <2>4
<1>9. CASE UNCHANGED vars
  BY <1>9 DEF vars, editVars, proxyVars
<1> QED BY <1>1, <1>2, <1>3, <1>4, <1>5, <1>6, <1>7, <1>8, <1>9 DEF Next, Editor, Reload

\* The argument an editor holds is of the kind its operation needs.
LEMMA ArgStep ==
  ASSUME StepTypes, ArgTypes, [Next]_vars
  PROVE  ArgTypes'
<1> USE DEF ArgTypes, StepTypes
<1>1. ASSUME NEW e \in Editors, NEW l \in Labels, CreateBackend(e, l) PROVE ArgTypes'
  BY <1>1 DEF CreateBackend, Begin
<1>2. ASSUME NEW e \in Editors, NEW l \in Labels, UpdateBackend(e, l) PROVE ArgTypes'
  BY <1>2 DEF UpdateBackend, Begin
<1>3. ASSUME NEW e \in Editors, NEW l \in Labels, DeleteBackend(e, l) PROVE ArgTypes'
  BY <1>3 DEF DeleteBackend, Begin
<1>4. ASSUME NEW e \in Editors, NEW t \in Tables, UpdateRouting(e, t) PROVE ArgTypes'
  BY <1>4, ConstantsAssumption DEF UpdateRouting, Begin
<1>5. ASSUME NEW e \in Editors, NEW c \in RawConfs, EditFile(e, c) PROVE ArgTypes'
  BY <1>5 DEF EditFile
<1>6. ASSUME NEW e \in Editors, NEW i \in 1..Len(backups), RevertFile(e, i) PROVE ArgTypes'
  BY <1>6 DEF RevertFile
<1>7. ASSUME NEW e \in Editors,
             \/ TriggerOnly(e) \/ Refuse(e) \/ ReadToml(e) \/ ReadBefore(e) \/ Backup(e) \/ Rename(e)
             \/ WriteFail(e) \/ SendReload(e) \/ ReloadOk(e) \/ TriggerFail(e)
             \/ SendSighup(e)
      PROVE  ArgTypes'
  BY <1>7 DEF TriggerOnly, Refuse, ReadToml, ReadBefore, Backup, Rename, WriteFail, SendReload,
     ReloadOk, TriggerFail, SendSighup, Finish
<1>8. CASE UNCHANGED editVars
  BY <1>8 DEF editVars
<1>9. TakeSignal \/ (\E r \in Slots : Reload(r)) \/ Restart \/ UNCHANGED vars
        => UNCHANGED editVars
  BY DEF TakeSignal, Reload, ReadConfig, Swap, BuildFail, AuditReload, Restart, vars, editVars
<1> QED BY <1>1, <1>2, <1>3, <1>4, <1>5, <1>6, <1>7, <1>8, <1>9 DEF Next, Editor

\* Every variable keeps its type, and no more than BackupLimit backups of the
\* file are kept, for any number of editors and reloads.
THEOREM TypeCorrect == Spec => []TypeOK
<1>1. Init => TypeOK
  <2> SUFFICES ASSUME Init PROVE TypeOK
    OBVIOUS
  <2>1. disk \in Version
    BY ConstantsAssumption DEF Init, Version
  <2>2. FileTypes
    BY <2>1, ConstantsAssumption DEF Init, FileTypes
  <2>3. StepTypes
    <3>1. restarts \in 0..MaxRestarts
      <4>1. MaxRestarts \in Nat /\ restarts = 0
        BY ConstantsAssumption DEF Init
      <4> QED BY <4>1
    <3>2. pending \in BOOLEAN
      BY DEF Init
    <3> QED BY <3>1, <3>2 DEF Init, StepTypes
  <2>4. ArgTypes
    BY DEF Init, ArgTypes
  <2> QED BY <2>2, <2>3, <2>4 DEF TypeOK
<1>2. TypeOK /\ [Next]_vars => TypeOK'
  BY FileStep, StepStep, ArgStep DEF TypeOK
<1> QED BY <1>1, <1>2, PTL DEF Spec

-----------------------------------------------------------------------------
(* Reloads by SIGHUP                                                       *)

\* When SIGHUP is the trigger no editor waits on a socket and none of the
\* per-connection reloads runs.
NoSocket ==
  /\ DOMAIN ed = Editors
  /\ DOMAIN task = Slots
  /\ \A e \in Editors : ed[e] # "await" /\ task[e] = "idle"

Versions ==
  /\ disk.ver \in Nat
  /\ live.ver \in Nat
  /\ reported \in Nat
  /\ reported <= disk.ver
  /\ DOMAIN cand = Slots
  /\ cand[Sighup].ver \in Nat

SighupInv == method = "sighup" /\ NoSocket /\ Versions /\ Covered

\* The steps of an editor that neither write the file nor trigger.
Local(e) ==
  \/ \E l \in Labels : CreateBackend(e, l) \/ UpdateBackend(e, l) \/ DeleteBackend(e, l)
  \/ \E t \in Tables : UpdateRouting(e, t)
  \/ \E c \in RawConfs : EditFile(e, c)
  \/ \E i \in 1..Len(backups) : RevertFile(e, i)
  \/ TriggerOnly(e) \/ Refuse(e) \/ ReadToml(e) \/ ReadBefore(e) \/ Backup(e)
  \/ WriteFail(e) \/ TriggerFail(e)

\* With SIGHUP as the trigger, an editor's step keeps the cover: only the
\* signal itself raises what was reported, and it is pending from then on.
LEMMA EditorKeepsCover ==
  ASSUME SighupInv, NEW e \in Editors, Editor(e)
  PROVE  SighupInv'
<1> USE DEF SighupInv
<1>1. CASE Rename(e)
  <2>1. disk'.ver = disk.ver + 1 /\ UNCHANGED <<method, proxyVars, reported>>
        /\ ed' = [ed EXCEPT ![e] = "trigger"]
    BY <1>1 DEF Rename
  <2>2. NoSocket' BY <2>1 DEF NoSocket, proxyVars
  <2>3. Versions' BY <2>1 DEF Versions, proxyVars
  <2> QED BY <2>1, <2>2, <2>3 DEF Covered, proxyVars
<1>2. CASE SendSighup(e)
  <2>1. NoSocket' BY <1>2 DEF SendSighup, Finish, NoSocket
  <2>2. Versions' BY <1>2 DEF SendSighup, Versions, diskVars
  <2> QED BY <1>2, <2>1, <2>2 DEF SendSighup, Covered
<1>3. CASE SendReload(e)
  BY <1>3 DEF SendReload
<1>4. CASE ReloadOk(e)
  BY <1>4 DEF ReloadOk, NoSocket
<1>5. CASE Local(e)
  <2>1. UNCHANGED <<method, disk, proxyVars, reported>>
    BY <1>5 DEF Local, CreateBackend, UpdateBackend, DeleteBackend, UpdateRouting,
       EditFile, RevertFile, TriggerOnly, Refuse, ReadToml, ReadBefore, Backup, WriteFail,
       TriggerFail, Begin, diskVars
  <2>2. \E l \in {"read", "write", "backup", "rename", "trigger", "done"} : ed' = [ed EXCEPT ![e] = l]
    BY <1>5 DEF Local, CreateBackend, UpdateBackend, DeleteBackend, UpdateRouting,
       EditFile, RevertFile, TriggerOnly, Refuse, ReadToml, ReadBefore, Backup, WriteFail,
       TriggerFail, Begin, Finish
  <2>3. NoSocket' BY <2>1, <2>2 DEF NoSocket, proxyVars
  <2>4. Versions' BY <2>1 DEF Versions, proxyVars
  <2> QED BY <2>1, <2>3, <2>4 DEF Covered, proxyVars
<1> QED BY <1>1, <1>2, <1>3, <1>4, <1>5 DEF Editor, Local

\* The reload task keeps the cover: it reads what is on disk, which is at
\* least what was reported, and a report that comes in later has its signal.
LEMMA ReloadKeepsCover ==
  ASSUME SighupInv, NEW r \in Slots, Reload(r)
  PROVE  SighupInv'
<1> USE DEF SighupInv
<1>1. r = Sighup
  BY DEF Reload, ReadConfig, Swap, BuildFail, AuditReload, NoSocket, Slots
<1>2. Sighup \in Slots /\ Sighup \notin Editors
  BY ConstantsAssumption DEF Slots
<1>3. CASE ReadConfig(Sighup)
  <2>1. NoSocket' BY <1>2, <1>3 DEF ReadConfig, Step, NoSocket, editVars
  <2>2. Versions' BY <1>2, <1>3 DEF ReadConfig, Versions, diskVars
  <2>3. Covered' BY <1>2, <1>3 DEF ReadConfig, Step, Covered, Versions, NoSocket
  <2> QED BY <1>3, <2>1, <2>2, <2>3 DEF ReadConfig
<1>4. CASE Swap(Sighup)
  <2>1. NoSocket' BY <1>2, <1>4 DEF Swap, Step, NoSocket, editVars
  <2>2. Versions' BY <1>2, <1>4 DEF Swap, Versions, diskVars
  <2>3. Covered' BY <1>2, <1>4 DEF Swap, Step, Covered, Versions, NoSocket
  <2> QED BY <1>4, <2>1, <2>2, <2>3 DEF Swap
<1>5. CASE BuildFail(Sighup)
  <2>1. NoSocket' BY <1>2, <1>5 DEF BuildFail, Step, NoSocket, editVars
  <2>2. Versions' BY <1>2, <1>5 DEF BuildFail, Versions, diskVars
  <2>3. Covered' BY <1>2, <1>5 DEF BuildFail, Step, Covered, Versions, NoSocket
  <2> QED BY <1>5, <2>1, <2>2, <2>3 DEF BuildFail
<1>6. CASE AuditReload(Sighup)
  <2>1. NoSocket' BY <1>2, <1>6 DEF AuditReload, Step, NoSocket, editVars
  <2>2. Versions' BY <1>2, <1>6 DEF AuditReload, Versions, diskVars
  <2>3. Covered' BY <1>2, <1>6 DEF AuditReload, Step, Covered, Versions, NoSocket
  <2> QED BY <1>6, <2>1, <2>2, <2>3 DEF AuditReload
<1> QED BY <1>1, <1>3, <1>4, <1>5, <1>6 DEF Reload

\* Every step keeps the invariant of the SIGHUP deployments.
LEMMA SighupStep ==
  ASSUME SighupInv, [Next]_vars
  PROVE  SighupInv'
<1>0. Sighup \in Slots /\ Sighup \notin Editors
  BY ConstantsAssumption DEF Slots
<1>1. ASSUME NEW e \in Editors, Editor(e) PROVE SighupInv'
  BY <1>1, EditorKeepsCover
<1>2. CASE TakeSignal
  <2>1. NoSocket' BY <1>0, <1>2 DEF TakeSignal, Step, SighupInv, NoSocket, editVars
  <2>2. Versions' BY <1>2 DEF TakeSignal, SighupInv, Versions, diskVars
  <2>3. Covered' BY <1>0, <1>2 DEF TakeSignal, Step, SighupInv, NoSocket, Covered
  <2> QED BY <1>2, <2>1, <2>2, <2>3 DEF TakeSignal, SighupInv
<1>3. ASSUME NEW r \in Slots, Reload(r) PROVE SighupInv'
  BY <1>3, ReloadKeepsCover
<1>4. CASE Restart
  <2>1. NoSocket' BY <1>0, <1>4 DEF Restart, SighupInv, NoSocket, editVars, Slots
  <2>2. Versions' BY <1>4 DEF Restart, SighupInv, Versions, diskVars
  <2>3. Covered' BY <1>0, <1>4 DEF Restart, SighupInv, Versions, Covered
  <2> QED BY <1>4, <2>1, <2>2, <2>3 DEF Restart, SighupInv
<1>5. CASE UNCHANGED vars
  BY <1>5 DEF vars, diskVars, editVars, proxyVars, SighupInv, NoSocket, Versions, Covered
<1> QED BY <1>1, <1>2, <1>3, <1>4, <1>5 DEF Next

\* The invariant holds at startup if SIGHUP is the trigger, and the trigger
\* is part of the configuration that only a restart changes.
LEMMA MethodFixed ==
  /\ Init => method # "sighup" \/ SighupInv
  /\ (method # "sighup" \/ SighupInv) /\ [Next]_vars => (method # "sighup" \/ SighupInv)'
<1>1. ASSUME Init, method = "sighup" PROVE SighupInv
  <2>1. NoSocket
    BY <1>1 DEF Init, NoSocket, Slots
  <2>2. Versions
    BY <1>1, ConstantsAssumption DEF Init, Versions, Slots
  <2>3. Covered
    BY <1>1, ConstantsAssumption DEF Init, Covered, Slots
  <2> QED BY <1>1, <2>1, <2>2, <2>3 DEF SighupInv
<1>2. ASSUME [Next]_vars PROVE method' = method
  BY <1>2 DEF Next, vars, Editor, CreateBackend, UpdateBackend, DeleteBackend,
     UpdateRouting, EditFile, RevertFile, TriggerOnly, Refuse, ReadToml, ReadBefore, Backup,
     Rename, WriteFail, SendReload, ReloadOk, TriggerFail, SendSighup, Begin,
     TakeSignal, Reload, ReadConfig, Swap, BuildFail, AuditReload, Restart
<1> QED BY <1>1, <1>2, SighupStep

\* With SIGHUP as the trigger, and any number of editors whose signals
\* coalesce: when no reload is under way, whatever was reported as reloaded
\* is live, or the last reload line of the audit log is a failure.
THEOREM SighupNeverSilent == Spec => []SighupNotSilent
<1> DEFINE I == method # "sighup" \/ SighupInv
<1>1. Init => I
  BY MethodFixed
<1>2. I /\ [Next]_vars => I'
  BY MethodFixed
<1>3. I => SighupNotSilent
  BY ConstantsAssumption
  DEF SighupNotSilent, NoSilentRollback, Quiet, SighupInv, Covered, Slots
<1> QED BY <1>1, <1>2, <1>3, PTL DEF Spec

-----------------------------------------------------------------------------
(* Edits that do not overlap                                               *)

\* Of the edits that hold a thread there is at most one.
OneBusy == \A e, f \in Busy : e = f

\* What an editor relies on between its check and its rename: the file is
\* still the one that was checked.
Prepared(e) ==
  /\ ed[e] = "read" /\ op[e] = "routing" => RoutingOK(disk.conf, arg[e])
  /\ ed[e] = "read" /\ op[e] = "delete" => Deletable(disk.conf, arg[e])
  /\ ed[e] \in {"write", "backup", "rename"} => TargetsIn(held[e])
  /\ ed[e] = "backup" => TargetsIn(before[e].conf)

TargetsInv ==
  orderly =>
    /\ OneBusy
    /\ TargetsIn(disk.conf)
    /\ \A i \in 1..Len(backups) : TargetsIn(backups[i].conf)
    /\ \A e \in Editors : Prepared(e)

\* A copy that is among the newest BackupLimit survives prune_backups, at the
\* same distance from the newest.
LEMMA PruneTail ==
  ASSUME NEW s \in Seq(Version), NEW i \in 1..Len(s), Len(s) - i < BackupLimit
  PROVE  \E k \in 1..Len(Prune(s)) :
           Prune(s)[k] = s[i] /\ Len(Prune(s)) - k = Len(s) - i
<1>1. BackupLimit \in Nat \ {0} /\ Len(s) \in Nat
  BY ConstantsAssumption
<1>2. CASE Len(s) > BackupLimit
  <2> DEFINE m == Len(s) - BackupLimit + 1
             t == SubSeq(s, m, Len(s))
  <2>1. m \in Int /\ Len(s) - m + 1 = BackupLimit /\ m <= Len(s) /\ m >= 1
    BY <1>1, <1>2
  <2>2. Prune(s) = t
    BY <1>2 DEF Prune
  <2>3. \A j \in m..Len(s) : s[j] \in Version
    BY <2>1
  <2>4. Len(s) \in Int
    BY <1>1
  <2>6. i - m + 1 \in 1..BackupLimit /\ m + (i - m + 1) - 1 = i
        /\ BackupLimit - (i - m + 1) = Len(s) - i
    BY <1>1, <2>1
  <2> HIDE DEF m
  <2>5. Len(t) = BackupLimit /\ \A j \in 1..BackupLimit : t[j] = s[m + j - 1]
    BY <2>1, <2>3, <2>4, SubSeqProperties
  <2> HIDE DEF t
  <2>7. i - m + 1 \in 1..Len(t) /\ t[i - m + 1] = s[i] /\ Len(t) - (i - m + 1) = Len(s) - i
    BY <2>5, <2>6
  <2> QED BY <2>2, <2>7
<1>3. CASE ~(Len(s) > BackupLimit)
  BY <1>1, <1>3 DEF Prune
<1> QED BY <1>2, <1>3

\* prune_backups adds nothing.
LEMMA PruneKeeps ==
  ASSUME NEW s \in Seq(Version)
  PROVE  \A i \in 1..Len(Prune(s)) : \E j \in 1..Len(s) : Prune(s)[i] = s[j]
<1>1. BackupLimit \in Nat \ {0} /\ Len(s) \in Nat
  BY ConstantsAssumption
<1>2. CASE Len(s) > BackupLimit
  <2> DEFINE m == Len(s) - BackupLimit + 1
             t == SubSeq(s, m, Len(s))
  <2>1. m \in Int /\ Len(s) - m + 1 = BackupLimit /\ m <= Len(s) /\ m >= 1
    BY <1>1, <1>2
  <2>2. Prune(s) = t
    BY <1>2 DEF Prune
  <2>3. \A i \in m..Len(s) : s[i] \in Version
    BY <2>1
  <2>4. Len(s) \in Int
    BY <1>1
  <2>6. \A i \in 1..BackupLimit : m + i - 1 \in 1..Len(s)
    BY <1>1, <2>1
  <2> HIDE DEF m
  <2>5. Len(t) = BackupLimit /\ \A i \in 1..BackupLimit : t[i] = s[m + i - 1]
    BY <2>1, <2>3, <2>4, SubSeqProperties
  <2> HIDE DEF t
  <2> QED BY <2>2, <2>5, <2>6
<1>3. CASE ~(Len(s) > BackupLimit)
  BY <1>1, <1>3 DEF Prune
<1> QED BY <1>2, <1>3

\* An edit that passed its check on this very file keeps the targets.
LEMMA EditedTargets ==
  ASSUME NEW c \in Conf, TargetsIn(c), NEW what, NEW a,
         what = "routing" => a \in Table /\ RoutingOK(c, a),
         what = "delete" => Deletable(c, a)
  PROVE  TargetsIn(Edited(c, what, a))
<1>1. CASE what = "routing"
  <2>1. Edited(c, what, a).routing = a /\ Edited(c, what, a).backends = c.backends
    BY <1>1 DEF Edited, Conf
  <2>2. Primaries(a) \subseteq c.backends
    BY <1>1 DEF RoutingOK, RuleOK, Primaries
  <2> QED BY <1>1, <2>1, <2>2 DEF TargetsIn, RoutingOK
<1>2. CASE what = "delete"
  <2>1. /\ Edited(c, what, a).routing = c.routing
        /\ Edited(c, what, a).backends = c.backends \ {a}
    BY <1>2 DEF Edited, Conf
  <2> QED BY <1>2, <2>1 DEF TargetsIn, Deletable
<1>3. CASE what # "routing" /\ what # "delete"
  <2>1. Edited(c, what, a) = [c EXCEPT !.backends = @ \cup {a}]
    BY <1>3 DEF Edited
  <2>2. /\ Edited(c, what, a).routing = c.routing
        /\ Edited(c, what, a).backends = c.backends \cup {a}
    BY <2>1 DEF Conf
  <2> QED BY <2>2 DEF TargetsIn
<1> QED BY <1>1, <1>2, <1>3

\* A step of the only editor that has a thread: only its own part is at stake.
LEMMA ThreadStep ==
  ASSUME StepTypes, NEW e \in Editors, Busy \subseteq {e},
         NEW l, ed' = [ed EXCEPT ![e] = l],
         TargetsIn(disk'.conf), \A i \in 1..Len(backups') : TargetsIn(backups'[i].conf),
         Prepared(e)'
  PROVE  TargetsInv'
<1>1. Busy' \subseteq {e}
  BY DEF Busy, StepTypes
<1>2. ASSUME NEW f \in Editors PROVE Prepared(f)'
  <2>1. CASE f = e
    BY <2>1
  <2>2. CASE f # e
    <3>1. ed'[f] = ed[f] /\ ed[f] \notin {"read", "write", "backup", "rename"}
      BY <2>2 DEF StepTypes, Busy
    <3> QED BY <3>1 DEF Prepared
  <2> QED BY <2>1, <2>2
<1> QED BY <1>1, <1>2 DEF TargetsInv, OneBusy

\* Every step keeps the targets, as long as the edits are orderly.
LEMMA TargetsStep ==
  ASSUME TypeOK, TargetsInv, [Next]_vars
  PROVE  TargetsInv'
<1>0. FileTypes /\ StepTypes /\ ArgTypes /\ disk.conf \in Conf
  BY DEF TypeOK, FileTypes, Version
<1> SUFFICES ASSUME orderly' PROVE TargetsInv'
  BY DEF TargetsInv
<1>o. orderly
  BY DEF Next, vars, Editor, CreateBackend, UpdateBackend, DeleteBackend,
     UpdateRouting, EditFile, RevertFile, TriggerOnly, Refuse, ReadToml, ReadBefore, Backup,
     Rename, WriteFail, SendReload, ReloadOk, TriggerFail, SendSighup, Begin,
     TakeSignal, Reload, ReadConfig, Swap, BuildFail, AuditReload, Restart
<1>a. /\ OneBusy /\ TargetsIn(disk.conf)
      /\ \A i \in 1..Len(backups) : TargetsIn(backups[i].conf)
      /\ \A e \in Editors : Prepared(e)
  BY <1>o DEF TargetsInv
<1>b. ASSUME NEW e \in Editors, e \in Busy PROVE Busy \subseteq {e}
  BY <1>a, <1>b DEF OneBusy
<1>1. ASSUME NEW e \in Editors, NEW what, NEW a, Begin(e, what, a),
             what = "routing" => RoutingOK(disk.conf, a),
             what = "delete" => Deletable(disk.conf, a)
      PROVE  TargetsInv'
  <2>1. /\ Busy \subseteq {e} /\ ed' = [ed EXCEPT ![e] = "read"] /\ UNCHANGED <<disk, backups>>
        /\ op' = [op EXCEPT ![e] = what] /\ arg' = [arg EXCEPT ![e] = a]
    BY <1>1 DEF Begin, diskVars
  <2>2. ed'[e] = "read" /\ op'[e] = what /\ arg'[e] = a
    BY <1>0, <2>1 DEF StepTypes, ArgTypes
  <2>3. Prepared(e)'
    BY <1>1, <2>1, <2>2 DEF Prepared
  <2> QED BY <1>0, <1>a, <2>1, <2>3, ThreadStep
<1>2. ASSUME NEW e \in Editors, NEW l \in Labels,
             CreateBackend(e, l) \/ UpdateBackend(e, l) \/ DeleteBackend(e, l)
      PROVE  TargetsInv'
  BY <1>1, <1>2 DEF CreateBackend, UpdateBackend, DeleteBackend
<1>3. ASSUME NEW e \in Editors, NEW t \in Tables, UpdateRouting(e, t) PROVE TargetsInv'
  BY <1>1, <1>3 DEF UpdateRouting
<1>4. ASSUME NEW e \in Editors, NEW c \in RawConfs, EditFile(e, c) PROVE TargetsInv'
  <2>1. /\ Busy \subseteq {e} /\ ed' = [ed EXCEPT ![e] = "write"] /\ TargetsIn(c)
        /\ UNCHANGED <<disk, backups>> /\ held' = [held EXCEPT ![e] = c]
    BY <1>4 DEF EditFile, diskVars
  <2>2. ed'[e] = "write" /\ held'[e] = c
    BY <1>0, <2>1 DEF StepTypes, FileTypes
  <2>3. Prepared(e)'
    BY <2>1, <2>2 DEF Prepared
  <2> QED BY <1>0, <1>a, <2>1, <2>3, ThreadStep
<1>5. ASSUME NEW e \in Editors, NEW i \in 1..Len(backups), RevertFile(e, i) PROVE TargetsInv'
  <2>1. /\ Busy \subseteq {e} /\ ed' = [ed EXCEPT ![e] = "rename"]
        /\ UNCHANGED <<disk, backups>> /\ held' = [held EXCEPT ![e] = backups[i].conf]
    BY <1>5 DEF RevertFile, diskVars
  <2>2. ed'[e] = "rename" /\ held'[e] = backups[i].conf
    BY <1>0, <2>1 DEF StepTypes, FileTypes
  <2>3. Prepared(e)'
    BY <1>a, <2>2 DEF Prepared
  <2> QED BY <1>0, <1>a, <2>1, <2>3, ThreadStep
<1>6. ASSUME NEW e \in Editors, ReadToml(e) PROVE TargetsInv'
  <2>1. /\ e \in Busy /\ ed' = [ed EXCEPT ![e] = "write"] /\ ed[e] = "read"
        /\ UNCHANGED <<disk, backups>>
        /\ held' = [held EXCEPT ![e] = Edited(disk.conf, op[e], arg[e])]
    BY <1>6 DEF ReadToml, diskVars, Busy
  <2>2. Prepared(e)
    BY <1>a
  <2>3. /\ op[e] = "routing" => arg[e] \in Table /\ RoutingOK(disk.conf, arg[e])
        /\ op[e] = "delete" => Deletable(disk.conf, arg[e])
    BY <1>0, <2>1, <2>2 DEF Prepared, ArgTypes
  <2>4. TargetsIn(Edited(disk.conf, op[e], arg[e]))
    BY <1>0, <1>a, <2>3, EditedTargets
  <2>5. ed'[e] = "write" /\ held'[e] = Edited(disk.conf, op[e], arg[e])
    BY <1>0, <2>1 DEF StepTypes, FileTypes
  <2>6. Prepared(e)'
    BY <2>4, <2>5 DEF Prepared
  <2> QED BY <1>0, <1>a, <1>b, <2>1, <2>6, ThreadStep
<1>12. ASSUME NEW e \in Editors, ReadBefore(e) PROVE TargetsInv'
  <2>1. /\ e \in Busy /\ ed' = [ed EXCEPT ![e] = "backup"] /\ ed[e] = "write"
        /\ UNCHANGED <<disk, backups, held>> /\ before' = [before EXCEPT ![e] = disk]
    BY <1>12 DEF ReadBefore, diskVars, Busy
  <2>2. ed'[e] = "backup" /\ before'[e] = disk /\ TargetsIn(held[e])
    BY <1>0, <1>a, <2>1 DEF StepTypes, FileTypes, Prepared
  <2>3. Prepared(e)'
    BY <1>a, <2>1, <2>2 DEF Prepared
  <2> QED BY <1>0, <1>a, <1>b, <2>1, <2>3, ThreadStep
<1>7. ASSUME NEW e \in Editors, Backup(e) PROVE TargetsInv'
  <2>1. /\ e \in Busy /\ ed' = [ed EXCEPT ![e] = "rename"] /\ ed[e] = "backup"
        /\ disk' = disk /\ held' = held /\ backups' = Prune(Append(backups, before[e]))
    BY <1>7 DEF Backup, Busy
  <2> DEFINE s == Append(backups, before[e])
  <2>2. /\ s \in Seq(Version)
        /\ \A j \in 1..Len(s) : s[j] = before[e] \/ (j \in 1..Len(backups) /\ s[j] = backups[j])
    BY <1>0 DEF FileTypes
  <2> HIDE DEF s
  <2>3. \A i \in 1..Len(backups') : \E j \in 1..Len(s) : backups'[i] = s[j]
    BY <2>1, <2>2, PruneKeeps DEF s
  <2>5. TargetsIn(held[e]) /\ TargetsIn(before[e].conf)
    BY <1>a, <2>1 DEF Prepared
  <2>4. \A i \in 1..Len(backups') : TargetsIn(backups'[i].conf)
    BY <1>a, <2>2, <2>3, <2>5
  <2>6. ed'[e] = "rename"
    BY <1>0, <2>1 DEF StepTypes
  <2>7. Prepared(e)'
    BY <2>1, <2>5, <2>6 DEF Prepared
  <2> QED BY <1>0, <1>a, <1>b, <2>1, <2>4, <2>7, ThreadStep
<1>8. ASSUME NEW e \in Editors, Rename(e) PROVE TargetsInv'
  <2>1. /\ e \in Busy /\ ed' = [ed EXCEPT ![e] = "trigger"] /\ ed[e] = "rename"
        /\ disk'.conf = held[e] /\ backups' = backups
    BY <1>8 DEF Rename, Busy
  <2>2. TargetsIn(held[e])
    BY <1>a, <2>1 DEF Prepared
  <2>3. Prepared(e)'
    BY <1>0, <2>1 DEF Prepared, StepTypes
  <2> QED BY <1>0, <1>a, <1>b, <2>1, <2>2, <2>3, ThreadStep
<1>9. ASSUME NEW e \in Editors,
             \/ TriggerOnly(e) \/ Refuse(e) \/ WriteFail(e) \/ SendReload(e)
             \/ ReloadOk(e) \/ TriggerFail(e) \/ SendSighup(e)
      PROVE  TargetsInv'
  <2>1. /\ UNCHANGED <<disk, backups, op, arg, held, before>>
        /\ \E l \in {"trigger", "await", "done"} : ed' = [ed EXCEPT ![e] = l]
    BY <1>9 DEF TriggerOnly, Refuse, WriteFail, SendReload, ReloadOk, TriggerFail,
       SendSighup, Finish, diskVars
  <2>2. /\ ed'[e] \notin {"read", "write", "backup", "rename"}
        /\ \A f \in Editors : f # e => ed'[f] = ed[f]
    BY <1>0, <2>1 DEF StepTypes
  <2>3. OneBusy'
    BY <1>a, <2>2 DEF OneBusy, Busy
  <2>4. \A f \in Editors : Prepared(f)'
    BY <1>a, <2>1, <2>2 DEF Prepared
  <2> QED BY <1>a, <2>1, <2>3, <2>4 DEF TargetsInv
<1>10. CASE UNCHANGED <<diskVars, editVars>>
  BY <1>a, <1>10 DEF diskVars, editVars, TargetsInv, OneBusy, Busy, Prepared
<1>11. TakeSignal \/ (\E r \in Slots : Reload(r)) \/ Restart \/ UNCHANGED vars
         => UNCHANGED <<diskVars, editVars>>
  BY DEF TakeSignal, Reload, ReadConfig, Swap, BuildFail, AuditReload, Restart, vars
<1> QED
  BY <1>2, <1>3, <1>4, <1>5, <1>6, <1>7, <1>8, <1>9, <1>10, <1>11, <1>12 DEF Next, Editor

\* The references the console looks up are enough for the default and the
\* primaries: from a file and backups that have them in [backends.*] (the label
\* that Config::pool synthesises for a legacy [backend] goes when the first of
\* [backends.*] comes), no sequence of creates, updates, deletes, routing
\* changes, reverts and sound raw edits leaves one without its backend, as
\* long as no two edits overlap.
THEOREM RoutingTargetsKept ==
  ASSUME TargetsIn(Conf0), \A i \in 1..Len(Backups0) : TargetsIn(Backups0[i].conf)
  PROVE  Spec => []RoutingTargetsExist
<1>1. Init => TargetsInv
  <2> SUFFICES ASSUME Init PROVE TargetsInv
    OBVIOUS
  <2>1. \A e \in Editors : ed[e] = "idle"
    BY DEF Init
  <2>2. disk.conf = Conf0 /\ backups = Backups0
    BY DEF Init
  <2> QED BY <2>1, <2>2 DEF TargetsInv, OneBusy, Busy, Prepared
<1>2. TypeOK /\ TargetsInv /\ [Next]_vars => TargetsInv'
  BY TargetsStep
<1>3. TargetsInv => RoutingTargetsExist
  BY DEF TargetsInv, RoutingTargetsExist
<1> QED BY <1>1, <1>2, <1>3, TypeCorrect, PTL DEF Spec

-----------------------------------------------------------------------------
(* Backups                                                                 *)

\* Edits about to add a copy of a content that is no longer on disk.
Stale == {h \in Editors : ed[h] = "backup" /\ before[h] # disk}

\* The copy of the present content, counted from the newest backup, is within
\* the threads even after every stale copy has been added.
Shielded ==
  \E i \in 1..Len(backups) :
    backups[i] = disk /\ Len(backups) - i + Cardinality(Stale) < Threads

BackupInv ==
  /\ Cardinality(Busy) <= Threads
  /\ \A e \in Editors : before[e].ver <= disk.ver
  /\ Threads <= BackupLimit =>
       \A e \in Editors :
         ed[e] = "rename" /\ op[e] # "revert" /\ before[e] = disk => Shielded

\* Finite sets of editors are counted by numbers, and a part by a smaller one.
LEMMA Counting ==
  /\ IsFiniteSet(Busy) /\ Cardinality(Busy) \in Nat
  /\ IsFiniteSet(Stale) /\ Cardinality(Stale) \in Nat
  /\ \A S \in SUBSET Busy : IsFiniteSet(S) /\ Cardinality(S) \in Nat
                            /\ Cardinality(S) <= Cardinality(Busy)
  /\ \A S \in SUBSET Stale : IsFiniteSet(S) /\ Cardinality(S) \in Nat
                             /\ Cardinality(S) <= Cardinality(Stale)
<1>1. IsFiniteSet(Editors) /\ Busy \subseteq Editors /\ Stale \subseteq Editors
  BY ConstantsAssumption DEF Busy, Stale
<1>2. IsFiniteSet(Busy) /\ IsFiniteSet(Stale)
  BY <1>1, FS_Subset
<1> QED BY <1>2, FS_Subset, FS_CardinalityType

\* A step that brings no thread, no copy and no write.
LEMMA IdleStep ==
  ASSUME TypeOK, BackupInv, UNCHANGED <<disk, backups>>,
         Busy' \subseteq Busy, Stale' \subseteq Stale,
         \A e \in Editors : before'[e].ver <= disk.ver,
         \A e \in Editors :
           ed'[e] = "rename" /\ op'[e] # "revert" /\ before'[e] = disk =>
             ed[e] = "rename" /\ op[e] # "revert" /\ before[e] = disk
  PROVE  BackupInv'
<1>1. Threads \in Nat /\ BackupLimit \in Nat /\ Len(backups) \in Nat
  BY ConstantsAssumption DEF TypeOK, FileTypes
<1>2. Cardinality(Busy') <= Threads
  BY <1>1, Counting DEF BackupInv
<1>3. Cardinality(Stale') \in Nat /\ Cardinality(Stale') <= Cardinality(Stale)
      /\ Cardinality(Stale) \in Nat
  BY Counting
<1>4. Shielded => Shielded'
  BY <1>1, <1>3 DEF Shielded
<1> QED BY <1>2, <1>4 DEF BackupInv

\* A step in which editor e takes a thread.
LEMMA EnterStep ==
  ASSUME TypeOK, BackupInv, NEW e \in Editors, ed[e] = "idle", FreeThread,
         UNCHANGED <<disk, backups, before>>, NEW l \in {"read", "write", "rename"},
         ed' = [ed EXCEPT ![e] = l], NEW w, op' = [op EXCEPT ![e] = w],
         l = "rename" => w = "revert"
  PROVE  BackupInv'
<1>0. StepTypes /\ ArgTypes
  BY DEF TypeOK
<1>1. Threads \in Nat /\ BackupLimit \in Nat /\ Len(backups) \in Nat
  BY ConstantsAssumption DEF TypeOK, FileTypes
<1>2. Busy' \subseteq Busy \cup {e} /\ e \notin Busy
  BY <1>0 DEF Busy, StepTypes
<1>3. IsFiniteSet(Busy \cup {e}) /\ Cardinality(Busy \cup {e}) = Cardinality(Busy) + 1
  BY <1>2, Counting, FS_AddElement
<1>4. Cardinality(Busy') <= Cardinality(Busy) + 1 /\ Cardinality(Busy') \in Nat
  BY <1>2, <1>3, FS_Subset, FS_CardinalityType
<1>5. Cardinality(Busy)' <= Threads
  BY <1>1, <1>4, Counting DEF FreeThread
<1>6. Stale' = Stale
  BY <1>0 DEF Stale, StepTypes
<1>7. Shielded => Shielded'
  BY <1>6 DEF Shielded
<1>8. \A f \in Editors :
        ed'[f] = "rename" /\ op'[f] # "revert" => ed[f] = "rename" /\ op[f] # "revert"
  BY <1>0 DEF StepTypes, ArgTypes
<1> QED BY <1>5, <1>7, <1>8 DEF BackupInv

\* Adding a copy keeps the shield: a fresh copy is a new one, a stale one
\* moves the old shield by one place and is one fewer to come.
LEMMA CopyStep ==
  ASSUME TypeOK, BackupInv, NEW f \in Editors, Backup(f)
  PROVE  BackupInv'
<1>0. /\ StepTypes /\ ArgTypes /\ backups \in Seq(Version) /\ before[f] \in Version
      /\ ed[f] = "backup"
  BY DEF TypeOK, FileTypes, Backup
<1>1. Threads \in Nat /\ BackupLimit \in Nat \ {0} /\ Len(backups) \in Nat
  BY <1>0, ConstantsAssumption
<1>2. /\ UNCHANGED <<disk, op, before>> /\ ed' = [ed EXCEPT ![f] = "rename"]
      /\ backups' = Prune(Append(backups, before[f]))
  BY DEF Backup
<1>3. Busy' = Busy /\ f \in Busy /\ Stale' = Stale \ {f}
  BY <1>0, <1>2 DEF Busy, Stale, StepTypes
<1> DEFINE s == Append(backups, before[f])
<1>4. /\ s \in Seq(Version) /\ Len(s) = Len(backups) + 1 /\ s[Len(s)] = before[f]
      /\ \A i \in 1..Len(backups) : s[i] = backups[i]
  BY <1>0
<1>5. backups' = Prune(s)
  BY <1>2
<1> HIDE DEF s
<1>6. CASE before[f] = disk
  <2>1. Len(s) \in 1..Len(s) /\ Len(s) - Len(s) < BackupLimit
    BY <1>1, <1>4
  <2>2. PICK k \in 1..Len(Prune(s)) :
          Prune(s)[k] = s[Len(s)] /\ Len(Prune(s)) - k = Len(s) - Len(s)
    BY <1>4, <2>1, PruneTail
  <2>3. Cardinality(Busy \ {f}) = Cardinality(Busy) - 1 /\ Cardinality(Busy) \in Nat
    BY <1>3, Counting, FS_RemoveElement
  <2>4. Stale' \subseteq Busy \ {f} /\ IsFiniteSet(Busy \ {f})
    BY <1>3, Counting, FS_Subset DEF Stale, Busy
  <2>5. Cardinality(Stale') <= Cardinality(Busy) - 1 /\ Cardinality(Stale') \in Nat
    BY <2>3, <2>4, FS_Subset, FS_CardinalityType
  <2>6. Cardinality(Stale') < Threads
    BY <1>1, <2>3, <2>5 DEF BackupInv
  <2>7. k \in 1..Len(backups') /\ backups'[k] = disk' /\ Len(backups') - k = 0
    BY <1>1, <1>2, <1>4, <1>5, <1>6, <2>2
  <2>8. Len(backups') - k + Cardinality(Stale') < Threads
    BY <2>5, <2>6, <2>7
  <2>9. Shielded'
    BY <2>7, <2>8 DEF Shielded
  <2> QED BY <1>2, <1>3, <2>9 DEF BackupInv
<1>7. CASE before[f] # disk
  <2>1. Cardinality(Stale') = Cardinality(Stale) - 1 /\ Cardinality(Stale) \in Nat
    <3>1. f \in Stale
      BY <1>0, <1>7 DEF Stale
    <3> QED BY <1>3, <3>1, Counting, FS_RemoveElement
  <2>2. ASSUME Threads <= BackupLimit, Shielded PROVE Shielded'
    <3>1. PICK i \in 1..Len(backups) :
            backups[i] = disk /\ Len(backups) - i + Cardinality(Stale) < Threads
      BY <2>2 DEF Shielded
    <3>2. i \in 1..Len(s) /\ Len(s) - i < BackupLimit /\ s[i] = disk
      <4>1. Cardinality(Stale) >= 1
        <5>1. Cardinality(Stale') \in Nat
          BY <1>3, Counting
        <5> QED BY <2>1, <5>1
      <4>2. Len(s) - i < Threads
        BY <1>1, <1>4, <2>1, <3>1, <4>1
      <4>3. i \in 1..Len(s) /\ s[i] = disk
        BY <1>1, <1>4, <3>1
      <4>4. Len(s) - i \in Int
        BY <1>1, <1>4
      <4> QED BY <1>1, <2>2, <4>2, <4>3, <4>4
    <3>3. PICK k \in 1..Len(Prune(s)) :
            Prune(s)[k] = s[i] /\ Len(Prune(s)) - k = Len(s) - i
      BY <1>4, <3>2, PruneTail
    <3>4. Len(backups') - k + Cardinality(Stale') < Threads
      <4>1. Len(backups') - k = Len(backups) + 1 - i
        BY <1>4, <1>5, <3>3
      <4> HIDE DEF Shielded
      <4>2. Len(backups) + 1 - i + (Cardinality(Stale) - 1) < Threads
        BY <1>1, <2>1, <3>1
      <4> QED BY <2>1, <4>1, <4>2
    <3>5. k \in 1..Len(backups') /\ backups'[k] = disk'
      BY <1>2, <1>5, <3>2, <3>3
    <3> QED BY <3>4, <3>5 DEF Shielded
  <2>3. \A e \in Editors :
          ed'[e] = "rename" /\ op'[e] # "revert" /\ before'[e] = disk' =>
            ed[e] = "rename" /\ op[e] # "revert" /\ before[e] = disk
    BY <1>0, <1>2, <1>7 DEF StepTypes
  <2> QED BY <1>2, <1>3, <2>2, <2>3 DEF BackupInv
<1> QED BY <1>6, <1>7

LEMMA BackupStep ==
  ASSUME TypeOK, BackupInv, [Next]_vars
  PROVE  BackupInv'
<1>0. FileTypes /\ StepTypes /\ ArgTypes
  BY DEF TypeOK
<1>v. disk.ver \in Nat /\ \A e \in Editors : before[e].ver \in Nat /\ before[e].ver <= disk.ver
  BY <1>0 DEF FileTypes, Version, BackupInv
<1>1. ASSUME NEW e \in Editors, NEW what, NEW a, Begin(e, what, a) PROVE BackupInv'
  BY <1>1, EnterStep DEF Begin, diskVars
<1>2. ASSUME NEW e \in Editors, NEW l \in Labels,
             CreateBackend(e, l) \/ UpdateBackend(e, l) \/ DeleteBackend(e, l)
      PROVE  BackupInv'
  BY <1>1, <1>2 DEF CreateBackend, UpdateBackend, DeleteBackend
<1>3. ASSUME NEW e \in Editors, NEW t \in Tables, UpdateRouting(e, t) PROVE BackupInv'
  BY <1>1, <1>3 DEF UpdateRouting
<1>4. ASSUME NEW e \in Editors, NEW c \in RawConfs, EditFile(e, c) PROVE BackupInv'
  BY <1>4, EnterStep DEF EditFile, diskVars
<1>5. ASSUME NEW e \in Editors, NEW i \in 1..Len(backups), RevertFile(e, i) PROVE BackupInv'
  BY <1>5, EnterStep DEF RevertFile, diskVars
<1>6. ASSUME NEW e \in Editors,
             \/ TriggerOnly(e) \/ Refuse(e) \/ WriteFail(e) \/ SendReload(e)
             \/ ReloadOk(e) \/ TriggerFail(e) \/ SendSighup(e) \/ ReadToml(e)
      PROVE  BackupInv'
  <2>1. /\ UNCHANGED <<disk, backups, op, before>>
        /\ \E l \in {"trigger", "await", "done", "write"} :
             ed' = [ed EXCEPT ![e] = l] /\ (l = "write" => ed[e] = "read")
    BY <1>6 DEF TriggerOnly, Refuse, WriteFail, SendReload, ReloadOk, TriggerFail,
       SendSighup, ReadToml, Finish, diskVars
  <2>2. Busy' \subseteq Busy /\ Stale' \subseteq Stale
        /\ \A f \in Editors : ed'[f] = "rename" => ed[f] = "rename"
    BY <1>0, <2>1 DEF StepTypes, Busy, Stale
  <2> QED BY <1>v, <2>1, <2>2, IdleStep
<1>7. ASSUME NEW e \in Editors, ReadBefore(e) PROVE BackupInv'
  <2>1. /\ UNCHANGED <<disk, backups, op>> /\ ed[e] = "write"
        /\ ed' = [ed EXCEPT ![e] = "backup"] /\ before' = [before EXCEPT ![e] = disk]
    BY <1>7 DEF ReadBefore, diskVars
  <2>2. Busy' \subseteq Busy
    BY <1>0, <2>1 DEF StepTypes, Busy
  <2>3. \A f \in Editors : before'[f] = IF f = e THEN disk ELSE before[f]
    BY <1>0, <2>1 DEF FileTypes
  <2>4. \A f \in Editors : ed'[f] = IF f = e THEN "backup" ELSE ed[f]
    BY <1>0, <2>1 DEF StepTypes
  <2>5. Stale' \subseteq Stale
    BY <2>1, <2>3, <2>4 DEF Stale
  <2>6. \A f \in Editors : before'[f].ver <= disk.ver
    BY <1>v, <2>3
  <2> QED BY <2>1, <2>2, <2>3, <2>4, <2>5, <2>6, IdleStep
<1>8. ASSUME NEW e \in Editors, Backup(e) PROVE BackupInv'
  BY <1>8, CopyStep
<1>9. ASSUME NEW e \in Editors, Rename(e) PROVE BackupInv'
  <2>1. /\ disk'.ver = disk.ver + 1 /\ before' = before
        /\ ed' = [ed EXCEPT ![e] = "trigger"]
    BY <1>9 DEF Rename
  <2>2. Busy' \subseteq Busy
    BY <1>0, <2>1 DEF StepTypes, Busy
  <2>3. Threads \in Nat
    BY ConstantsAssumption
  <2>4. Cardinality(Busy') <= Threads
    BY <2>2, <2>3, Counting DEF BackupInv
  <2>5. \A f \in Editors : before'[f].ver <= disk'.ver /\ before'[f].ver # disk'.ver
    BY <1>v, <2>1
  <2> QED BY <2>4, <2>5 DEF BackupInv
<1>10. CASE UNCHANGED <<diskVars, editVars>>
  <2>1. Busy' \subseteq Busy /\ Stale' \subseteq Stale
    BY <1>10 DEF diskVars, editVars, Busy, Stale
  <2> QED BY <1>v, <1>10, <2>1, IdleStep DEF diskVars, editVars
<1>11. TakeSignal \/ (\E r \in Slots : Reload(r)) \/ Restart \/ UNCHANGED vars
         => UNCHANGED <<diskVars, editVars>>
  BY DEF TakeSignal, Reload, ReadConfig, Swap, BuildFail, AuditReload, Restart, vars
<1> QED
  BY <1>2, <1>3, <1>4, <1>5, <1>6, <1>7, <1>8, <1>9, <1>10, <1>11 DEF Next, Editor

\* On any number of threads that is no more than the backups kept: an edit
\* that replaces the content it found leaves a backup of it, whatever other
\* edits copy and prune meanwhile.
THEOREM ReplacedIsBackedUp == Spec => EditKeepsBackup
<1>1. Init => BackupInv
  <2> SUFFICES ASSUME Init PROVE BackupInv
    OBVIOUS
  <2>1. Busy = {} /\ Threads \in Nat
    BY ConstantsAssumption DEF Init, Busy
  <2>2. Cardinality(Busy) <= Threads
    BY <2>1, FS_EmptySet
  <2>3. \A e \in Editors : before[e].ver <= disk.ver /\ ed[e] = "idle"
    BY DEF Init
  <2> QED BY <2>2, <2>3 DEF BackupInv
<1>2. TypeOK /\ BackupInv /\ [Next]_vars => BackupInv'
  BY BackupStep
<1>3. TypeOK /\ BackupInv /\ [Next]_vars =>
        [Threads <= BackupLimit =>
           \A e \in Editors : Replaces(e) /\ disk = before[e] => HasBackup(disk)]_vars
  BY DEF BackupInv, Shielded, Replaces, HasBackup
<1> QED BY <1>1, <1>2, <1>3, TypeCorrect, PTL DEF Spec, EditKeepsBackup

=============================================================================
