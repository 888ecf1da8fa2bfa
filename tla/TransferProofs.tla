-------------------------- MODULE TransferProofs --------------------------
(***************************************************************************)
(* What easycwmpd promises about file transfers, proved for any number of  *)
(* command keys, ACS URLs, slots, restarts and power cuts.                 *)
(***************************************************************************)
EXTENDS EasyCwmpProofs

----------------------------------------------------------------------------
(***************************************************************************)
(* Transfers.  The four properties below are not inductive on their own:   *)
(* that a transfer is not executed twice depends on the list agreeing with *)
(* the file and on command keys being fresh, that it is not lost or        *)
(* reported twice depends on what the thread is in the middle of.          *)
(***************************************************************************)

WorkPoint == LaunchPoint \cup TcPoint

\* Points at which the outcome of the current transfer may not be on file yet.
UnsettledPoint == {"x_event", "x_m_event", "x_fault"}

\* What is in the list is in the file, and every key on record was used.
ListInv ==
  /\ \A t \in transfers : t.key \in TransferKeys
  /\ TransferKeys \cup TcKeys \cup AckedKeys \cup accepted \subseteq used
  /\ pc = "x_tc" => cur.key \in used

\* The transfer that the thread is working on, and where it is recorded.
LaunchInv ==
  /\ pc \in LaunchPoint => cur.key \notin AckedKeys
  /\ pc = "x_remove" => cur.key \in TransferKeys
  /\ pc = "x_tc" => cur.key \notin TransferKeys \cup TcKeys
  /\ pc \in TcPoint \ {"tc_remove"} => backup.tcs[Len(backup.tcs)].key = cur.key
  /\ pc = "tc_remove" => backup.tcs[1].key = cur.key /\ cur.key \in AckedKeys

\* An answered TransferComplete is still on file only in between the two.
AckInv ==
  \A k \in TcKeys \cap AckedKeys :
    \/ pc = "tc_remove" /\ k = cur.key
    \/ <<"tc_remove", k>> \in cut

\* A cut hit the transfer of key k before its fault was written.
CutUnsettled(k) ==
  \E p \in {"x_event", "x_m_event", "x_apply", "x_fault"} : <<p, k>> \in cut

\* A TransferComplete without fault belongs to a transfer that did not fail.
OutcomeInv ==
  /\ pc \in {"x_remove", "x_tc", "x_event", "x_m_event"} =>
       (cur.fault <=> cur.key \in failed)
  /\ pc = "x_apply" => cur.key \notin failed
  /\ \A i \in 1..Len(backup.tcs) :
       ~backup.tcs[i].fault /\ backup.tcs[i].key \in failed =>
         \/ CutUnsettled(backup.tcs[i].key)
         \/ pc \in UnsettledPoint /\ backup.tcs[i].key = cur.key

\* The inductive invariant.
TransferInv ==
  /\ ListInv /\ LaunchInv /\ AckInv /\ OutcomeInv
  /\ TransferNeverLost /\ TransferOnce /\ TruthfulReport

\* Files b and c hold the same transfers, the same keys and the same faults.
SameReports(b, c) ==
  /\ c.transfers = b.transfers
  /\ Len(c.tcs) = Len(b.tcs)
  /\ \A i \in 1..Len(b.tcs) : /\ c.tcs[i].key = b.tcs[i].key
                              /\ c.tcs[i].fault = b.tcs[i].fault

\* Equal records have equal keys.
LEMMA SameKeys ==
  ASSUME NEW b, NEW c, SameReports(b, c)
  PROVE  TransferKeysOf(c) = TransferKeysOf(b) /\ TcKeysOf(c) = TcKeysOf(b)
BY DEF SameReports, TransferKeysOf, TcKeysOf

\* A change of the events alone keeps the transfer records.
LEMMA SameTransfersReports == SameTransfers => SameReports(backup, backup')
BY DEF SameTransfers, SameReports

\* A step that leaves the records of all transfers alone and neither starts
\* nor leaves a piece of work that they do not show yet.
QuietStep ==
  /\ SameReports(backup, backup')
  /\ \A t \in transfers' : t.key \in TransferKeys
  /\ used \subseteq used'
  /\ UNCHANGED <<accepted, acked, dropped, failed, cut>>
  /\ pc \notin UnsettledPoint \cup {"x_tc", "tc_remove"}
  /\ pc' \notin WorkPoint

\* Quiet steps preserve the transfer invariant.
LEMMA QuietPreserves == TransferInv /\ QuietStep => TransferInv'
<1> SUFFICES ASSUME TransferInv, QuietStep PROVE TransferInv'
  OBVIOUS
<1>1. TransferKeys' = TransferKeys /\ TcKeys' = TcKeys /\ AckedKeys' = AckedKeys
  BY SameKeys DEF QuietStep, TransferKeys, TcKeys, AckedKeys
<1>2. ListInv'
  BY <1>1 DEF TransferInv, ListInv, QuietStep, WorkPoint, LaunchPoint
<1>3. LaunchInv'
  BY DEF LaunchInv, QuietStep, WorkPoint, LaunchPoint, TcPoint
<1>4. AckInv'
  BY <1>1 DEF TransferInv, AckInv, QuietStep
<1>5. OutcomeInv'
  <2>1. /\ pc' \notin {"x_remove", "x_tc", "x_event", "x_m_event", "x_apply"}
    BY DEF QuietStep, WorkPoint, LaunchPoint, TcPoint
  <2>2. \A k : CutUnsettled(k)' <=> CutUnsettled(k)
    BY DEF CutUnsettled, QuietStep
  <2> QED BY <2>1, <2>2
          DEF TransferInv, OutcomeInv, QuietStep, SameReports
<1>6. TransferNeverLost'
  BY <1>1 DEF TransferInv, TransferNeverLost, QuietStep
<1>7. TransferOnce'
  BY <1>1 DEF TransferInv, TransferOnce, QuietStep, SameReports
<1>8. TruthfulReport'
  BY DEF TransferInv, TruthfulReport, QuietStep
<1> QED BY <1>2, <1>3, <1>4, <1>5, <1>6, <1>7, <1>8 DEF TransferInv

\* A step that discards the backup and everything that is being worked on.
DiscardStep ==
  /\ backup'.transfers = {} /\ backup'.tcs = <<>> /\ transfers' = {}
  /\ dropped \cup TransferKeys \cup TcKeys \subseteq dropped'
  /\ pc = "x_tc" => cur.key \in dropped'
  /\ UNCHANGED <<used, accepted, acked, failed, cut>>
  /\ pc' \notin WorkPoint

\* Discarding everything preserves the transfer invariant.
LEMMA DiscardPreserves == TransferInv /\ DiscardStep => TransferInv'
<1> SUFFICES ASSUME TransferInv, DiscardStep PROVE TransferInv'
  OBVIOUS
<1>1. TransferKeys' = {} /\ TcKeys' = {} /\ AckedKeys' = AckedKeys
  <2>1. Len(backup'.tcs) = 0
    BY EmptySeq DEF DiscardStep
  <2> QED BY <2>1
             DEF DiscardStep, TransferKeys, TcKeys, TransferKeysOf, TcKeysOf,
                 AckedKeys
<1>2. Len(backup'.tcs) = 0
  BY EmptySeq DEF DiscardStep
<1>3. ListInv' /\ LaunchInv' /\ AckInv'
  BY <1>1
     DEF TransferInv, ListInv, LaunchInv, AckInv, DiscardStep, WorkPoint,
         LaunchPoint, TcPoint
<1>4. OutcomeInv'
  BY <1>2 DEF OutcomeInv, DiscardStep, WorkPoint, LaunchPoint
<1>5. TransferNeverLost'
  BY <1>1 DEF TransferInv, TransferNeverLost, DiscardStep
<1>6. TransferOnce'
  BY <1>1, <1>2 DEF TransferOnce
<1>7. TruthfulReport'
  BY DEF TransferInv, TruthfulReport, DiscardStep
<1> QED BY <1>3, <1>4, <1>5, <1>6, <1>7 DEF TransferInv

\* A factory-new device satisfies the transfer invariant.
LEMMA TransferInit == Init => TransferInv
<1> SUFFICES ASSUME Init PROVE TransferInv
  OBVIOUS
<1>1. backup.transfers = {} /\ backup.tcs = <<>> /\ Len(backup.tcs) = 0
  BY NoBackupType, EmptySeq DEF Init
<1>2. TransferKeys = {} /\ TcKeys = {} /\ AckedKeys = {}
  BY <1>1 DEF Init, TransferKeys, TcKeys, TransferKeysOf, TcKeysOf, AckedKeys
<1> QED BY <1>1, <1>2
        DEF Init, TransferInv, ListInv, LaunchInv, AckInv, OutcomeInv,
            LaunchPoint, TcPoint, TransferNeverLost, TransferOnce,
            TruthfulReport

\* main, backup_init and config_load preserve the transfer invariant.
LEMMA TransferStartup == TypeInv /\ TransferInv /\ Startup => TransferInv'
<1> SUFFICES ASSUME TypeInv, TransferInv, Startup PROVE TransferInv'
  OBVIOUS
<1> USE DEF session, locals, queues, observed
<1>0. /\ {"BOOTSTRAP", "BOOT", "PERIODIC"} \subseteq Code
      /\ NoKey \in KeyOrNone /\ backup \in Backup /\ events \in Seq(Event)
      /\ \A t \in transfers : t.key \in TransferKeys
  BY DEF Code, SingleCode, KeyOrNone, TypeInv, TypeOK, TransferInv, ListInv
<1>1. CASE BackupInit
  <2>1. \A t \in transfers' : t.key \in TransferKeys
    BY <1>1 DEF BackupInit, TransferKeys, TransferKeysOf
  <2>2. SameReports(backup, backup')
    BY <1>1 DEF BackupInit, SameReports
  <2> QED BY <1>1, <2>1, <2>2, QuietPreserves
          DEF QuietStep, BackupInit, UnsettledPoint, WorkPoint, LaunchPoint,
              TcPoint
<1>2. CASE LoadEvent
  BY <1>0, <1>2, QuietPreserves
     DEF QuietStep, SameReports, LoadEvent, UnsettledPoint, WorkPoint,
         LaunchPoint, TcPoint
<1>3. CASE BackupInitDone
  <2>1. SameReports(backup, backup')
    BY <1>0, <1>3, CompleteAllType DEF BackupInitDone, SameReports
  <2> QED BY <1>0, <1>3, <2>1, QuietPreserves
          DEF QuietStep, BackupInitDone, UnsettledPoint, WorkPoint,
              LaunchPoint, TcPoint
<1>4. CASE ConfigLoadSame
  BY <1>0, <1>4, QuietPreserves
     DEF QuietStep, SameReports, ConfigLoadSame, Return, UnsettledPoint,
         WorkPoint, LaunchPoint, TcPoint
<1>5. CASE BackupAddAcsUrl
  <2>1. backup'.transfers = {} /\ backup'.tcs = <<>>
    BY <1>5, NoBackupType DEF BackupAddAcsUrl, backup_add_acsurl, Backup
  <2> QED BY <1>5, <2>1, DiscardPreserves
          DEF DiscardStep, BackupAddAcsUrl, WorkPoint, LaunchPoint, TcPoint
<1>6. CASE AddBootstrap
  <2>1. SameReports(backup, backup')
    BY <1>0, <1>6, AddEventType, SameTransfersReports DEF AddBootstrap
  <2> QED BY <1>0, <1>6, <2>1, QuietPreserves
          DEF QuietStep, AddBootstrap, Return, UnsettledPoint, WorkPoint,
              LaunchPoint, TcPoint
<1>7. CASE StartBoot
  <2>1. SameReports(backup, backup')
    BY <1>0, <1>7, AddEventType, SameTransfersReports DEF StartBoot
  <2> QED BY <1>0, <1>7, <2>1, QuietPreserves
          DEF QuietStep, StartBoot, UnsettledPoint, WorkPoint, LaunchPoint,
              TcPoint
<1>8. CASE StartGetRpcMethod
  <2>1. SameReports(backup, backup')
    BY <1>0, <1>8, AddEventType, SameTransfersReports DEF StartGetRpcMethod
  <2> QED BY <1>0, <1>8, <2>1, QuietPreserves
          DEF QuietStep, StartGetRpcMethod, UnsettledPoint, WorkPoint,
              LaunchPoint, TcPoint
<1> QED BY <1>1, <1>2, <1>3, <1>4, <1>5, <1>6, <1>7, <1>8 DEF Startup

\* The uloop callbacks preserve the transfer invariant.
LEMMA TransferCallbacks == TypeInv /\ TransferInv /\ Callbacks => TransferInv'
<1> SUFFICES ASSUME TypeInv, TransferInv, Callbacks PROVE TransferInv'
  OBVIOUS
<1> USE DEF session, locals, queues, observed
<1>0. /\ UbusCode \cup {"VALUE_CHANGE", "PERIODIC", "SCHEDULED",
                        "M_SCHEDULEINFORM"} \subseteq Code
      /\ NoKey \in KeyOrNone /\ backup \in Backup /\ events \in Seq(Event)
      /\ cur.key \in KeyOrNone
      /\ \A t \in transfers : t.key \in TransferKeys
  BY
     DEF UbusCode, Code, SingleCode, MultipleCode, KeyOrNone, TypeInv, TypeOK,
         TransferInv, ListInv
<1>1. ASSUME NEW t \in timers, cwmp_do_inform(t)
      PROVE  TransferInv'
  BY <1>0, <1>1, QuietPreserves
     DEF QuietStep, SameReports, cwmp_do_inform, UnsettledPoint, WorkPoint,
         LaunchPoint, TcPoint
<1>2. ASSUME NEW t \in transfers, LaunchFails(t)
      PROVE  TransferInv'
  <2>1. t \in [key : Keys, kind : Kind, armed : BOOLEAN]
    BY DEF TypeInv, TypeOK
  <2>2. [t EXCEPT !.armed = FALSE].key = t.key
    BY <2>1
  <2>3. \A u \in transfers' : u.key \in TransferKeys
    BY <1>0, <1>2, <2>2 DEF LaunchFails
  <2> QED BY <1>2, <2>3, QuietPreserves
          DEF QuietStep, SameReports, LaunchFails, UnsettledPoint, WorkPoint,
              LaunchPoint, TcPoint
<1>3. ASSUME NEW t \in transfers, NEW fault \in BOOLEAN, Launch(t, fault)
      PROVE  TransferInv'
  <2>1. /\ t.key \in TransferKeys /\ pc = "idle" /\ pc' = "x_remove"
        /\ cur'.key = t.key /\ cur'.fault = fault
        /\ failed' = IF fault THEN failed \cup {t.key} ELSE failed \ {t.key}
        /\ UNCHANGED <<backup, transfers, used, accepted, acked, dropped, cut>>
    BY <1>0, <1>3 DEF Launch
  <2>2. UNCHANGED <<TransferKeys, TcKeys, AckedKeys>>
    BY <2>1 DEF TransferKeys, TcKeys, AckedKeys
  <2>3. t.key \notin TcKeys \cup AckedKeys
    BY <2>1 DEF TransferInv, TransferOnce
  <2>4. ListInv' /\ LaunchInv' /\ AckInv'
    BY <2>1, <2>2, <2>3
       DEF TransferInv, ListInv, LaunchInv, AckInv, LaunchPoint, TcPoint
  <2>5. OutcomeInv'
    <3>1. cur'.fault <=> cur'.key \in failed'
      BY <2>1
    <3>2. ASSUME NEW i \in 1..Len(backup.tcs),
                 ~backup.tcs[i].fault, backup.tcs[i].key \in failed'
          PROVE  CutUnsettled(backup.tcs[i].key)'
      <4>1. backup.tcs[i].key \in TcKeys
        BY DEF TcKeys, TcKeysOf
      <4>2. backup.tcs[i].key \in failed
        BY <2>1, <2>3, <3>2, <4>1
      <4> QED BY <2>1, <3>2, <4>2
              DEF TransferInv, OutcomeInv, CutUnsettled, UnsettledPoint
    <3> QED BY <2>1, <3>1, <3>2 DEF OutcomeInv
  <2>6. TransferNeverLost' /\ TransferOnce'
    BY <2>1, <2>2 DEF TransferInv, TransferNeverLost, TransferOnce
  <2>7. TruthfulReport'
    <3>1. ASSUME NEW a \in acked
          PROVE  a[1] \in failed' => a[1] \in failed
      BY <2>1, <2>3 DEF AckedKeys
    <3> QED BY <2>1, <3>1 DEF TransferInv, TruthfulReport
  <2> QED BY <2>4, <2>5, <2>6, <2>7 DEF TransferInv
<1>4. ASSUME NEW k \in scheduled, ScheduledInform(k)
      PROVE  TransferInv'
  <2>1. SameReports(backup, backup')
    BY <1>0, <1>4, AddEventType, SameTransfersReports DEF ScheduledInform
  <2> QED BY <1>0, <1>4, <2>1, QuietPreserves
          DEF QuietStep, ScheduledInform, UnsettledPoint, WorkPoint,
              LaunchPoint, TcPoint
<1>5. CASE ScheduledInformDone
  <2>1. SameReports(backup, backup')
    BY <1>0, <1>5, AddEventType, SameTransfersReports DEF ScheduledInformDone
  <2> QED BY <1>0, <1>5, <2>1, QuietPreserves
          DEF QuietStep, ScheduledInformDone, UnsettledPoint, WorkPoint,
              LaunchPoint, TcPoint
<1>6. ASSUME NEW code \in InformCodes, cwmp_connection_request(code)
      PROVE  TransferInv'
  <2>1. SameReports(backup, backup')
    BY <1>0, <1>6, AddEventType, SameTransfersReports, StimuliAssumption
       DEF cwmp_connection_request
  <2> QED BY <1>0, <1>6, <2>1, QuietPreserves
          DEF QuietStep, cwmp_connection_request, UnsettledPoint, WorkPoint,
              LaunchPoint, TcPoint
<1>7. ASSUME NEW active \in BOOLEAN, Notify(active)
      PROVE  TransferInv'
  <2>1. SameReports(backup, backup')
    BY <1>0, <1>7, AddEventType, SameTransfersReports DEF Notify
  <2> QED BY <1>0, <1>7, <2>1, QuietPreserves
          DEF QuietStep, Notify, UnsettledPoint, WorkPoint, LaunchPoint,
              TcPoint
<1>8. CASE cwmp_periodic_inform
  <2>1. SameReports(backup, backup')
    BY <1>0, <1>8, AddEventType, SameTransfersReports DEF cwmp_periodic_inform
  <2> QED BY <1>0, <1>8, <2>1, QuietPreserves
          DEF QuietStep, cwmp_periodic_inform, UnsettledPoint, WorkPoint,
              LaunchPoint, TcPoint
<1>9. ASSUME NEW url \in Urls, Reload(url)
      PROVE  TransferInv'
  BY <1>0, <1>9, QuietPreserves
     DEF QuietStep, SameReports, Reload, UnsettledPoint, WorkPoint,
         LaunchPoint, TcPoint
<1> QED BY <1>1, <1>2, <1>3, <1>4, <1>5, <1>6, <1>7, <1>8, <1>9 DEF Callbacks

\* cwmp_download_launch and cwmp_upload_launch preserve the transfer
\* invariant.
LEMMA TransferTransfer == TypeInv /\ TransferInv /\ Transfer => TransferInv'
<1> SUFFICES ASSUME TypeInv, TransferInv, Transfer PROVE TransferInv'
  OBVIOUS
<1> USE DEF session, locals, queues, observed
<1>0. /\ {"TRANSFER_COMPLETE", "M_DOWNLOAD", "M_UPLOAD"} \subseteq Code
      /\ NoKey \in KeyOrNone /\ Keys \subseteq KeyOrNone
      /\ backup \in Backup /\ events \in Seq(Event) /\ method_id \in Nat
      /\ cur \in [key : KeyOrNone, kind : Kind, fault : BOOLEAN]
      /\ pc \in LaunchPoint => cur.key \in Keys
      /\ pc \in TcPoint => backup.tcs # <<>>
      /\ \A t \in transfers : t.key \in TransferKeys
  BY
     DEF Code, SingleCode, MultipleCode, KeyOrNone, TypeInv, TypeOK, CurInv,
         TransferInv, ListInv
<1>1. CASE LaunchRemove
  <2>1. /\ pc = "x_remove" /\ pc' = "x_tc" /\ backup'.tcs = backup.tcs
        /\ backup'.transfers = {t \in backup.transfers : t.key # cur.key}
        /\ transfers' = {t \in transfers : t.key # cur.key}
        /\ UNCHANGED <<cur, used, accepted, acked, dropped, failed, cut>>
    BY <1>0, <1>1 DEF LaunchRemove, backup_remove_transfer, Backup
  <2>2. /\ TransferKeys' = TransferKeys \ {cur.key}
        /\ TcKeys' = TcKeys /\ AckedKeys' = AckedKeys
    BY <2>1 DEF TransferKeys, TcKeys, AckedKeys, TransferKeysOf, TcKeysOf
  <2>3. cur.key \in TransferKeys
    BY <2>1 DEF TransferInv, LaunchInv
  <2>4. ListInv' /\ LaunchInv' /\ AckInv'
    BY <2>1, <2>2, <2>3
       DEF TransferInv, ListInv, LaunchInv, AckInv, TransferOnce, LaunchPoint,
           TcPoint
  <2>5. OutcomeInv' /\ TruthfulReport'
    BY <2>1
       DEF TransferInv, OutcomeInv, TruthfulReport, CutUnsettled,
           UnsettledPoint
  <2>6. TransferNeverLost' /\ TransferOnce'
    BY <2>1, <2>2 DEF TransferInv, TransferNeverLost, TransferOnce
  <2> QED BY <2>4, <2>5, <2>6 DEF TransferInv
<1>2. CASE LaunchAddTransferComplete
  <2> DEFINE n == Len(backup.tcs)
  <2>1. /\ pc = "x_tc" /\ pc' = "x_event"
        /\ UNCHANGED <<cur, transfers, used, accepted, acked, dropped, failed, cut>>
    BY <1>2 DEF LaunchAddTransferComplete
  <2>2. cur.key \in Keys /\ NextMethodId \in Nat
    BY <1>0, <2>1 DEF LaunchPoint, NextMethodId
  <2>3. Appended(backup, backup', cur.key)
    BY <1>0, <1>2, <2>2, AddTransferCompleteType DEF LaunchAddTransferComplete
  <2>4. /\ n \in Nat /\ Len(backup'.tcs) = n + 1
        /\ backup'.transfers = backup.transfers
        /\ \A i \in 1..n : backup'.tcs[i] = backup.tcs[i]
        /\ backup'.tcs[n + 1].key = cur.key
    BY <1>0, <2>3, LenProperties DEF Appended, Backup
  <2> HIDE DEF n
  <2>5. \A i \in 1..Len(backup'.tcs) : i \in 1..n \/ i = n + 1
    BY <2>4
  <2>6. /\ TransferKeys' = TransferKeys /\ AckedKeys' = AckedKeys
        /\ TcKeys' = TcKeys \cup {cur.key}
    <3>1. TransferKeys' = TransferKeys /\ AckedKeys' = AckedKeys
      BY <2>1, <2>4 DEF TransferKeys, AckedKeys, TransferKeysOf
    <3>2. TcKeys' = {backup'.tcs[i].key : i \in 1..(n + 1)}
      BY <2>4 DEF TcKeys, TcKeysOf
    <3>3. TcKeys = {backup.tcs[i].key : i \in 1..n}
      BY DEF TcKeys, TcKeysOf, n
    <3>4. ASSUME NEW i \in 1..(n + 1)
          PROVE  backup'.tcs[i].key \in TcKeys \cup {cur.key}
      BY <2>4, <3>3
    <3>5. ASSUME NEW k \in TcKeys \cup {cur.key}
          PROVE  \E i \in 1..(n + 1) : backup'.tcs[i].key = k
      BY <2>4, <3>3
    <3> QED BY <3>1, <3>2, <3>4, <3>5
  <2>7. cur.key \notin TransferKeys \cup TcKeys \cup AckedKeys /\ cur.key \in used
    BY <2>1 DEF TransferInv, LaunchInv, ListInv, LaunchPoint
  <2>8. ListInv' /\ LaunchInv' /\ AckInv'
    BY <2>1, <2>4, <2>6, <2>7
       DEF TransferInv, ListInv, LaunchInv, AckInv, LaunchPoint, TcPoint
  <2>9. OutcomeInv'
    <3>1. ASSUME NEW i \in 1..n, ~backup'.tcs[i].fault,
                 backup'.tcs[i].key \in failed'
          PROVE  CutUnsettled(backup'.tcs[i].key)
      <4>1. /\ backup'.tcs[i] = backup.tcs[i] /\ i \in 1..Len(backup.tcs)
            /\ failed' = failed /\ cut' = cut
        BY <2>1, <2>4 DEF n
      <4>2. ~backup.tcs[i].fault /\ backup.tcs[i].key \in failed
        BY <3>1, <4>1
      <4>3. CutUnsettled(backup.tcs[i].key)
        BY <2>1, <4>1, <4>2 DEF TransferInv, OutcomeInv, UnsettledPoint
      <4> QED BY <4>1, <4>3
    <3> QED BY <2>1, <2>4, <2>5, <3>1
            DEF TransferInv, OutcomeInv, CutUnsettled, UnsettledPoint
  <2>10. TransferOnce'
    <3>1. \A i \in 1..n : backup.tcs[i].key \in TcKeys
      BY DEF TcKeys, TcKeysOf, n
    <3>2. ASSUME NEW i \in 1..Len(backup'.tcs), NEW j \in 1..Len(backup'.tcs),
                 backup'.tcs[i].key = backup'.tcs[j].key
          PROVE  i = j
      <4>1. CASE i \in 1..n /\ j \in 1..n
        BY <2>4, <3>2, <4>1 DEF TransferInv, TransferOnce, n
      <4>2. CASE ~(i \in 1..n /\ j \in 1..n)
        BY <2>4, <2>5, <2>7, <3>1, <3>2, <4>2
      <4> QED BY <4>1, <4>2
    <3> QED BY <2>6, <2>7, <3>2 DEF TransferInv, TransferOnce
  <2>11. TransferNeverLost' /\ TruthfulReport'
    BY <2>1, <2>6 DEF TransferInv, TransferNeverLost, TruthfulReport
  <2> QED BY <2>8, <2>9, <2>10, <2>11 DEF TransferInv
<1>3. ASSUME pc = "x_event" \/ pc = "x_m_event",
             SameReports(backup, backup'), backup' \in Backup,
             UNCHANGED <<cur, transfers, used, accepted, acked, dropped, failed, cut>>,
             \/ pc = "x_event" /\ pc' = "x_m_event"
             \/ pc = "x_m_event" /\ cur.fault /\ pc' = "x_fault"
             \/ pc = "x_m_event" /\ ~cur.fault /\ pc' \in {"x_apply", "x_complete"}
      PROVE  TransferInv'
  <2>1. TransferKeys' = TransferKeys /\ TcKeys' = TcKeys /\ AckedKeys' = AckedKeys
    BY <1>3, SameKeys DEF TransferKeys, TcKeys, AckedKeys
  <2>2. Len(backup.tcs) \in 1..Len(backup.tcs)
    BY <1>0, <1>3, EmptySeq DEF TcPoint, Backup
  <2>3. ListInv' /\ AckInv'
    BY <1>3, <2>1 DEF TransferInv, ListInv, AckInv
  <2>4. LaunchInv'
    BY <1>3, <2>1, <2>2
       DEF TransferInv, LaunchInv, SameReports, LaunchPoint, TcPoint
  <2>5. OutcomeInv'
    <3>1. \A k : CutUnsettled(k)' <=> CutUnsettled(k)
      BY <1>3 DEF CutUnsettled
    <3>2. cur.fault <=> cur.key \in failed
      BY <1>3 DEF TransferInv, OutcomeInv
    <3> QED BY <1>3, <3>1, <3>2
            DEF TransferInv, OutcomeInv, SameReports, UnsettledPoint
  <2>6. TransferNeverLost' /\ TruthfulReport'
    BY <1>3, <2>1 DEF TransferInv, TransferNeverLost, TruthfulReport
  <2>7. TransferOnce'
    BY <1>3, <2>1 DEF TransferInv, TransferOnce, SameReports
  <2> QED BY <2>3, <2>4, <2>5, <2>6, <2>7 DEF TransferInv
<1>4. CASE LaunchAddEvent
  <2>1. SameReports(backup, backup') /\ backup' \in Backup
    BY <1>0, <1>4, AddEventType, SameTransfersReports DEF LaunchAddEvent
  <2> QED BY <1>3, <1>4, <2>1 DEF LaunchAddEvent
<1>5. CASE LaunchAddMEvent
  <2>1. cur.key \in KeyOrNone /\ MEvent[cur.kind] \in Code
    BY <1>0 DEF MEvent, Kind
  <2>2. SameReports(backup, backup') /\ backup' \in Backup
    BY <1>0, <1>5, <2>1, AddEventType, SameTransfersReports DEF LaunchAddMEvent
  <2> QED BY <1>3, <1>5, <2>2 DEF LaunchAddMEvent
<1>6. ASSUME NEW status \in ApplyStatus, LaunchApply(status)
      PROVE  TransferInv'
  <2>1. CASE status = "exit"
    BY <1>6, <2>1, QuietPreserves
       DEF LaunchApply, ProcessGone, QuietStep, SameReports, UnsettledPoint,
           WorkPoint, LaunchPoint, TcPoint
  <2>2. ASSUME status # "exit"
        PROVE  TransferInv'
    <3>1. /\ pc = "x_apply" /\ pc' \in {"x_complete", "x_fault"}
          /\ failed' = IF pc' = "x_fault" THEN failed \cup {cur.key} ELSE failed
          /\ UNCHANGED <<backup, cur, transfers, used, accepted, acked, dropped, cut>>
      BY <1>6, <2>2 DEF LaunchApply
    <3>2. UNCHANGED <<TransferKeys, TcKeys, AckedKeys>>
      BY <3>1 DEF TransferKeys, TcKeys, AckedKeys
    <3>3. cur.key \notin AckedKeys /\ cur.key \notin failed
      BY <3>1 DEF TransferInv, LaunchInv, OutcomeInv, LaunchPoint
    <3>4. ListInv' /\ LaunchInv' /\ AckInv'
      BY <3>1, <3>2
         DEF TransferInv, ListInv, LaunchInv, AckInv, LaunchPoint, TcPoint
    <3>5. OutcomeInv'
      BY <3>1, <3>3 DEF TransferInv, OutcomeInv, CutUnsettled, UnsettledPoint
    <3>6. TransferNeverLost' /\ TransferOnce'
      BY <3>1, <3>2 DEF TransferInv, TransferNeverLost, TransferOnce
    <3>7. TruthfulReport'
      <4>1. ASSUME NEW a \in acked
            PROVE  a[1] \in failed' => a[1] \in failed
        BY <3>1, <3>3 DEF AckedKeys
      <4> QED BY <3>1, <4>1 DEF TransferInv, TruthfulReport
    <3> QED BY <3>4, <3>5, <3>6, <3>7 DEF TransferInv
  <2> QED BY <2>1, <2>2
<1>7. CASE LaunchFault
  <2> DEFINE n == Len(backup.tcs)
  <2>1. /\ pc = "x_fault" /\ pc' \in {"x_complete", "idle"}
        /\ pc' = "x_complete" => cur' = cur
        /\ UNCHANGED <<transfers, used, accepted, acked, dropped, failed, cut>>
    BY <1>7 DEF LaunchFault
  <2>2. backup.tcs # <<>> /\ n \in 1..n
    BY <1>0, <2>1, EmptySeq DEF TcPoint, Backup
  <2>3. /\ backup'.transfers = backup.transfers
        /\ Len(backup'.tcs) = n
        /\ \A i \in 1..n : backup'.tcs[i].key = backup.tcs[i].key
        /\ \A i \in 1..n : i # n => backup'.tcs[i].fault = backup.tcs[i].fault
        /\ backup'.tcs[n].fault = TRUE
    BY <1>0, <1>7, <2>2, UpdateFaultType DEF LaunchFault
  <2>4. TransferKeys' = TransferKeys /\ TcKeys' = TcKeys /\ AckedKeys' = AckedKeys
    BY <2>1, <2>3 DEF TransferKeys, TcKeys, AckedKeys, TransferKeysOf, TcKeysOf
  <2>5. ListInv' /\ AckInv'
    BY <2>1, <2>4 DEF TransferInv, ListInv, AckInv
  <2>6. LaunchInv'
    BY <2>1, <2>2, <2>3, <2>4 DEF TransferInv, LaunchInv, LaunchPoint, TcPoint
  <2>7. OutcomeInv'
    <3>1. ASSUME NEW i \in 1..n, ~backup'.tcs[i].fault,
                 backup'.tcs[i].key \in failed'
          PROVE  CutUnsettled(backup'.tcs[i].key)
      <4>1. i # n
        BY <2>3, <3>1
      <4>2. /\ backup'.tcs[i].key = backup.tcs[i].key
            /\ ~backup.tcs[i].fault /\ backup.tcs[i].key \in failed
        BY <2>1, <2>3, <3>1, <4>1
      <4>3. backup.tcs[i].key # cur.key
        BY <2>1, <2>2, <4>1 DEF TransferInv, LaunchInv, TransferOnce, TcPoint
      <4>4. CutUnsettled(backup.tcs[i].key)
        BY <4>2, <4>3 DEF TransferInv, OutcomeInv
      <4> QED BY <4>2, <4>4
    <3> QED BY <2>1, <2>3, <3>1 DEF OutcomeInv, CutUnsettled
  <2>8. TransferNeverLost' /\ TruthfulReport'
    BY <2>1, <2>4 DEF TransferInv, TransferNeverLost, TruthfulReport
  <2>9. TransferOnce'
    BY <2>3, <2>4 DEF TransferInv, TransferOnce
  <2> QED BY <2>5, <2>6, <2>7, <2>8, <2>9 DEF TransferInv
<1>8. CASE LaunchComplete
  <2>1. SameReports(backup, backup')
    BY <1>0, <1>8, UpdateCompleteTimeType
       DEF LaunchComplete, TcPoint, SameReports
  <2> QED BY <1>0, <1>8, <2>1, QuietPreserves
          DEF QuietStep, LaunchComplete, UnsettledPoint, WorkPoint,
              LaunchPoint, TcPoint
<1> QED BY <1>1, <1>2, <1>4, <1>5, <1>6, <1>7, <1>8 DEF Transfer

\* The steps of cwmp_inform preserve the transfer invariant.
LEMMA TransferSession == TypeInv /\ TransferInv /\ Session => TransferInv'
<1> SUFFICES ASSUME TypeInv, TransferInv, Session PROVE TransferInv'
  OBVIOUS
<1> USE DEF session, locals, queues, observed
<1>0. /\ backup \in Backup /\ events \in Seq(Event)
      /\ pc \in TcPoint => backup.tcs # <<>>
      /\ \A t \in transfers : t.key \in TransferKeys
  BY DEF TypeInv, TypeOK, CurInv, TransferInv, ListInv
<1>1. CASE RemoveAfterInform
  <2>1. SameReports(backup, backup')
    BY <1>0, <1>1, RemoveEventType, SameTransfersReports DEF RemoveAfterInform
  <2> QED BY <1>0, <1>1, <2>1, QuietPreserves
          DEF QuietStep, RemoveAfterInform, UnsettledPoint, WorkPoint,
              LaunchPoint, TcPoint
<1>2. CASE ClearNotifications
  BY <1>0, <1>2, QuietPreserves
     DEF QuietStep, SameReports, ClearNotifications, UnsettledPoint, WorkPoint,
         LaunchPoint, TcPoint
<1>3. CASE backup_remove_transfer_complete
  <2> DEFINE n == Len(backup.tcs)
  <2>1. /\ pc = "tc_remove" /\ pc' = "rm_mid"
        /\ UNCHANGED <<cur, transfers, used, accepted, acked, dropped, failed, cut>>
    BY <1>3 DEF backup_remove_transfer_complete
  <2>2. backup.tcs # <<>>
    BY <1>0, <2>1 DEF TcPoint
  <2>3. /\ backup'.transfers = backup.transfers
        /\ n \in Nat \ {0}
        /\ Len(backup'.tcs) = n - 1
        /\ \A i \in 1..(n - 1) : backup'.tcs[i] = backup.tcs[i + 1]
    BY <1>0, <1>3, <2>2, RemoveFirstTransferCompleteType
       DEF backup_remove_transfer_complete
  <2> HIDE DEF n
  <2>4. TcKeys = {backup.tcs[i].key : i \in 1..n}
    BY DEF TcKeys, TcKeysOf, n
  <2>5. TcKeys' = {backup.tcs[i + 1].key : i \in 1..(n - 1)}
    BY <2>3 DEF TcKeys, TcKeysOf
  <2>6. TransferKeys' = TransferKeys /\ AckedKeys' = AckedKeys
    BY <2>1, <2>3 DEF TransferKeys, AckedKeys, TransferKeysOf
  <2>7. \A i, j \in 1..n : backup.tcs[i].key = backup.tcs[j].key => i = j
    BY DEF TransferInv, TransferOnce, n
  <2>8. cur.key = backup.tcs[1].key
    BY <2>1 DEF TransferInv, LaunchInv
  <2>9. TcKeys' = TcKeys \ {cur.key}
    <3>1. ASSUME NEW i \in 1..(n - 1)
          PROVE  backup.tcs[i + 1].key \in TcKeys \ {cur.key}
      BY <2>3, <2>4, <2>7, <2>8
    <3>2. ASSUME NEW k \in TcKeys \ {cur.key}
          PROVE  \E i \in 1..(n - 1) : backup.tcs[i + 1].key = k
      <4>1. PICK j \in 1..n : backup.tcs[j].key = k
        BY <2>4
      <4>2. j # 1
        BY <2>8, <4>1
      <4>3. j - 1 \in 1..(n - 1) /\ (j - 1) + 1 = j
        BY <2>3, <4>2
      <4> QED BY <4>1, <4>3
    <3> QED BY <2>5, <3>1, <3>2
  <2>10. cur.key \in AckedKeys
    BY <2>1 DEF TransferInv, LaunchInv
  <2>11. ListInv' /\ LaunchInv' /\ AckInv'
    BY <2>1, <2>6, <2>9
       DEF TransferInv, ListInv, LaunchInv, AckInv, LaunchPoint, TcPoint
  <2>12. OutcomeInv'
    <3>1. ASSUME NEW i \in 1..(n - 1), ~backup'.tcs[i].fault,
                 backup'.tcs[i].key \in failed'
          PROVE  CutUnsettled(backup'.tcs[i].key)
      <4>1. i + 1 \in 1..Len(backup.tcs) /\ backup'.tcs[i] = backup.tcs[i + 1]
        BY <2>3 DEF n
      <4>2. ~backup.tcs[i + 1].fault /\ backup.tcs[i + 1].key \in failed
        BY <2>1, <3>1, <4>1
      <4>3. CutUnsettled(backup.tcs[i + 1].key)
        BY <2>1, <4>1, <4>2 DEF TransferInv, OutcomeInv, UnsettledPoint
      <4> QED BY <4>1, <4>3
    <3> QED BY <2>1, <2>3, <3>1 DEF OutcomeInv, CutUnsettled
  <2>13. TransferNeverLost' /\ TruthfulReport'
    BY <2>1, <2>6, <2>9, <2>10
       DEF TransferInv, TransferNeverLost, TruthfulReport
  <2>14. TransferOnce'
    <3>1. ASSUME NEW i \in 1..(n - 1), NEW j \in 1..(n - 1),
                 backup'.tcs[i].key = backup'.tcs[j].key
          PROVE  i = j
      <4>1. i + 1 \in 1..n /\ j + 1 \in 1..n
        BY <2>3
      <4>2. backup.tcs[i + 1].key = backup.tcs[j + 1].key
        BY <2>3, <3>1
      <4>3. i + 1 = j + 1
        BY <2>7, <4>1, <4>2
      <4> QED BY <4>3
    <3> QED BY <2>3, <2>6, <2>9, <3>1 DEF TransferInv, TransferOnce
  <2> QED BY <2>11, <2>12, <2>13, <2>14 DEF TransferInv
<1>4. CASE RemoveAfterTransferComplete
  <2>1. SameReports(backup, backup')
    BY <1>0, <1>4, RemoveEventType, SameTransfersReports
       DEF RemoveAfterTransferComplete
  <2> QED BY <1>0, <1>4, <2>1, QuietPreserves
          DEF QuietStep, RemoveAfterTransferComplete, UnsettledPoint,
              WorkPoint, LaunchPoint, TcPoint
<1>5. CASE RemoveMidDone
  BY <1>0, <1>5, QuietPreserves
     DEF QuietStep, SameReports, RemoveMidDone, UnsettledPoint, WorkPoint,
         LaunchPoint, TcPoint
<1>6. CASE HandleMessages
  BY <1>0, <1>6, QuietPreserves
     DEF QuietStep, SameReports, HandleMessages, UnsettledPoint, WorkPoint,
         LaunchPoint, TcPoint
<1>7. CASE EndFactoryReset
  <2>1. backup'.transfers = {} /\ backup'.tcs = <<>>
    BY <1>7, NoBackupType DEF EndFactoryReset
  <2> QED BY <1>7, <2>1, DiscardPreserves
          DEF DiscardStep, EndFactoryReset, ProcessGone, WorkPoint,
              LaunchPoint, TcPoint
<1>8. CASE EndReboot
  BY <1>8, QuietPreserves
     DEF QuietStep, SameReports, EndReboot, ProcessGone, UnsettledPoint,
         WorkPoint, LaunchPoint, TcPoint
<1>9. CASE EndReload
  BY <1>0, <1>9, QuietPreserves
     DEF QuietStep, SameReports, EndReload, UnsettledPoint, WorkPoint,
         LaunchPoint, TcPoint
<1>10. CASE EndPlain
  BY <1>0, <1>10, QuietPreserves
     DEF QuietStep, SameReports, EndPlain, UnsettledPoint, WorkPoint,
         LaunchPoint, TcPoint
<1>11. CASE SessionSuccess
  BY <1>0, <1>11, QuietPreserves
     DEF QuietStep, SameReports, SessionSuccess, UnsettledPoint, WorkPoint,
         LaunchPoint, TcPoint
<1>12. CASE cwmp_retry_session
  <2>1. SameReports(backup, backup')
    <3>1. CASE AnyRemovable("NO_RETRY", 0)
      BY <1>0, <1>12, <3>1, RemoveEventType, SameTransfersReports
         DEF cwmp_retry_session
    <3>2. CASE ~AnyRemovable("NO_RETRY", 0)
      BY <1>12, <3>2 DEF cwmp_retry_session, SameReports
    <3> QED BY <3>1, <3>2
  <2> QED BY <1>0, <1>12, <2>1, QuietPreserves
          DEF QuietStep, cwmp_retry_session, UnsettledPoint, WorkPoint,
              LaunchPoint, TcPoint
<1> QED BY <1>1, <1>2, <1>3, <1>4, <1>5, <1>6, <1>7, <1>8, <1>9, <1>10, <1>11,
           <1>12
        DEF Session

\* Answers and requests of the ACS preserve the transfer invariant.
LEMMA TransferAcs ==
  TypeInv /\ TransferInv /\ (AcsAnswers \/ EmptyMessage \/ AcsRequests)
    => TransferInv'
<1> SUFFICES ASSUME TypeInv, TransferInv, AcsAnswers \/ EmptyMessage \/ AcsRequests
             PROVE  TransferInv'
  OBVIOUS
<1> USE DEF session, locals, queues, observed
<1>0. /\ backup \in Backup
      /\ \A t \in transfers : t.key \in TransferKeys
  BY DEF TypeInv, TypeOK, TransferInv, ListInv
<1>1. ASSUME NEW hold \in BOOLEAN, InformAnswered(hold)
      PROVE  TransferInv'
  BY <1>0, <1>1, QuietPreserves
     DEF QuietStep, SameReports, InformAnswered, UnsettledPoint, WorkPoint,
         LaunchPoint, TcPoint
<1>2. ASSUME NEW hold \in BOOLEAN, TransferCompleteAnswered(hold)
      PROVE  TransferInv'
  <2> DEFINE tc == Head(backup.tcs)
             report == <<tc.key, tc.fault>>
  <2>1. backup.tcs # <<>> /\ backup.tcs \in Seq(TransferComplete)
    BY <1>0, <1>2 DEF TransferCompleteAnswered, SendsTransferComplete, Backup
  <2>2. /\ tc = backup.tcs[1] /\ 1 \in 1..Len(backup.tcs)
        /\ tc \in TransferComplete
    BY <2>1, EmptySeq, HeadTailProperties
  <2> HIDE DEF tc
  <2>3. report[1] = tc.key /\ report[2] = tc.fault
    OBVIOUS
  <2> HIDE DEF report
  <2>4. /\ pc = "loop" /\ pc' = "tc_remove" /\ cur'.key = tc.key
        /\ acked' = acked \cup {report}
        /\ UNCHANGED <<backup, transfers, used, accepted, dropped, failed, cut>>
    BY <1>2
       DEF TransferCompleteAnswered, SendsTransferComplete, NoCur, tc, report
  <2>5. UNCHANGED <<TransferKeys, TcKeys>> /\ AckedKeys' = AckedKeys \cup {tc.key}
    BY <2>3, <2>4 DEF TransferKeys, TcKeys, AckedKeys
  <2>6. tc.key \in TcKeys
    BY <2>2 DEF TcKeys, TcKeysOf
  <2>7. ListInv' /\ LaunchInv' /\ AckInv'
    BY <2>2, <2>4, <2>5, <2>6
       DEF TransferInv, ListInv, LaunchInv, AckInv, LaunchPoint, TcPoint
  <2>8. OutcomeInv'
    BY <2>4 DEF TransferInv, OutcomeInv, CutUnsettled, UnsettledPoint
  <2>9. TransferNeverLost' /\ TransferOnce'
    BY <2>4, <2>5, <2>6 DEF TransferInv, TransferNeverLost, TransferOnce
  <2>10. TruthfulReport'
    <3>1. ~tc.fault /\ tc.key \in failed => CutUnsettled(tc.key)
      BY <2>2, <2>4 DEF TransferInv, OutcomeInv, UnsettledPoint
    <3> QED BY <2>3, <2>4, <3>1 DEF TransferInv, TruthfulReport, CutUnsettled
  <2> QED BY <2>7, <2>8, <2>9, <2>10 DEF TransferInv
<1>3. ASSUME NEW hold \in BOOLEAN, GetRpcMethodsAnswered(hold)
      PROVE  TransferInv'
  BY <1>0, <1>3, QuietPreserves
     DEF QuietStep, SameReports, GetRpcMethodsAnswered, SendsGetRpcMethods,
         UnsettledPoint, WorkPoint, LaunchPoint, TcPoint
<1>4. CASE EmptyMessage
  BY <1>0, <1>4, QuietPreserves
     DEF QuietStep, SameReports, EmptyMessage, UnsettledPoint, WorkPoint,
         LaunchPoint, TcPoint
<1>5. ASSUME NEW k \in Keys, NEW r \in Requests, HandleTransfer(r, k)
      PROVE  TransferInv'
  <2> DEFINE kind == KindOf[r]
             node == [key |-> k, kind |-> kind]
  <2>1. CASE count[kind] >= MaxTransfer
    BY <1>0, <1>5, <2>1, QuietPreserves
       DEF QuietStep, SameReports, HandleTransfer, UnsettledPoint, WorkPoint,
           LaunchPoint, TcPoint
  <2>2. ASSUME ~(count[kind] >= MaxTransfer)
        PROVE  TransferInv'
    <3>1. /\ pc = "messages" /\ pc' = "messages" /\ k \notin used
          /\ used' = used \cup {k} /\ accepted' = accepted \cup {k}
          /\ backup' = [backup EXCEPT !.transfers = @ \cup {node}]
          /\ transfers' = transfers \cup {[key |-> k, kind |-> kind, armed |-> TRUE]}
          /\ UNCHANGED <<cur, acked, dropped, failed, cut>>
      BY <1>5, <2>2 DEF HandleTransfer, FreshKey, backup_add_transfer
    <3>2. /\ backup'.tcs = backup.tcs
          /\ backup'.transfers = backup.transfers \cup {node}
          /\ node.key = k
      BY <1>0, <3>1 DEF Backup
    <3>3. /\ TransferKeys' = TransferKeys \cup {k}
          /\ TcKeys' = TcKeys /\ AckedKeys' = AckedKeys
      <4> HIDE DEF node
      <4> QED BY <3>1, <3>2
              DEF TransferKeys, TcKeys, AckedKeys, TransferKeysOf, TcKeysOf
    <3>4. k \notin TcKeys \cup AckedKeys
      BY <3>1 DEF TransferInv, ListInv
    <3>5. \A t \in transfers' : t.key \in TransferKeys'
      BY <1>0, <3>1, <3>3
    <3>6. ListInv' /\ LaunchInv' /\ AckInv'
      BY <3>1, <3>3, <3>5
         DEF TransferInv, ListInv, LaunchInv, AckInv, LaunchPoint, TcPoint
    <3>7. OutcomeInv'
      BY <3>1, <3>2 DEF TransferInv, OutcomeInv, CutUnsettled, UnsettledPoint
    <3>8. TransferNeverLost' /\ TruthfulReport'
      BY <3>1, <3>3 DEF TransferInv, TransferNeverLost, TruthfulReport
    <3>9. TransferOnce'
      BY <3>2, <3>3, <3>4 DEF TransferInv, TransferOnce
    <3> QED BY <3>6, <3>7, <3>8, <3>9 DEF TransferInv
  <2> QED BY <2>1, <2>2
<1>6. ASSUME NEW k \in Keys, HandleReboot(k)
      PROVE  TransferInv'
  <2>1. SameReports(backup, backup')
    BY <1>0, <1>6 DEF HandleReboot, backup_add_event, SameReports, Backup
  <2> QED BY <1>0, <1>6, <2>1, QuietPreserves
          DEF QuietStep, HandleReboot, UnsettledPoint, WorkPoint, LaunchPoint,
              TcPoint
<1>7. CASE HandleFactoryReset
  BY <1>0, <1>7, QuietPreserves
     DEF QuietStep, SameReports, HandleFactoryReset, UnsettledPoint, WorkPoint,
         LaunchPoint, TcPoint
<1>8. ASSUME NEW k \in Keys, HandleScheduleInform(k)
      PROVE  TransferInv'
  BY <1>0, <1>8, QuietPreserves
     DEF QuietStep, SameReports, HandleScheduleInform, UnsettledPoint,
         WorkPoint, LaunchPoint, TcPoint
<1>9. ASSUME NEW url \in Urls, HandleSetUrl(url)
      PROVE  TransferInv'
  BY <1>0, <1>9, QuietPreserves
     DEF QuietStep, SameReports, HandleSetUrl, UnsettledPoint, WorkPoint,
         LaunchPoint, TcPoint
<1> QED BY <1>1, <1>2, <1>3, <1>4, <1>5, <1>6, <1>7, <1>8, <1>9
        DEF AcsAnswers, AcsRequests

\* Failed exchanges, exits and power cuts preserve the transfer invariant.
LEMMA TransferFailures == TypeInv /\ TransferInv /\ Failures => TransferInv'
<1> SUFFICES ASSUME TypeInv, TransferInv, Failures PROVE TransferInv'
  OBVIOUS
<1> USE DEF session, locals, queues, observed
<1>0. \A t \in transfers : t.key \in TransferKeys
  BY DEF TransferInv, ListInv
<1>1. CASE ExchangeFails
  BY <1>0, <1>1, QuietPreserves
     DEF QuietStep, SameReports, ExchangeFails, Exchanging,
         SendsTransferComplete, SendsGetRpcMethods, UnsettledPoint, WorkPoint,
         LaunchPoint, TcPoint
<1>2. CASE Fault8005
  BY <1>0, <1>2, QuietPreserves
     DEF QuietStep, SameReports, Fault8005, Exchanging, SendsTransferComplete,
         SendsGetRpcMethods, UnsettledPoint, WorkPoint, LaunchPoint, TcPoint
<1>3. CASE ConfigLoadFails
  BY <1>3, QuietPreserves
     DEF QuietStep, SameReports, ConfigLoadFails, ProcessGone, UnsettledPoint,
         WorkPoint, LaunchPoint, TcPoint
<1>4. CASE Crash
  <2>1. /\ pc' = "down" /\ transfers' = {}
        /\ cut' = IF pc \in CutPoint THEN cut \cup {<<pc, cur.key>>} ELSE cut
        /\ UNCHANGED <<backup, used, accepted, acked, dropped, failed>>
    BY <1>4 DEF Crash, ProcessGone
  <2>2. cut \subseteq cut' /\ (pc \in CutPoint => <<pc, cur.key>> \in cut')
    BY <2>1
  <2>3. UNCHANGED <<TransferKeys, TcKeys, AckedKeys>>
    BY <2>1 DEF TransferKeys, TcKeys, AckedKeys
  <2>4. ListInv' /\ LaunchInv' /\ AckInv'
    BY <2>1, <2>2, <2>3
       DEF TransferInv, ListInv, LaunchInv, AckInv, LaunchPoint, TcPoint,
           CutPoint
  <2>5. OutcomeInv'
    <3>1. ASSUME NEW k, CutUnsettled(k) \/ (pc \in UnsettledPoint /\ k = cur.key)
          PROVE  \E p \in {"x_event", "x_m_event", "x_apply", "x_fault"} :
                   <<p, k>> \in cut'
      BY <2>2, <3>1 DEF CutUnsettled, UnsettledPoint, CutPoint
    <3> QED BY <2>1, <3>1 DEF TransferInv, OutcomeInv, CutUnsettled
  <2>6. TransferNeverLost'
    BY <2>1, <2>2, <2>3 DEF TransferInv, TransferNeverLost, CutPoint
  <2>7. TransferOnce' /\ TruthfulReport'
    BY <2>1, <2>2, <2>3 DEF TransferInv, TransferOnce, TruthfulReport
  <2> QED BY <2>4, <2>5, <2>6, <2>7 DEF TransferInv
<1>5. CASE CrashInSave
  <2>1. backup'.transfers = {} /\ backup'.tcs = <<>>
    BY <1>5, NoBackupType DEF CrashInSave
  <2>2. pc = "x_tc" => cur.key \in Keys /\ cur.key # NoKey
    BY KeysAssumption DEF TypeInv, CurInv, LaunchPoint
  <2> QED BY <1>5, <2>1, <2>2, DiscardPreserves
          DEF DiscardStep, CrashInSave, ProcessGone, WorkPoint, LaunchPoint,
              TcPoint
<1> QED BY <1>1, <1>2, <1>3, <1>4, <1>5 DEF Failures

\* Nor does a stuttering step break it.
LEMMA TransferStutter == TransferInv /\ UNCHANGED vars => TransferInv'
BY
   DEF vars, session, locals, queues, observed, TransferInv, ListInv,
       LaunchInv, AckInv, OutcomeInv, CutUnsettled, TransferNeverLost,
       TransferOnce, TruthfulReport, TransferKeys, TcKeys, AckedKeys

\* The transfer invariant is inductive, given the types.
LEMMA TransferStep == TypeInv /\ TransferInv /\ [Next]_vars => TransferInv'
BY TransferStartup, TransferCallbacks, TransferTransfer, TransferSession,
   TransferAcs, TransferFailures, TransferStutter
   DEF Next

\* Both invariants hold in every reachable state.
LEMMA Invariance == Spec => [](TypeInv /\ TransferInv)
BY TypeInit, TypeStep, TransferInit, TransferStep, PTL DEF Spec

----------------------------------------------------------------------------
\* For any number of transfers, restarts and power cuts: a Download or Upload
\* answered with Status 1 is pending, or on file as a TransferComplete, or
\* reported, or was discarded with its whole backup, except in the one hole
\* between backup_remove_download and backup_add_transfer_complete.
THEOREM TransfersAreKept == Spec => []TransferNeverLost
<1>1. TransferInv => TransferNeverLost
  BY DEF TransferInv
<1> QED BY <1>1, Invariance, PTL

\* No download or upload is executed again once its TransferComplete is on
\* file or answered, and no key has two TransferCompletes, whatever restarts
\* backup_init resumes from.
THEOREM TransfersHappenOnce == Spec => []TransferOnce
<1>1. TransferInv => TransferOnce
  BY DEF TransferInv
<1> QED BY <1>1, Invariance, PTL

\* An answered TransferComplete said FAULT_0 of a failed transfer only if power
\* failed before backup_update_fault_transfer_complete had written the fault.
THEOREM ReportsAreTruthful == Spec => []TruthfulReport
<1>1. TransferInv => TruthfulReport
  BY DEF TransferInv
<1> QED BY <1>1, Invariance, PTL

\* The loop of cwmp_inform does not send a TransferComplete again that the ACS
\* has answered, except after a power cut before its removal from the file.
THEOREM ReportsAreSentOnce == Spec => NotReportedTwice
<1> DEFINE P == pc = "loop" /\ pc' = "tc_remove" =>
                  \/ cur'.key \notin AckedKeys
                  \/ <<"tc_remove", cur'.key>> \in cut
<1>1. TypeInv /\ TransferInv /\ [Next]_vars => [P]_vars
  <2> SUFFICES ASSUME TypeInv, TransferInv, Next, pc = "loop", pc' = "tc_remove"
               PROVE  \/ cur'.key \notin AckedKeys
                      \/ <<"tc_remove", cur'.key>> \in cut
    OBVIOUS
  <2>1. \E hold \in BOOLEAN : TransferCompleteAnswered(hold)
    BY
       DEF Next, Startup, BackupInit, LoadEvent, BackupInitDone,
           ConfigLoadSame, BackupAddAcsUrl, AddBootstrap, StartBoot,
           StartGetRpcMethod, Callbacks, cwmp_do_inform, LaunchFails, Launch,
           ScheduledInform, ScheduledInformDone, cwmp_connection_request,
           Notify, cwmp_periodic_inform, Reload, Transfer, LaunchRemove,
           LaunchAddTransferComplete, LaunchAddEvent, LaunchAddMEvent,
           LaunchApply, LaunchFault, LaunchComplete, Session,
           RemoveAfterInform, ClearNotifications,
           backup_remove_transfer_complete, RemoveAfterTransferComplete,
           RemoveMidDone, HandleMessages, EndFactoryReset, EndReboot,
           EndReload, EndPlain, SessionSuccess, cwmp_retry_session, AcsAnswers,
           InformAnswered, GetRpcMethodsAnswered, EmptyMessage, AcsRequests,
           HandleTransfer, HandleReboot, HandleFactoryReset,
           HandleScheduleInform, HandleSetUrl, Failures, ExchangeFails,
           Fault8005, ConfigLoadFails, Crash, CrashInSave, ProcessGone
  <2>2. backup.tcs # <<>> /\ cur'.key = Head(backup.tcs).key
    BY <2>1 DEF TransferCompleteAnswered, SendsTransferComplete, NoCur
  <2>3. 1 \in 1..Len(backup.tcs) /\ Head(backup.tcs) = backup.tcs[1]
    BY <2>2, EmptySeq DEF TypeInv, TypeOK, Backup
  <2>4. cur'.key \in TcKeys
    BY <2>2, <2>3 DEF TcKeys, TcKeysOf
  <2> QED BY <2>4 DEF TransferInv, AckInv
<1> QED BY <1>1, Invariance, PTL DEF Spec, NotReportedTwice
============================================================================
