--------------------------- MODULE LedgerProofs ---------------------------
(***************************************************************************)
(* The slots of cwmp->downloads and cwmp->uploads are accounted for, and   *)
(* easycwmpd implements TransferLedger, for any number of command keys,    *)
(* slots, restarts and power cuts.                                         *)
(***************************************************************************)
EXTENDS TransferProofs, FunctionTheorems

NodeOf(t) == [key |-> t.key, kind |-> t.kind]
NodesOfKind(k) == {n \in backup.transfers : n.kind = k}

\* The lists in memory are the elements of the file, one per key, and the
\* counters are how many of each kind the file holds.
ListInStep ==
  /\ {NodeOf(t) : t \in transfers} = backup.transfers
  /\ \A t, u \in transfers : t.key = u.key => t = u
  /\ \A k \in Kind : count[k] = Cardinality(NodesOfKind(k))

\* The file has one element per key and kind and never more than there are
\* slots, even while no process runs; the element that is being removed is
\* there.
SlotInv ==
  /\ \A n, o \in backup.transfers : n.key = o.key => n = o
  /\ \A k \in Kind : Cardinality(NodesOfKind(k)) <= MaxTransfer
  /\ pc = "x_remove" => NodeOf(cur) \in backup.transfers
  /\ pc # "down" => ListInStep

\* Where the thread has a current key, and what is known of that key.
CurrentKnown ==
  /\ pc \notin WorkPoint \cup {"rm_mid", "m_scheduleinform"} => cur.key = NoKey
  /\ pc = "rm_mid" => cur.key \in AckedKeys
  /\ pc = "m_scheduleinform" => cur.key \in scheduled

\* Every key on file was accepted, and keys are used for one purpose: those of
\* ScheduleInform are no transfers, dropped ones do not come back.
OwnerInv ==
  /\ scheduled \subseteq used /\ scheduled \cap accepted = {}
  /\ TransferKeys \cup TcKeys \subseteq accepted
  /\ dropped \subseteq used /\ dropped \cap TransferKeys = {}
  /\ pc = "x_tc" => cur.key \in accepted /\ cur.key \notin dropped

\* The inductive invariant, on top of the types and of TransferInv.
LedgerInv == SlotInv /\ CurrentKnown /\ OwnerInv

----------------------------------------------------------------------------
\* The steps, by what they do to the records of transfers.

\* The file still holds the same transfers and TransferCompletes of the same
\* keys.
SameRecords == backup'.transfers = backup.transfers /\ TcKeys' = TcKeys

\* A change of the events alone keeps the records.
LEMMA SameTransfersRecords == SameTransfers => SameRecords
BY DEF SameTransfers, SameRecords, TcKeys, TcKeysOf

\* So does a change of faults and times.
LEMMA SameKeysRecords ==
  ASSUME backup'.transfers = backup.transfers,
         Len(backup'.tcs) = Len(backup.tcs),
         \A i \in 1..Len(backup.tcs) : backup'.tcs[i].key = backup.tcs[i].key
  PROVE  SameRecords
BY DEF SameRecords, TcKeys, TcKeysOf

\* Nothing happens to any transfer.
PlainStep ==
  /\ pc \notin {"down", "x_tc"} /\ pc' \notin {"down", "x_remove", "x_tc"}
  /\ SameRecords
  /\ UNCHANGED <<transfers, count, accepted, acked, dropped>>
  /\ used \subseteq used' /\ scheduled' \subseteq scheduled
  /\ CurrentKnown'

\* The process ends, and no transfer is between two records.
StopStep ==
  /\ pc # "x_tc" /\ pc' = "down" /\ cur' = NoCur /\ scheduled' = {}
  /\ UNCHANGED <<backup, used, accepted, acked, dropped>>

\* The power is cut in the hole of TransferNeverLost.
LoseStep ==
  /\ pc = "x_tc" /\ pc' = "down" /\ cur' = NoCur /\ scheduled' = {}
  /\ UNCHANGED <<backup, used, accepted, acked, dropped>>

\* The backup is discarded.
DropStep ==
  /\ backup'.transfers = {} /\ backup'.tcs = <<>>
  /\ pc' \in {"down", "bootstrap"} /\ cur'.key = NoKey /\ scheduled' = {}
  /\ transfers' = {} /\ count' = [k \in Kind |-> 0]
  /\ dropped \cup TransferKeys \cup TcKeys \subseteq dropped'
  /\ dropped' \subseteq dropped \cup TransferKeys \cup TcKeys
                          \cup ({cur.key} \ {NoKey})
  /\ pc = "x_tc" => cur.key \in dropped'
  /\ UNCHANGED <<used, accepted, acked>>

\* The steps that are about one transfer.
OwnStep ==
  \/ BackupInit
  \/ \E t \in transfers : LaunchFails(t) \/ \E fault \in BOOLEAN : Launch(t, fault)
  \/ LaunchRemove \/ LaunchAddTransferComplete
  \/ \E hold \in BOOLEAN : TransferCompleteAnswered(hold)
  \/ backup_remove_transfer_complete
  \/ \E k \in Keys, r \in Requests : HandleTransfer(r, k)
  \/ \E k \in Keys : HandleScheduleInform(k)

LedgerStep == PlainStep \/ StopStep \/ LoseStep \/ DropStep \/ OwnStep

\* main, backup_init and config_load.
LEMMA LedgerStartup ==
  TypeInv /\ CurrentKnown /\ Startup => LedgerStep
<1> SUFFICES ASSUME TypeInv, CurrentKnown, Startup PROVE LedgerStep
  OBVIOUS
<1> USE DEF session, locals, queues, observed
<1>0. /\ {"BOOTSTRAP", "BOOT", "PERIODIC"} \subseteq Code
      /\ NoKey \in KeyOrNone /\ backup \in Backup /\ events \in Seq(Event)
  BY DEF Code, SingleCode, KeyOrNone, TypeInv, TypeOK
<1>1. CASE BackupInit
  BY <1>1 DEF LedgerStep, OwnStep
<1>2. CASE LoadEvent \/ ConfigLoadSame
  BY <1>2
     DEF LedgerStep, PlainStep, SameRecords, TcKeys, CurrentKnown, LoadEvent,
         ConfigLoadSame, Return, WorkPoint, LaunchPoint, TcPoint
<1>3. CASE BackupInitDone
  <2>1. SameRecords
    BY <1>0, <1>3, CompleteAllType, SameKeysRecords DEF BackupInitDone
  <2> QED BY <1>3, <2>1
          DEF LedgerStep, PlainStep, CurrentKnown, BackupInitDone, WorkPoint,
              LaunchPoint, TcPoint
<1>4. CASE BackupAddAcsUrl
  <2>1. backup'.transfers = {} /\ backup'.tcs = <<>>
    BY <1>4, NoBackupType DEF BackupAddAcsUrl, backup_add_acsurl, Backup
  <2> QED BY <1>4, <2>1
          DEF LedgerStep, DropStep, CurrentKnown, BackupAddAcsUrl, WorkPoint,
              LaunchPoint, TcPoint
<1>5. CASE AddBootstrap \/ StartBoot \/ StartGetRpcMethod
  <2>1. SameRecords
    BY <1>0, <1>5, AddEventType, SameTransfersRecords
       DEF AddBootstrap, StartBoot, StartGetRpcMethod
  <2> QED BY <1>5, <2>1
          DEF LedgerStep, PlainStep, CurrentKnown, AddBootstrap, StartBoot,
              StartGetRpcMethod, Return, WorkPoint, LaunchPoint, TcPoint
<1> QED BY <1>1, <1>2, <1>3, <1>4, <1>5 DEF Startup

\* The uloop callbacks.
LEMMA LedgerCallbacks ==
  TypeInv /\ CurrentKnown /\ Callbacks => LedgerStep
<1> SUFFICES ASSUME TypeInv, CurrentKnown, Callbacks PROVE LedgerStep
  OBVIOUS
<1> USE DEF session, locals, queues, observed
<1>0. /\ UbusCode \cup {"VALUE_CHANGE", "PERIODIC", "SCHEDULED",
                        "M_SCHEDULEINFORM"} \subseteq Code
      /\ NoKey \in KeyOrNone /\ backup \in Backup /\ events \in Seq(Event)
      /\ cur.key \in KeyOrNone
  BY
     DEF UbusCode, Code, SingleCode, MultipleCode, KeyOrNone, TypeInv, TypeOK
<1>1. ASSUME \/ \E t \in timers : cwmp_do_inform(t)
             \/ \E url \in Urls : Reload(url)
      PROVE  LedgerStep
  BY <1>1
     DEF LedgerStep, PlainStep, SameRecords, TcKeys, CurrentKnown, cwmp_do_inform,
         Reload, WorkPoint, LaunchPoint, TcPoint
<1>2. ASSUME NEW t \in transfers,
             LaunchFails(t) \/ \E fault \in BOOLEAN : Launch(t, fault)
      PROVE  LedgerStep
  BY <1>2 DEF LedgerStep, OwnStep
<1>3. ASSUME NEW k \in scheduled, ScheduledInform(k)
      PROVE  LedgerStep
  <2>1. SameRecords
    BY <1>0, <1>3, AddEventType, SameTransfersRecords DEF ScheduledInform
  <2>2. cur'.key = k
    BY <1>3 DEF ScheduledInform, NoCur
  <2> QED BY <1>3, <2>1, <2>2
          DEF LedgerStep, PlainStep, CurrentKnown, ScheduledInform, WorkPoint,
              LaunchPoint, TcPoint
<1>4. CASE ScheduledInformDone
  <2>1. SameRecords
    BY <1>0, <1>4, AddEventType, SameTransfersRecords DEF ScheduledInformDone
  <2>2. cur'.key = NoKey
    BY <1>4 DEF ScheduledInformDone, NoCur
  <2> QED BY <1>4, <2>1, <2>2
          DEF LedgerStep, PlainStep, CurrentKnown, ScheduledInformDone
<1>5. ASSUME \/ \E code \in InformCodes : cwmp_connection_request(code)
             \/ \E active \in BOOLEAN : Notify(active)
             \/ cwmp_periodic_inform
      PROVE  LedgerStep
  <2>1. SameRecords
    BY <1>0, <1>5, AddEventType, SameTransfersRecords, StimuliAssumption
       DEF cwmp_connection_request, Notify, cwmp_periodic_inform
  <2> QED BY <1>5, <2>1
          DEF LedgerStep, PlainStep, CurrentKnown, cwmp_connection_request,
              Notify, cwmp_periodic_inform, WorkPoint, LaunchPoint, TcPoint
<1> QED BY <1>1, <1>2, <1>3, <1>4, <1>5 DEF Callbacks

\* cwmp_download_launch and cwmp_upload_launch.
LEMMA LedgerTransfer ==
  TypeInv /\ CurrentKnown /\ Transfer => LedgerStep
<1> SUFFICES ASSUME TypeInv, CurrentKnown, Transfer PROVE LedgerStep
  OBVIOUS
<1> USE DEF session, locals, queues, observed
<1>0. /\ {"TRANSFER_COMPLETE", "M_DOWNLOAD", "M_UPLOAD"} \subseteq Code
      /\ NoKey \in KeyOrNone /\ backup \in Backup /\ events \in Seq(Event)
      /\ cur.key \in KeyOrNone /\ cur.kind \in Kind /\ method_id \in Nat
      /\ pc \in TcPoint => backup.tcs # <<>>
  BY
     DEF Code, SingleCode, MultipleCode, KeyOrNone, TypeInv, TypeOK, CurInv
<1>1. CASE LaunchRemove \/ LaunchAddTransferComplete
  BY <1>1 DEF LedgerStep, OwnStep
<1>2. CASE LaunchAddEvent
  <2>1. SameRecords
    BY <1>0, <1>2, AddEventType, SameTransfersRecords DEF LaunchAddEvent
  <2> QED BY <1>2, <2>1
          DEF LedgerStep, PlainStep, CurrentKnown, LaunchAddEvent, WorkPoint,
              LaunchPoint, TcPoint
<1>3. CASE LaunchAddMEvent
  <2>1. MEvent[cur.kind] \in Code
    BY <1>0 DEF MEvent, Kind
  <2>2. SameRecords
    BY <1>0, <1>3, <2>1, AddEventType, SameTransfersRecords DEF LaunchAddMEvent
  <2> QED BY <1>3, <2>2
          DEF LedgerStep, PlainStep, CurrentKnown, LaunchAddMEvent, WorkPoint,
              LaunchPoint, TcPoint
<1>4. ASSUME NEW status \in ApplyStatus, LaunchApply(status)
      PROVE  LedgerStep
  <2>1. CASE status = "exit"
    BY <1>4, <2>1 DEF LedgerStep, StopStep, LaunchApply, ProcessGone
  <2>2. CASE status # "exit"
    BY <1>4, <2>2
       DEF LedgerStep, PlainStep, SameRecords, TcKeys, CurrentKnown, LaunchApply,
           WorkPoint, LaunchPoint, TcPoint
  <2> QED BY <2>1, <2>2
<1>5. CASE LaunchFault
  <2>1. SameRecords
    BY <1>0, <1>5, UpdateFaultType, SameKeysRecords DEF LaunchFault, TcPoint
  <2>2. pc' = "idle" => cur'.key = NoKey
    BY <1>5 DEF LaunchFault, NoCur
  <2> QED BY <1>5, <2>1, <2>2
          DEF LedgerStep, PlainStep, CurrentKnown, LaunchFault, WorkPoint,
              LaunchPoint, TcPoint
<1>6. CASE LaunchComplete
  <2>1. SameRecords
    BY <1>0, <1>6, UpdateCompleteTimeType, SameKeysRecords
       DEF LaunchComplete, TcPoint
  <2>2. cur'.key = NoKey
    BY <1>6 DEF LaunchComplete, NoCur
  <2> QED BY <1>6, <2>1, <2>2
          DEF LedgerStep, PlainStep, CurrentKnown, LaunchComplete
<1> QED BY <1>1, <1>2, <1>3, <1>4, <1>5, <1>6 DEF Transfer

\* The steps of cwmp_inform.
LEMMA LedgerSession ==
  TypeInv /\ CurrentKnown /\ Session => LedgerStep
<1> SUFFICES ASSUME TypeInv, CurrentKnown, Session PROVE LedgerStep
  OBVIOUS
<1> USE DEF session, locals, queues, observed
<1>0. backup \in Backup /\ events \in Seq(Event)
  BY DEF TypeInv, TypeOK
<1>1. CASE RemoveAfterInform \/ RemoveAfterTransferComplete
  <2>1. SameRecords
    BY <1>0, <1>1, RemoveEventType, SameTransfersRecords
       DEF RemoveAfterInform, RemoveAfterTransferComplete
  <2> QED BY <1>1, <2>1
          DEF LedgerStep, PlainStep, CurrentKnown, AckedKeys,
              RemoveAfterInform, RemoveAfterTransferComplete, WorkPoint,
              LaunchPoint, TcPoint
<1>2. CASE \/ ClearNotifications \/ HandleMessages \/ EndReload \/ EndPlain
           \/ SessionSuccess
  BY <1>2
     DEF LedgerStep, PlainStep, SameRecords, TcKeys, CurrentKnown,
         ClearNotifications, HandleMessages, EndReload, EndPlain,
         SessionSuccess, WorkPoint, LaunchPoint, TcPoint
<1>3. CASE backup_remove_transfer_complete
  BY <1>3 DEF LedgerStep, OwnStep
<1>4. CASE RemoveMidDone
  <2>1. cur'.key = NoKey \/ (pc' = "rm_mid" /\ cur' = cur)
    BY <1>4 DEF RemoveMidDone, NoCur
  <2> QED BY <1>4, <2>1
          DEF LedgerStep, PlainStep, SameRecords, TcKeys, CurrentKnown,
              AckedKeys, RemoveMidDone, WorkPoint, LaunchPoint, TcPoint
<1>5. CASE EndFactoryReset
  <2>1. backup'.transfers = {} /\ backup'.tcs = <<>> /\ cur'.key = NoKey
    BY <1>5, NoBackupType DEF EndFactoryReset, ProcessGone, NoCur
  <2> QED BY <1>5, <2>1 DEF LedgerStep, DropStep, EndFactoryReset, ProcessGone
<1>6. CASE EndReboot
  BY <1>6 DEF LedgerStep, StopStep, EndReboot, ProcessGone
<1>7. CASE cwmp_retry_session
  <2>1. SameRecords
    <3>1. CASE AnyRemovable("NO_RETRY", 0)
      BY <1>0, <1>7, <3>1, RemoveEventType, SameTransfersRecords
         DEF cwmp_retry_session
    <3>2. CASE ~AnyRemovable("NO_RETRY", 0)
      BY <1>7, <3>2 DEF cwmp_retry_session, SameRecords, TcKeys
    <3> QED BY <3>1, <3>2
  <2> QED BY <1>7, <2>1
          DEF LedgerStep, PlainStep, CurrentKnown, cwmp_retry_session,
              WorkPoint, LaunchPoint, TcPoint
<1> QED BY <1>1, <1>2, <1>3, <1>4, <1>5, <1>6, <1>7 DEF Session

\* Answers and requests of the ACS.
LEMMA LedgerAcs ==
  TypeInv /\ CurrentKnown /\ (AcsAnswers \/ EmptyMessage \/ AcsRequests)
    => LedgerStep
<1> SUFFICES ASSUME TypeInv, CurrentKnown,
                    AcsAnswers \/ EmptyMessage \/ AcsRequests
             PROVE  LedgerStep
  OBVIOUS
<1> USE DEF session, locals, queues, observed
<1>0. backup \in Backup
  BY DEF TypeInv, TypeOK
<1>1. ASSUME NEW hold \in BOOLEAN,
             InformAnswered(hold) \/ GetRpcMethodsAnswered(hold)
      PROVE  LedgerStep
  BY <1>1
     DEF LedgerStep, PlainStep, SameRecords, TcKeys, CurrentKnown,
         InformAnswered, GetRpcMethodsAnswered, SendsGetRpcMethods, WorkPoint,
         LaunchPoint, TcPoint
<1>2. ASSUME NEW hold \in BOOLEAN, TransferCompleteAnswered(hold)
      PROVE  LedgerStep
  BY <1>2 DEF LedgerStep, OwnStep
<1>3. CASE EmptyMessage \/ HandleFactoryReset \/ \E url \in Urls : HandleSetUrl(url)
  BY <1>3
     DEF LedgerStep, PlainStep, SameRecords, TcKeys, CurrentKnown,
         EmptyMessage, HandleFactoryReset, HandleSetUrl, WorkPoint,
         LaunchPoint, TcPoint
<1>4. ASSUME NEW k \in Keys,
             HandleScheduleInform(k) \/ \E r \in Requests : HandleTransfer(r, k)
      PROVE  LedgerStep
  BY <1>4 DEF LedgerStep, OwnStep
<1>5. ASSUME NEW k \in Keys, HandleReboot(k)
      PROVE  LedgerStep
  <2>1. SameTransfers
    BY <1>0, <1>5 DEF HandleReboot, backup_add_event, SameTransfers, Backup
  <2> QED BY <1>5, <2>1, SameTransfersRecords
          DEF LedgerStep, PlainStep, CurrentKnown, HandleReboot, WorkPoint,
              LaunchPoint, TcPoint
<1> QED BY <1>1, <1>2, <1>3, <1>4, <1>5 DEF AcsAnswers, AcsRequests

\* Failed exchanges, exits and power cuts.
LEMMA LedgerFailures ==
  TypeInv /\ CurrentKnown /\ Failures => LedgerStep
<1> SUFFICES ASSUME TypeInv, CurrentKnown, Failures PROVE LedgerStep
  OBVIOUS
<1> USE DEF session, locals, queues, observed
<1>1. CASE ExchangeFails \/ Fault8005
  BY <1>1
     DEF LedgerStep, PlainStep, SameRecords, TcKeys, CurrentKnown,
         ExchangeFails, Fault8005, Exchanging, SendsTransferComplete,
         SendsGetRpcMethods, WorkPoint, LaunchPoint, TcPoint
<1>2. CASE ConfigLoadFails
  BY <1>2 DEF LedgerStep, StopStep, ConfigLoadFails, ProcessGone
<1>3. CASE Crash
  BY <1>3 DEF LedgerStep, StopStep, LoseStep, Crash, ProcessGone
<1>4. CASE CrashInSave
  <2>1. backup'.transfers = {} /\ backup'.tcs = <<>> /\ cur'.key = NoKey
    BY <1>4, NoBackupType DEF CrashInSave, ProcessGone, NoCur
  <2>2. pc = "x_tc" => cur.key # NoKey
    BY KeysAssumption DEF TypeInv, CurInv, LaunchPoint
  <2> QED BY <1>4, <2>1, <2>2 DEF LedgerStep, DropStep, CrashInSave, ProcessGone
<1> QED BY <1>1, <1>2, <1>3, <1>4 DEF Failures

\* Every step is of one of these kinds.
LEMMA LedgerSteps ==
  TypeInv /\ CurrentKnown /\ Next => LedgerStep
BY LedgerStartup, LedgerCallbacks, LedgerTransfer, LedgerSession, LedgerAcs,
   LedgerFailures
   DEF Next

----------------------------------------------------------------------------
\* The slots.

\* The file with no transfers has no slot in use.
LEMMA NoNodes ==
  ASSUME backup.transfers = {}
  PROVE  \A k \in Kind : Cardinality(NodesOfKind(k)) = 0
<1>1. \A k \in Kind : NodesOfKind(k) = {}
  BY DEF NodesOfKind
<1> QED BY <1>1, FS_EmptySet

\* A factory-new device satisfies the invariant.
LEMMA LedgerInit == Init => LedgerInv
<1> SUFFICES ASSUME Init PROVE LedgerInv
  OBVIOUS
<1>1. backup.transfers = {} /\ backup.tcs = <<>> /\ Len(backup.tcs) = 0
  BY NoBackupType, EmptySeq DEF Init
<1>2. TransferKeys = {} /\ TcKeys = {}
  BY <1>1 DEF TransferKeys, TcKeys, TransferKeysOf, TcKeysOf
<1>3. SlotInv
  BY <1>1, NoNodes, BoundsAssumption DEF Init, SlotInv
<1> QED BY <1>2, <1>3 DEF Init, LedgerInv, CurrentKnown, OwnerInv, NoCur

\* The slots stay as they are when neither list, counters nor elements change.
LEMMA SlotsKept ==
  ASSUME SlotInv, backup'.transfers = backup.transfers,
         UNCHANGED <<transfers, count>>, pc # "down", pc' # "x_remove"
  PROVE  SlotInv'
<1>1. \A k \in Kind : NodesOfKind(k)' = NodesOfKind(k)
  BY DEF NodesOfKind
<1> QED BY <1>1 DEF SlotInv, ListInStep

\* Steps that are about no transfer preserve the invariant.
LEMMA LedgerPlain == LedgerInv /\ PlainStep => LedgerInv'
<1> SUFFICES ASSUME LedgerInv, PlainStep PROVE LedgerInv'
  OBVIOUS
<1>1. /\ backup'.transfers = backup.transfers /\ TcKeys' = TcKeys
      /\ TransferKeys' = TransferKeys
  BY DEF PlainStep, SameRecords, TransferKeys, TransferKeysOf
<1>2. SlotInv'
  BY <1>1, SlotsKept DEF LedgerInv, PlainStep
<1> QED BY <1>1, <1>2 DEF LedgerInv, OwnerInv, PlainStep

\* So do the steps that end the process and keep the file.
LEMMA LedgerStop == LedgerInv /\ (StopStep \/ LoseStep) => LedgerInv'
<1> SUFFICES ASSUME LedgerInv, StopStep \/ LoseStep PROVE LedgerInv'
  OBVIOUS
<1>1. /\ pc' = "down" /\ cur'.key = NoKey /\ scheduled' = {}
      /\ UNCHANGED <<backup, used, accepted, acked, dropped>>
  BY DEF StopStep, LoseStep, NoCur
<1>2. UNCHANGED <<TransferKeys, TcKeys>>
  BY <1>1 DEF TransferKeys, TcKeys
<1>3. \A k \in Kind : NodesOfKind(k)' = NodesOfKind(k)
  BY <1>1 DEF NodesOfKind
<1>4. SlotInv'
  BY <1>1, <1>3 DEF LedgerInv, SlotInv
<1> QED BY <1>1, <1>2, <1>4 DEF LedgerInv, CurrentKnown, OwnerInv

\* The current key is on record, except between the two records.
LEMMA CurrentOnRecord ==
  ASSUME TypeInv, TransferInv, CurrentKnown
  PROVE  \/ cur.key = NoKey \/ pc = "x_tc"
         \/ cur.key \in TransferKeys \cup TcKeys \cup AckedKeys
         \/ pc = "m_scheduleinform" /\ cur.key \in scheduled
<1>1. CASE pc \in TcPoint
  <2>1. backup.tcs \in Seq(TransferComplete) /\ backup.tcs # <<>>
    BY <1>1 DEF TypeInv, TypeOK, CurInv, Backup
  <2>2. 1 \in 1..Len(backup.tcs) /\ Len(backup.tcs) \in 1..Len(backup.tcs)
    BY <2>1, EmptySeq
  <2>3. cur.key \in TcKeys
    BY <1>1, <2>2 DEF TransferInv, LaunchInv, TcPoint, TcKeys, TcKeysOf
  <2> QED BY <2>3
<1>2. CASE pc \notin TcPoint
  BY <1>2
     DEF TransferInv, LaunchInv, CurrentKnown, WorkPoint, LaunchPoint, TcPoint
<1> QED BY <1>1, <1>2

\* So does discarding the backup.
LEMMA LedgerDrop ==
  TypeInv /\ TransferInv /\ LedgerInv /\ DropStep => LedgerInv'
<1> SUFFICES ASSUME TypeInv, TransferInv, LedgerInv, DropStep PROVE LedgerInv'
  OBVIOUS
<1>1. backup'.transfers = {} /\ Len(backup'.tcs) = 0
  BY EmptySeq DEF DropStep
<1>2. TransferKeys' = {} /\ TcKeys' = {}
  BY <1>1 DEF TransferKeys, TcKeys, TransferKeysOf, TcKeysOf
<1>3. \A k \in Kind : Cardinality(NodesOfKind(k)') = 0
  <2>1. \A k \in Kind : NodesOfKind(k)' = {}
    BY <1>1 DEF NodesOfKind
  <2> QED BY <2>1, FS_EmptySet
<1>4. SlotInv'
  <2>1. \A k \in Kind : count'[k] = 0
    BY DEF DropStep
  <2> QED BY <1>1, <1>3, <2>1, BoundsAssumption
          DEF SlotInv, ListInStep, DropStep
<1>5. cur.key \in used \cup {NoKey}
  BY CurrentOnRecord DEF TransferInv, ListInv, LedgerInv, OwnerInv
<1>6. dropped' \subseteq used
  BY <1>5 DEF DropStep, TransferInv, ListInv, LedgerInv, OwnerInv
<1>7. OwnerInv'
  BY <1>2, <1>6 DEF DropStep, OwnerInv
<1>8. CurrentKnown'
  BY DEF DropStep, CurrentKnown
<1> QED BY <1>4, <1>7, <1>8 DEF LedgerInv

\* The keys that steps about one transfer may leave alone.
LEMMA SameFile ==
  ASSUME UNCHANGED backup
  PROVE  /\ UNCHANGED <<TransferKeys, TcKeys>>
         /\ \A k \in Kind : NodesOfKind(k)' = NodesOfKind(k)
BY DEF TransferKeys, TcKeys, NodesOfKind

\* backup_load_download and backup_load_upload fill the lists from the file.
LEMMA LedgerBackupInit ==
  TypeInv /\ LedgerInv /\ BackupInit => LedgerInv'
<1> SUFFICES ASSUME TypeInv, LedgerInv, BackupInit PROVE LedgerInv'
  OBVIOUS
<1> USE DEF session, locals, observed
<1> DEFINE Entry(n) == [key |-> n.key, kind |-> n.kind, armed |-> TRUE]
<1>1. /\ pc' = "load_event" /\ transfers' = {Entry(n) : n \in backup.transfers}
      /\ count' = CountsOf(backup.transfers)
      /\ UNCHANGED <<backup, cur, scheduled, used, accepted, acked, dropped>>
      /\ cur.key = NoKey
  BY
     DEF BackupInit, LedgerInv, CurrentKnown, WorkPoint, LaunchPoint, TcPoint
<1>2. /\ UNCHANGED <<TransferKeys, TcKeys>>
      /\ \A k \in Kind : NodesOfKind(k)' = NodesOfKind(k)
  BY <1>1, SameFile
<1>3. ASSUME NEW n \in backup.transfers
      PROVE  NodeOf(Entry(n)) = n /\ Entry(n).key = n.key
  <2>1. n \in TransferNode
    BY DEF TypeInv, TypeOK, Backup
  <2> QED BY <2>1 DEF NodeOf, TransferNode
<1> HIDE DEF Entry
<1>4. {NodeOf(t) : t \in transfers'} = backup.transfers
  BY <1>1, <1>3
<1>5. \A t, u \in transfers' : t.key = u.key => t = u
  BY <1>1, <1>3 DEF LedgerInv, SlotInv
<1>6. \A k \in Kind : count'[k] = Cardinality(NodesOfKind(k))
  BY <1>1 DEF CountsOf, NodesOfKind
<1>7. SlotInv'
  BY <1>1, <1>2, <1>4, <1>5, <1>6 DEF LedgerInv, SlotInv, ListInStep
<1>8. CurrentKnown'
  BY <1>1 DEF CurrentKnown
<1>9. OwnerInv'
  BY <1>1, <1>2 DEF LedgerInv, OwnerInv
<1> QED BY <1>7, <1>8, <1>9 DEF LedgerInv

\* A launch that fails to start spends a timer and keeps the entry.
LEMMA LedgerLaunchFails ==
  ASSUME TypeInv, LedgerInv, NEW t \in transfers, LaunchFails(t)
  PROVE  LedgerInv'
<1> USE DEF session, locals, observed
<1> DEFINE u == [t EXCEPT !.armed = FALSE]
<1>1. /\ pc = "idle" /\ pc' = "idle" /\ transfers' = (transfers \ {t}) \cup {u}
      /\ UNCHANGED <<backup, cur, count, scheduled, used, accepted, acked,
                     dropped>>
  BY DEF LaunchFails
<1>2. /\ UNCHANGED <<TransferKeys, TcKeys>>
      /\ \A k \in Kind : NodesOfKind(k)' = NodesOfKind(k)
  BY <1>1, SameFile
<1>3. u.key = t.key /\ NodeOf(u) = NodeOf(t)
  <2>1. t \in [key : Keys, kind : Kind, armed : BOOLEAN]
    BY DEF TypeInv, TypeOK
  <2> QED BY <2>1 DEF NodeOf
<1> HIDE DEF u
<1>4. ListInStep
  BY <1>1 DEF LedgerInv, SlotInv
<1>5. {NodeOf(v) : v \in transfers'} = {NodeOf(v) : v \in transfers}
  BY <1>1, <1>3
<1>6. \A v, w \in transfers' : v.key = w.key => v = w
  BY <1>1, <1>3, <1>4 DEF ListInStep
<1>7. ListInStep'
  BY <1>1, <1>2, <1>4, <1>5, <1>6 DEF ListInStep
<1>8. SlotInv'
  BY <1>1, <1>2, <1>7 DEF LedgerInv, SlotInv
<1>9. CurrentKnown'
  BY <1>1 DEF LedgerInv, CurrentKnown, WorkPoint, LaunchPoint, TcPoint
<1>10. OwnerInv'
  BY <1>1, <1>2 DEF LedgerInv, OwnerInv
<1> QED BY <1>8, <1>9, <1>10 DEF LedgerInv

\* The transfer that is launched is the file's element of its key.
LEMMA LedgerLaunch ==
  ASSUME TypeInv, LedgerInv, NEW t \in transfers, NEW fault \in BOOLEAN,
         Launch(t, fault)
  PROVE  LedgerInv'
<1> USE DEF session, locals, queues, observed
<1>1. /\ pc = "idle" /\ pc' = "x_remove" /\ NodeOf(cur') = NodeOf(t)
      /\ UNCHANGED <<backup, transfers, count, scheduled, used, accepted, acked,
                     dropped>>
  BY DEF Launch, NodeOf
<1>2. /\ UNCHANGED <<TransferKeys, TcKeys>>
      /\ \A k \in Kind : NodesOfKind(k)' = NodesOfKind(k)
  BY <1>1, SameFile
<1>3. ListInStep /\ NodeOf(t) \in backup.transfers
  BY <1>1 DEF LedgerInv, SlotInv, ListInStep
<1>4. ListInStep'
  BY <1>1, <1>2, <1>3 DEF ListInStep
<1>5. SlotInv'
  <2>1. NodeOf(cur)' = NodeOf(cur')
    BY DEF NodeOf
  <2> QED BY <1>1, <1>2, <1>3, <1>4, <2>1 DEF LedgerInv, SlotInv
<1>6. CurrentKnown'
  BY <1>1 DEF CurrentKnown, WorkPoint, LaunchPoint
<1>7. OwnerInv'
  BY <1>1, <1>2 DEF LedgerInv, OwnerInv
<1> QED BY <1>5, <1>6, <1>7 DEF LedgerInv

\* list_del, count-- and the removal of the element go together.
LEMMA LedgerLaunchRemove ==
  TypeInv /\ TransferInv /\ LedgerInv /\ LaunchRemove => LedgerInv'
<1> SUFFICES ASSUME TypeInv, TransferInv, LedgerInv, LaunchRemove
             PROVE  LedgerInv'
  OBVIOUS
<1> USE DEF session, locals, observed
<1> DEFINE node == NodeOf(cur)
<1>1. /\ pc = "x_remove" /\ pc' = "x_tc"
      /\ transfers' = {t \in transfers : t.key # cur.key}
      /\ count' = [count EXCEPT ![cur.kind] = @ - 1]
      /\ UNCHANGED <<cur, scheduled, used, accepted, acked, dropped>>
  BY DEF LaunchRemove
<1>2. /\ backup'.transfers = {n \in backup.transfers : n.key # cur.key}
      /\ backup'.tcs = backup.tcs
  BY DEF LaunchRemove, backup_remove_transfer, TypeInv, TypeOK, Backup
<1>3. /\ node \in backup.transfers /\ node.key = cur.key /\ node.kind = cur.kind
      /\ cur.kind \in Kind /\ ListInStep
      /\ \A n \in backup.transfers : n.key = cur.key => n = node
      /\ count \in [Kind -> Int] /\ IsFiniteSet(backup.transfers)
  BY <1>1 DEF LedgerInv, SlotInv, NodeOf, TypeInv, TypeOK, CurInv
<1> HIDE DEF node
<1>4. backup'.transfers = backup.transfers \ {node}
  BY <1>2, <1>3
<1>5. ASSUME NEW k \in Kind
      PROVE  /\ Cardinality(NodesOfKind(k)') = count'[k]
             /\ Cardinality(NodesOfKind(k)') <= MaxTransfer
  <2>1. IsFiniteSet(NodesOfKind(k)) /\ Cardinality(NodesOfKind(k)) \in Nat
    <3>1. NodesOfKind(k) \in SUBSET backup.transfers
      BY DEF NodesOfKind
    <3>2. IsFiniteSet(NodesOfKind(k))
      BY <1>3, <3>1, FS_Subset
    <3> QED BY <3>2, FS_CardinalityType
  <2>2. NodesOfKind(k)' = NodesOfKind(k) \ {node}
    BY <1>4 DEF NodesOfKind
  <2>3. node \in NodesOfKind(k) <=> k = cur.kind
    BY <1>3 DEF NodesOfKind
  <2>4. count'[k] = IF k = cur.kind THEN count[k] - 1 ELSE count[k]
    BY <1>1, <1>3
  <2>5. /\ count[k] = Cardinality(NodesOfKind(k))
        /\ Cardinality(NodesOfKind(k)) <= MaxTransfer
    BY <1>3 DEF ListInStep, LedgerInv, SlotInv
  <2>6. Cardinality(NodesOfKind(k)') =
          IF node \in NodesOfKind(k) THEN Cardinality(NodesOfKind(k)) - 1
                                     ELSE Cardinality(NodesOfKind(k))
    BY <2>1, <2>2, FS_RemoveElement
  <2> QED BY <2>1, <2>3, <2>4, <2>5, <2>6, BoundsAssumption
<1>6. {NodeOf(t) : t \in transfers'} = backup'.transfers
  <2>1. \A t \in transfers : NodeOf(t).key = t.key
    BY DEF NodeOf
  <2> QED BY <1>1, <1>2, <1>3, <2>1 DEF ListInStep
<1>7. \A t, u \in transfers' : t.key = u.key => t = u
  BY <1>1, <1>3 DEF ListInStep
<1>8. SlotInv'
  <2>1. ListInStep'
    BY <1>5, <1>6, <1>7 DEF ListInStep
  <2> QED BY <1>1, <1>2, <1>5, <2>1 DEF LedgerInv, SlotInv
<1>9. /\ TransferKeys' = TransferKeys \ {cur.key} /\ TcKeys' = TcKeys
      /\ cur.key \in TransferKeys
  BY <1>2, <1>3 DEF TransferKeys, TcKeys, TransferKeysOf, TcKeysOf
<1>10. CurrentKnown'
  BY <1>1 DEF CurrentKnown, WorkPoint, LaunchPoint
<1>11. OwnerInv'
  BY <1>1, <1>9 DEF LedgerInv, OwnerInv
<1> QED BY <1>8, <1>10, <1>11 DEF LedgerInv

\* backup_add_transfer_complete records a key that was accepted.
LEMMA LedgerAddTransferComplete ==
  TypeInv /\ LedgerInv /\ LaunchAddTransferComplete =>
    /\ LedgerInv'
    /\ backup'.transfers = backup.transfers
    /\ TcKeys' = TcKeys \cup {cur.key}
<1> SUFFICES ASSUME TypeInv, LedgerInv, LaunchAddTransferComplete
             PROVE  /\ LedgerInv'
                    /\ backup'.transfers = backup.transfers
                    /\ TcKeys' = TcKeys \cup {cur.key}
  OBVIOUS
<1> USE DEF session, locals, observed
<1>1. /\ pc = "x_tc" /\ pc' = "x_event"
      /\ backup' = backup_add_transfer_complete(backup, cur.key, NextMethodId)
      /\ UNCHANGED <<cur, transfers, count, scheduled, used, accepted, acked,
                     dropped>>
  BY DEF LaunchAddTransferComplete
<1>2. /\ cur.key \in Keys /\ NextMethodId \in Nat /\ backup \in Backup
      /\ Len(backup.tcs) \in Nat
  BY <1>1
     DEF TypeInv, TypeOK, CurInv, LaunchPoint, NextMethodId, Backup
<1>3. Appended(backup, backup', cur.key)
  BY <1>1, <1>2, AddTransferCompleteType
<1>4. backup'.transfers = backup.transfers /\ TcKeys' = TcKeys \cup {cur.key}
  <2>1. 1..Len(backup'.tcs) = 1..Len(backup.tcs) \cup {Len(backup.tcs) + 1}
    BY <1>2, <1>3 DEF Appended
  <2> QED BY <1>3, <2>1 DEF Appended, TcKeys, TcKeysOf
<1>5. TransferKeys' = TransferKeys
  BY <1>4 DEF TransferKeys, TransferKeysOf
<1>6. SlotInv'
  BY <1>1, <1>4, SlotsKept DEF LedgerInv
<1>7. CurrentKnown'
  BY <1>1 DEF CurrentKnown, WorkPoint, LaunchPoint
<1>8. OwnerInv'
  BY <1>1, <1>4, <1>5 DEF LedgerInv, OwnerInv
<1> QED BY <1>4, <1>6, <1>7, <1>8 DEF LedgerInv

\* An answered TransferComplete stays on file for the moment.
LEMMA LedgerAnswered ==
  ASSUME TypeInv, LedgerInv, NEW hold \in BOOLEAN,
         TransferCompleteAnswered(hold)
  PROVE  /\ LedgerInv'
         /\ \E k \in TcKeys : AckedKeys' = AckedKeys \cup {k}
<1> USE DEF session, queues
<1> DEFINE tc == Head(backup.tcs)
           report == <<tc.key, tc.fault>>
<1>1. report[1] = tc.key
  OBVIOUS
<1>2. tc.key \in TcKeys
  <2>1. backup.tcs # <<>> /\ backup.tcs \in Seq(TransferComplete)
    BY DEF TransferCompleteAnswered, SendsTransferComplete, TypeInv, TypeOK,
           Backup
  <2>2. tc = backup.tcs[1] /\ 1 \in 1..Len(backup.tcs)
    BY <2>1, EmptySeq
  <2> QED BY <2>2 DEF TcKeys, TcKeysOf
<1> HIDE DEF tc, report
<1>3. /\ pc = "loop" /\ pc' = "tc_remove" /\ acked' = acked \cup {report}
      /\ UNCHANGED <<backup, transfers, count, scheduled, used, accepted,
                     dropped>>
  BY DEF TransferCompleteAnswered, SendsTransferComplete, tc, report
<1>4. AckedKeys' = AckedKeys \cup {tc.key}
  BY <1>1, <1>3 DEF AckedKeys
<1>5. UNCHANGED <<TransferKeys, TcKeys>>
  BY <1>3, SameFile
<1>6. SlotInv'
  BY <1>3, SlotsKept DEF LedgerInv
<1>7. CurrentKnown'
  BY <1>3 DEF CurrentKnown, WorkPoint, TcPoint
<1>8. OwnerInv'
  BY <1>3, <1>5 DEF LedgerInv, OwnerInv
<1> QED BY <1>2, <1>4, <1>6, <1>7, <1>8 DEF LedgerInv

\* backup_remove_transfer_complete removes an answered TransferComplete only.
LEMMA LedgerRemoveTransferComplete ==
  TypeInv /\ TransferInv /\ LedgerInv /\ backup_remove_transfer_complete =>
    /\ LedgerInv'
    /\ backup'.transfers = backup.transfers
    /\ TcKeys' \subseteq TcKeys /\ TcKeys \ TcKeys' \subseteq AckedKeys
<1> SUFFICES ASSUME TypeInv, TransferInv, LedgerInv,
                    backup_remove_transfer_complete
             PROVE  /\ LedgerInv'
                    /\ backup'.transfers = backup.transfers
                    /\ TcKeys' \subseteq TcKeys
                    /\ TcKeys \ TcKeys' \subseteq AckedKeys
  OBVIOUS
<1> USE DEF session, locals, queues, observed
<1> DEFINE n == Len(backup.tcs)
<1>1. /\ pc = "tc_remove" /\ pc' = "rm_mid"
      /\ backup' = backup_remove_first_transfer_complete(backup)
      /\ UNCHANGED <<cur, transfers, count, scheduled, used, accepted, acked,
                     dropped>>
  BY DEF backup_remove_transfer_complete
<1>2. /\ backup'.transfers = backup.transfers /\ n \in Nat \ {0}
      /\ Len(backup'.tcs) = n - 1
      /\ \A i \in 1..(n - 1) : backup'.tcs[i] = backup.tcs[i + 1]
  <2>1. backup \in Backup /\ backup.tcs # <<>>
    BY <1>1 DEF TypeInv, TypeOK, CurInv, TcPoint
  <2> QED BY <1>1, <2>1, RemoveFirstTransferCompleteType
<1>3. backup.tcs[1].key \in AckedKeys /\ cur.key \in AckedKeys
  BY <1>1 DEF TransferInv, LaunchInv
<1>4. TcKeys' \subseteq TcKeys
  <2>1. ASSUME NEW i \in 1..Len(backup'.tcs)
        PROVE  backup'.tcs[i].key \in TcKeys
    <3>1. i \in 1..(n - 1) /\ i + 1 \in 1..n
      BY <1>2
    <3>2. backup'.tcs[i] = backup.tcs[i + 1]
      BY <1>2, <3>1
    <3> QED BY <3>1, <3>2 DEF TcKeys, TcKeysOf
  <2> QED BY <2>1 DEF TcKeys, TcKeysOf
<1>5. TcKeys \ TcKeys' \subseteq AckedKeys
  <2>1. ASSUME NEW i \in 1..n
        PROVE  backup.tcs[i].key \in TcKeys' \cup AckedKeys
    <3>1. CASE i = 1
      BY <1>3, <3>1
    <3>2. CASE i # 1
      <4>1. i - 1 \in 1..(n - 1) /\ (i - 1) + 1 = i
        BY <1>2, <3>2
      <4>2. backup'.tcs[i - 1] = backup.tcs[i] /\ i - 1 \in 1..Len(backup'.tcs)
        BY <1>2, <4>1
      <4> QED BY <4>2 DEF TcKeys, TcKeysOf
    <3> QED BY <3>1, <3>2
  <2> QED BY <2>1 DEF TcKeys, TcKeysOf
<1>6. TransferKeys' = TransferKeys /\ AckedKeys' = AckedKeys
  BY <1>1, <1>2 DEF TransferKeys, TransferKeysOf, AckedKeys
<1>7. SlotInv'
  BY <1>1, <1>2, SlotsKept DEF LedgerInv
<1>8. CurrentKnown'
  BY <1>1, <1>3, <1>6 DEF CurrentKnown
<1>9. OwnerInv'
  BY <1>1, <1>4, <1>6 DEF LedgerInv, OwnerInv
<1> QED BY <1>2, <1>4, <1>5, <1>7, <1>8, <1>9 DEF LedgerInv

\* A ScheduleInform uses a key that no transfer has.
LEMMA LedgerScheduleInform ==
  ASSUME TransferInv, LedgerInv, NEW k \in Keys, HandleScheduleInform(k)
  PROVE  LedgerInv'
<1> USE DEF session, locals, observed
<1>1. /\ pc = "messages" /\ pc' = pc /\ k \notin used
      /\ used' = used \cup {k} /\ scheduled' = scheduled \cup {k}
      /\ UNCHANGED <<backup, cur, transfers, count, accepted, acked, dropped>>
  BY DEF HandleScheduleInform, FreshKey
<1>2. UNCHANGED <<TransferKeys, TcKeys>>
  BY <1>1, SameFile
<1>3. k \notin accepted
  BY <1>1 DEF TransferInv, ListInv
<1>4. SlotInv'
  BY <1>1, SlotsKept DEF LedgerInv
<1>5. CurrentKnown'
  BY <1>1 DEF LedgerInv, CurrentKnown, WorkPoint, LaunchPoint, TcPoint
<1>6. OwnerInv'
  BY <1>1, <1>2, <1>3 DEF LedgerInv, OwnerInv
<1> QED BY <1>4, <1>5, <1>6 DEF LedgerInv

\* A free slot of the kind was taken for the new key k.
SlotTaken(k, kind) ==
  /\ k \notin used /\ count[kind] < MaxTransfer
  /\ backup'.transfers = backup.transfers \cup {[key |-> k, kind |-> kind]}
  /\ TcKeys' = TcKeys
  /\ accepted' = accepted \cup {k}

\* xml_handle_download and xml_handle_upload take a slot or refuse.
LEMMA LedgerHandleTransfer ==
  ASSUME TypeInv, TransferInv, LedgerInv, NEW k \in Keys, NEW r \in Requests,
         HandleTransfer(r, k)
  PROVE  /\ LedgerInv'
         /\ \/ UNCHANGED <<backup, accepted>>
            \/ \E kind \in Kind : SlotTaken(k, kind)
<1> USE DEF session, locals, observed
<1> DEFINE kind == KindOf[r]
           node == [key |-> k, kind |-> kind]
           entry == [key |-> k, kind |-> kind, armed |-> TRUE]
<1>1. kind \in Kind
  BY DEF HandleTransfer, KindOf, Kind
<1> HIDE DEF kind
<1>2. /\ pc = "messages" /\ pc' = pc /\ k \notin used /\ used' = used \cup {k}
      /\ UNCHANGED <<cur, scheduled, acked, dropped>>
  BY DEF HandleTransfer, FreshKey
<1>3. k \notin TransferKeys \cup accepted \cup scheduled \cup dropped
  BY <1>2 DEF TransferInv, ListInv, LedgerInv, OwnerInv
<1>4. CurrentKnown'
  BY <1>2 DEF LedgerInv, CurrentKnown, WorkPoint, LaunchPoint, TcPoint
<1>5. CASE count[kind] >= MaxTransfer
  <2>1. UNCHANGED <<backup, transfers, count, accepted>>
    BY <1>5 DEF HandleTransfer, kind
  <2>2. UNCHANGED <<TransferKeys, TcKeys>>
    BY <2>1, SameFile
  <2>3. SlotInv'
    BY <1>2, <2>1, SlotsKept DEF LedgerInv
  <2>4. OwnerInv'
    BY <1>2, <2>1, <2>2 DEF LedgerInv, OwnerInv
  <2> QED BY <1>4, <2>1, <2>3, <2>4 DEF LedgerInv
<1>6. CASE ~(count[kind] >= MaxTransfer)
  <2>1. /\ backup' = backup_add_transfer(backup, k, kind)
        /\ transfers' = transfers \cup {entry}
        /\ count' = [count EXCEPT ![kind] = @ + 1]
        /\ accepted' = accepted \cup {k}
    BY <1>6 DEF HandleTransfer, kind
  <2>2. /\ backup'.transfers = backup.transfers \cup {node}
        /\ backup'.tcs = backup.tcs
    BY <2>1 DEF backup_add_transfer, TypeInv, TypeOK, Backup
  <2>3. /\ node.key = k /\ node.kind = kind /\ entry.key = k
        /\ NodeOf(entry) = node
    BY DEF NodeOf
  <2>4. SlotTaken(k, kind)
    <3>1. count[kind] < MaxTransfer
      BY <1>1, <1>6, BoundsAssumption DEF TypeInv, TypeOK
    <3> QED BY <1>2, <2>1, <2>2, <3>1 DEF SlotTaken, TcKeys, TcKeysOf
  <2> HIDE DEF node, entry
  <2>5. ListInStep /\ count \in [Kind -> Int] /\ IsFiniteSet(backup.transfers)
    BY <1>2 DEF LedgerInv, SlotInv, TypeInv, TypeOK, CurInv
  <2>6. \A n \in backup.transfers : n.key # k
    BY <1>3 DEF TransferKeys, TransferKeysOf
  <2>7. \A t \in transfers : t.key # k
    BY <1>3 DEF TransferInv, ListInv
  <2>8. ASSUME NEW j \in Kind
        PROVE  /\ Cardinality(NodesOfKind(j)') = count'[j]
               /\ Cardinality(NodesOfKind(j)') <= MaxTransfer
    <3>1. IsFiniteSet(NodesOfKind(j)) /\ Cardinality(NodesOfKind(j)) \in Nat
      <4>1. NodesOfKind(j) \in SUBSET backup.transfers
        BY DEF NodesOfKind
      <4>2. IsFiniteSet(NodesOfKind(j))
        BY <2>5, <4>1, FS_Subset
      <4> QED BY <4>2, FS_CardinalityType
    <3>2. count'[j] = IF j = kind THEN count[j] + 1 ELSE count[j]
      BY <1>1, <2>1, <2>5
    <3>3. /\ count[j] = Cardinality(NodesOfKind(j))
          /\ Cardinality(NodesOfKind(j)) <= MaxTransfer
      BY <2>5 DEF ListInStep, LedgerInv, SlotInv
    <3>4. CASE j = kind
      <4>1. NodesOfKind(j)' = NodesOfKind(j) \cup {node}
        BY <2>2, <2>3, <3>4 DEF NodesOfKind
      <4>2. node \notin NodesOfKind(j)
        BY <2>3, <2>6 DEF NodesOfKind
      <4>3. Cardinality(NodesOfKind(j)') = Cardinality(NodesOfKind(j)) + 1
        BY <3>1, <4>1, <4>2, FS_AddElement
      <4>4. count[j] < MaxTransfer
        BY <2>4, <3>4 DEF SlotTaken
      <4> QED BY <3>1, <3>2, <3>3, <3>4, <4>3, <4>4, BoundsAssumption
    <3>5. CASE j # kind
      <4>1. NodesOfKind(j)' = NodesOfKind(j)
        BY <2>2, <2>3, <3>5 DEF NodesOfKind
      <4> QED BY <3>2, <3>3, <3>5, <4>1
    <3> QED BY <3>4, <3>5
  <2>9. SlotInv'
    <3>1. {NodeOf(t) : t \in transfers'} = backup'.transfers
      BY <2>1, <2>2, <2>3, <2>5 DEF ListInStep
    <3>2. \A t, u \in transfers' : t.key = u.key => t = u
      BY <2>1, <2>3, <2>5, <2>7 DEF ListInStep
    <3>3. ListInStep'
      BY <2>8, <3>1, <3>2 DEF ListInStep
    <3>4. \A n, o \in backup'.transfers : n.key = o.key => n = o
      BY <2>2, <2>3, <2>6 DEF LedgerInv, SlotInv
    <3> QED BY <1>2, <2>8, <3>3, <3>4 DEF SlotInv
  <2>10. TransferKeys' = TransferKeys \cup {k}
    BY <2>2, <2>3 DEF TransferKeys, TransferKeysOf
  <2>11. OwnerInv'
    BY <1>2, <1>3, <2>4, <2>10 DEF SlotTaken, LedgerInv, OwnerInv
  <2> QED BY <1>1, <1>4, <2>4, <2>9, <2>11 DEF LedgerInv
<1> QED BY <1>5, <1>6

\* The steps about one transfer preserve the invariant.
LEMMA LedgerOwn == TypeInv /\ TransferInv /\ LedgerInv /\ OwnStep => LedgerInv'
BY LedgerBackupInit, LedgerLaunchFails, LedgerLaunch, LedgerLaunchRemove,
   LedgerAddTransferComplete, LedgerAnswered, LedgerRemoveTransferComplete,
   LedgerHandleTransfer, LedgerScheduleInform
   DEF OwnStep

\* Nor does a stuttering step break it.
LEMMA LedgerStutter == LedgerInv /\ UNCHANGED vars => LedgerInv'
<1> SUFFICES ASSUME LedgerInv, UNCHANGED vars PROVE LedgerInv'
  OBVIOUS
<1>1. UNCHANGED <<backup, pc, cur, transfers, count, scheduled, used, accepted,
                  acked, dropped>>
  BY DEF vars, locals, queues, observed
<1>2. /\ UNCHANGED <<TransferKeys, TcKeys, AckedKeys>>
      /\ \A k \in Kind : NodesOfKind(k)' = NodesOfKind(k)
  BY <1>1, SameFile DEF AckedKeys
<1>3. SlotInv'
  BY <1>1, <1>2 DEF LedgerInv, SlotInv, ListInStep, NodeOf
<1> QED BY <1>1, <1>2, <1>3 DEF LedgerInv, CurrentKnown, OwnerInv

\* The invariant is inductive.
LEMMA LedgerStepPreserves ==
  TypeInv /\ TransferInv /\ LedgerInv /\ [Next]_vars => LedgerInv'
<1> SUFFICES ASSUME TypeInv, TransferInv, LedgerInv, [Next]_vars
             PROVE  LedgerInv'
  OBVIOUS
<1>1. CASE Next
  <2>1. LedgerStep
    BY <1>1, LedgerSteps DEF LedgerInv
  <2> QED BY <2>1, LedgerPlain, LedgerStop, LedgerDrop, LedgerOwn
          DEF LedgerStep
<1>2. CASE UNCHANGED vars
  BY <1>2, LedgerStutter
<1> QED BY <1>1, <1>2

\* The three invariants together.
FullInv == TypeInv /\ TransferInv /\ LedgerInv

\* They hold in every reachable state.
LEMMA LedgerInvariance == Spec => []FullInv
BY TypeInit, TypeStep, TransferInit, TransferStep, LedgerInit,
   LedgerStepPreserves, PTL
   DEF Spec, FullInv

\* The counters are the lengths of the lists: an entry is determined by its
\* key, so the list has as many entries of a kind as the file has elements.
LEMMA CountIsLength ==
  ASSUME TypeInv, ListInStep, NEW k \in Kind
  PROVE  Cardinality({t \in transfers : t.kind = k}) = Cardinality(NodesOfKind(k))
<1> DEFINE S == {t \in transfers : t.kind = k}
           f == [t \in S |-> NodeOf(t)]
<1>1. \A t \in transfers : NodeOf(t).key = t.key /\ NodeOf(t).kind = t.kind
  BY DEF NodeOf
<1>2. f \in [S -> NodesOfKind(k)]
  BY <1>1 DEF ListInStep, NodesOfKind
<1>3. \A t, u \in S : f[t] = f[u] => t = u
  BY <1>1 DEF ListInStep
<1>4. \A n \in NodesOfKind(k) : \E t \in S : f[t] = n
  BY <1>1 DEF ListInStep, NodesOfKind
<1>5. f \in Bijection(S, NodesOfKind(k))
  BY <1>2, <1>3, <1>4, Fun_IsBij
<1>6. IsFiniteSet(NodesOfKind(k))
  <2>1. NodesOfKind(k) \in SUBSET backup.transfers
    BY DEF NodesOfKind
  <2> QED BY <2>1, FS_Subset DEF TypeInv, CurInv
<1>7. ExistsBijection(NodesOfKind(k), S)
  BY <1>5, Fun_ExistsBijSymmetric DEF ExistsBijection
<1> QED BY <1>6, <1>7, FS_Bijection

\* download_count and upload_count are the lengths of their lists and never
\* pass MAX_DOWNLOAD and MAX_UPLOAD, and the lists are what the file holds,
\* for any number of transfers, slots and restarts: cwmp_download_launch frees
\* exactly the slot that xml_handle_download took, and backup_init counts again
\* exactly what was not executed.
THEOREM SlotsAreAccounted == Spec => []SlotAccounting
<1>1. FullInv => SlotAccounting
  <2> SUFFICES ASSUME FullInv, pc # "down"
               PROVE  /\ {NodeOf(t) : t \in transfers} = backup.transfers
                      /\ \A k \in Kind :
                           /\ count[k] = Cardinality({t \in transfers : t.kind = k})
                           /\ count[k] <= MaxTransfer
    BY DEF SlotAccounting, NodeOf
  <2>1. ListInStep /\ SlotInv /\ TypeInv
    BY DEF FullInv, LedgerInv, SlotInv
  <2> QED BY <2>1, CountIsLength DEF ListInStep, SlotInv
<1> QED BY <1>1, LedgerInvariance, PTL

----------------------------------------------------------------------------
\* The refinement of TransferLedger.

\* The refinement mapping.
Shown == [k \in Keys |-> LedgerStatus(k)]

\* What is shown of a transfer that has no record on file.
OffRecord(k) ==
  IF pc = "x_tc" /\ k = cur.key THEN cur.kind
  ELSE IF k \in accepted \cap dropped THEN "dropped"
  ELSE IF k \in accepted THEN "lost" ELSE "none"

\* The mapping, record by record.
ShownByRecord ==
  \A k \in Keys :
    /\ k \in AckedKeys => Shown[k] = "reported"
    /\ k \in TcKeys \ AckedKeys => Shown[k] = "done"
    /\ \A n \in backup.transfers : n.key = k => Shown[k] = n.kind
    /\ k \notin AckedKeys \cup TcKeys \cup TransferKeys => Shown[k] = OffRecord(k)

\* Keys are unique, so the record determines what is shown.
LEMMA ShownFacts == FullInv => ShownByRecord
<1> SUFFICES ASSUME FullInv, NEW k \in Keys
             PROVE  /\ k \in AckedKeys => Shown[k] = "reported"
                    /\ k \in TcKeys \ AckedKeys => Shown[k] = "done"
                    /\ \A n \in backup.transfers : n.key = k => Shown[k] = n.kind
                    /\ k \notin AckedKeys \cup TcKeys \cup TransferKeys =>
                         Shown[k] = OffRecord(k)
  BY DEF ShownByRecord
<1>0. Shown[k] = LedgerStatus(k)
  BY DEF Shown
<1>1. k \in AckedKeys => LedgerStatus(k) = "reported"
  BY DEF LedgerStatus
<1>2. k \in TcKeys \ AckedKeys => LedgerStatus(k) = "done"
  BY DEF LedgerStatus
<1>3. ASSUME NEW n \in backup.transfers, n.key = k
      PROVE  LedgerStatus(k) = n.kind
  <2>1. (CHOOSE t \in backup.transfers : t.key = k) = n
    <3>1. \A t \in backup.transfers : t.key = k => t = n
      BY <1>3 DEF FullInv, LedgerInv, SlotInv
    <3> QED BY <1>3, <3>1
  <2>2. k \in TransferKeys \ (TcKeys \cup AckedKeys)
    BY <1>3 DEF FullInv, TransferInv, TransferOnce, TransferKeys, TransferKeysOf
  <2> QED BY <2>1, <2>2 DEF LedgerStatus
<1>4. k \notin AckedKeys \cup TcKeys \cup TransferKeys =>
        LedgerStatus(k) = OffRecord(k)
  BY DEF LedgerStatus, OffRecord
<1> QED BY <1>0, <1>1, <1>2, <1>3, <1>4

\* A transfer is waiting for execution exactly when its kind is shown.
LEMMA ShownWaiting ==
  ASSUME FullInv, NEW k \in Keys
  PROVE  /\ pc # "x_tc" /\ Shown[k] \in Kind =>
              \E n \in backup.transfers : n.key = k /\ n.kind = Shown[k]
         /\ Shown[k] \in Kind \cup {"done"} =>
              \/ k \in TransferKeys \cup TcKeys
              \/ pc = "x_tc" /\ k = cur.key
<1>1. ShownByRecord
  BY ShownFacts
<1>2. CASE k \in AckedKeys \cup TcKeys
  BY <1>1, <1>2 DEF ShownByRecord, Kind
<1>3. CASE k \in TransferKeys
  <2>1. PICK n \in backup.transfers : n.key = k
    BY <1>3 DEF TransferKeys, TransferKeysOf
  <2> QED BY <1>1, <1>3, <2>1 DEF ShownByRecord
<1>4. CASE k \notin AckedKeys \cup TcKeys \cup TransferKeys
  BY <1>1, <1>4 DEF ShownByRecord, OffRecord, Kind
<1> QED BY <1>2, <1>3, <1>4

\* Factory-new, nothing was accepted.
LEMMA ShownInit == Init => Ledger!Init
<1> SUFFICES ASSUME Init PROVE Ledger!Init
  OBVIOUS
<1>1. backup.transfers = {} /\ Len(backup.tcs) = 0
  BY NoBackupType, EmptySeq DEF Init
<1>2. TransferKeys = {} /\ TcKeys = {} /\ AckedKeys = {}
  BY <1>1 DEF Init, TransferKeys, TcKeys, TransferKeysOf, TcKeysOf, AckedKeys
<1>3. \A k \in Keys : LedgerStatus(k) = "none"
  BY <1>2 DEF Init, LedgerStatus
<1> QED BY <1>3 DEF Ledger!Init

\* The mapping after a step.
LEMMA ShownFactsNext == FullInv' => ShownByRecord'
BY ShownFacts, PTL

\* Pointwise descriptions of the mapping's next value.
LEMMA ShownSame ==
  ASSUME \A k \in Keys : Shown'[k] = Shown[k]
  PROVE  UNCHANGED Shown
BY DEF Shown

\* ... and when one entry changes.
LEMMA ShownUpdated ==
  ASSUME NEW j \in Keys, NEW s,
         \A k \in Keys : Shown'[k] = IF k = j THEN s ELSE Shown[k]
  PROVE  Shown' = [Shown EXCEPT ![j] = s]
BY DEF Shown

\* Records that stay show the same; what is off record must do so itself.
LEMMA RecordsKept ==
  ASSUME FullInv, FullInv', SameRecords, AckedKeys' = AckedKeys, NEW k \in Keys,
         k \notin AckedKeys \cup TcKeys \cup TransferKeys =>
           OffRecord(k)' = OffRecord(k)
  PROVE  Shown'[k] = Shown[k]
<1>1. ShownByRecord /\ ShownByRecord' /\ TransferKeys' = TransferKeys
  BY ShownFacts, ShownFactsNext
     DEF SameRecords, TransferKeys, TransferKeysOf
<1>2. CASE k \in AckedKeys \cup TcKeys
  BY <1>1, <1>2 DEF ShownByRecord, SameRecords
<1>3. CASE k \in TransferKeys
  <2>1. PICK n \in backup.transfers : n.key = k
    BY <1>3 DEF TransferKeys, TransferKeysOf
  <2> QED BY <1>1, <2>1 DEF ShownByRecord, SameRecords
<1>4. CASE k \notin AckedKeys \cup TcKeys \cup TransferKeys
  BY <1>1, <1>4 DEF ShownByRecord, SameRecords
<1> QED BY <1>2, <1>3, <1>4

\* A step that changes no record and is not between two records.
LEMMA ShownKept ==
  ASSUME FullInv, FullInv', SameRecords, UNCHANGED <<acked, accepted, dropped>>,
         pc # "x_tc", pc' # "x_tc"
  PROVE  UNCHANGED Shown
<1> SUFFICES ASSUME NEW k \in Keys
             PROVE  Shown'[k] = Shown[k]
  BY ShownSame
<1>1. AckedKeys' = AckedKeys /\ OffRecord(k)' = OffRecord(k)
  BY DEF AckedKeys, OffRecord
<1> QED BY <1>1, RecordsKept

\* Steps about no transfer, and ends of the process, show nothing.
LEMMA ShownPlain ==
  FullInv /\ FullInv' /\ (PlainStep \/ StopStep) => UNCHANGED Shown
BY ShownKept DEF PlainStep, StopStep, SameRecords, TcKeys

\* A power cut between the two records loses one transfer.
LEMMA ShownLose == FullInv /\ FullInv' /\ LoseStep => \E k \in Keys : Ledger!Lose(k)
<1> SUFFICES ASSUME FullInv, FullInv', LoseStep PROVE Ledger!Lose(cur.key)
  BY DEF FullInv, TypeInv, CurInv, LoseStep, LaunchPoint
<1>1. /\ pc = "x_tc" /\ pc' = "down" /\ cur.key \in Keys /\ cur.kind \in Kind
      /\ SameRecords /\ AckedKeys' = AckedKeys /\ TransferKeys' = TransferKeys
      /\ UNCHANGED <<accepted, dropped>>
  BY
     DEF LoseStep, SameRecords, AckedKeys, TcKeys, TransferKeys, FullInv,
         TypeInv, TypeOK, CurInv, LaunchPoint
<1>2. /\ cur.key \notin AckedKeys \cup TcKeys \cup TransferKeys
      /\ cur.key \in accepted /\ cur.key \notin dropped
  BY <1>1
     DEF FullInv, TransferInv, LaunchInv, LaunchPoint, LedgerInv, OwnerInv
<1>3. Shown[cur.key] = cur.kind
  BY <1>1, <1>2, ShownFacts DEF ShownByRecord, OffRecord
<1>4. Shown'[cur.key] = "lost"
  <2>1. \A j \in Keys : j \notin AckedKeys \cup TcKeys \cup TransferKeys =>
          Shown'[j] = IF j \in accepted \cap dropped THEN "dropped"
                      ELSE IF j \in accepted THEN "lost" ELSE "none"
    BY <1>1, ShownFactsNext DEF ShownByRecord, OffRecord, SameRecords
  <2> QED BY <1>1, <1>2, <2>1
<1>5. ASSUME NEW k \in Keys, k # cur.key
      PROVE  Shown'[k] = Shown[k]
  <2>1. OffRecord(k)' = OffRecord(k)
    BY <1>1, <1>5 DEF OffRecord
  <2> QED BY <1>1, <2>1, RecordsKept
<1>6. Shown' = [Shown EXCEPT ![cur.key] = "lost"]
  BY <1>1, <1>4, <1>5, ShownUpdated
<1> QED BY <1>1, <1>3, <1>6 DEF Ledger!Lose, Shown

\* Discarding the backup drops every unreported transfer, and no other.
LEMMA ShownDrop == FullInv /\ FullInv' /\ DropStep => Ledger!DropAll
<1> SUFFICES ASSUME FullInv, FullInv', DropStep, NEW k \in Keys
             PROVE  Shown'[k] = IF Shown[k] \in Kind \cup {"done"} THEN "dropped"
                                ELSE Shown[k]
  BY DEF Ledger!DropAll, Shown
<1>1. ShownByRecord /\ ShownByRecord'
  BY ShownFacts, ShownFactsNext
<1>2. /\ TransferKeys' = {} /\ TcKeys' = {} /\ AckedKeys' = AckedKeys
      /\ accepted' = accepted /\ pc' # "x_tc"
  <2>1. Len(backup'.tcs) = 0
    BY EmptySeq DEF DropStep
  <2> QED BY <2>1
          DEF DropStep, TransferKeys, TcKeys, TransferKeysOf, TcKeysOf, AckedKeys
<1>3. CASE k \in AckedKeys
  BY <1>1, <1>2, <1>3 DEF ShownByRecord, Kind
<1>4. CASE k \notin AckedKeys
  <2>1. Shown'[k] = IF k \in accepted \cap dropped' THEN "dropped"
                    ELSE IF k \in accepted THEN "lost" ELSE "none"
    BY <1>1, <1>2, <1>4 DEF ShownByRecord, OffRecord
  <2>2. CASE Shown[k] \in Kind \cup {"done"}
    <3>1. k \in TransferKeys \cup TcKeys \/ (pc = "x_tc" /\ k = cur.key)
      BY <2>2, ShownWaiting
    <3>2. k \in accepted /\ k \in dropped'
      BY <3>1 DEF DropStep, FullInv, LedgerInv, OwnerInv
    <3> QED BY <2>1, <2>2, <3>2
  <2>3. CASE Shown[k] \notin Kind \cup {"done"}
    <3>1. k \notin TcKeys \cup TransferKeys
      <4>1. ASSUME NEW n \in backup.transfers
            PROVE  n.kind \in Kind
        BY DEF FullInv, TypeInv, TypeOK, Backup, TransferNode
      <4> QED BY <1>1, <1>4, <2>3, <4>1
              DEF ShownByRecord, TransferKeys, TransferKeysOf
    <3>2. Shown[k] = OffRecord(k) /\ ~(pc = "x_tc" /\ k = cur.key)
      BY <1>1, <1>4, <2>3, <3>1
         DEF ShownByRecord, OffRecord, FullInv, TypeInv, TypeOK
    <3>3. k \in accepted => (k \in dropped' <=> k \in dropped)
      <4>1. k \in accepted /\ k = cur.key => k = NoKey
        BY <1>4, <3>1, <3>2, CurrentOnRecord
           DEF FullInv, LedgerInv, OwnerInv
      <4>2. k # NoKey
        BY KeysAssumption
      <4> QED BY <3>1, <4>1, <4>2 DEF DropStep
    <3> QED BY <2>1, <2>3, <3>2, <3>3 DEF OffRecord
  <2> QED BY <2>2, <2>3
<1> QED BY <1>3, <1>4

\* Moving a transfer from the list into the hands of the thread.
LEMMA ShownRemove == FullInv /\ FullInv' /\ LaunchRemove => UNCHANGED Shown
<1> SUFFICES ASSUME FullInv, FullInv', LaunchRemove, NEW k \in Keys
             PROVE  Shown'[k] = Shown[k]
  BY ShownSame
<1> USE DEF locals, observed
<1>1. /\ pc = "x_remove" /\ pc' = "x_tc"
      /\ UNCHANGED <<cur, accepted, acked, dropped>>
      /\ backup'.transfers = {n \in backup.transfers : n.key # cur.key}
      /\ backup'.tcs = backup.tcs
  BY
     DEF LaunchRemove, backup_remove_transfer, FullInv, TypeInv, TypeOK, Backup
<1>2. /\ NodeOf(cur) \in backup.transfers
      /\ NodeOf(cur).key = cur.key /\ NodeOf(cur).kind = cur.kind
  BY <1>1 DEF FullInv, LedgerInv, SlotInv, NodeOf
<1>3. /\ TcKeys' = TcKeys /\ AckedKeys' = AckedKeys
      /\ TransferKeys' = TransferKeys \ {cur.key}
  BY <1>1 DEF TcKeys, TcKeysOf, AckedKeys, TransferKeys, TransferKeysOf
<1>4. ShownByRecord /\ ShownByRecord'
  BY ShownFacts, ShownFactsNext
<1>5. CASE k = cur.key
  <2>1. k \notin AckedKeys \cup TcKeys
    BY <1>1, <1>5
       DEF FullInv, TransferInv, LaunchInv, TransferOnce, LaunchPoint
  <2> QED BY <1>1, <1>2, <1>3, <1>4, <1>5, <2>1 DEF ShownByRecord, OffRecord
<1>6. CASE k # cur.key /\ k \in AckedKeys \cup TcKeys
  BY <1>3, <1>4, <1>6 DEF ShownByRecord
<1>7. CASE k # cur.key /\ k \in TransferKeys
  <2>1. PICK n \in backup.transfers : n.key = k
    BY <1>7 DEF TransferKeys, TransferKeysOf
  <2>2. n \in backup'.transfers
    BY <1>1, <1>7, <2>1
  <2> QED BY <1>4, <2>1, <2>2 DEF ShownByRecord
<1>8. CASE k # cur.key /\ k \notin AckedKeys \cup TcKeys \cup TransferKeys
  BY <1>1, <1>3, <1>4, <1>8 DEF ShownByRecord, OffRecord
<1> QED BY <1>5, <1>6, <1>7, <1>8

\* A TransferComplete on file completes its transfer.
LEMMA ShownComplete ==
  FullInv /\ FullInv' /\ LaunchAddTransferComplete =>
    \E k \in Keys : Ledger!Complete(k)
<1> SUFFICES ASSUME FullInv, FullInv', LaunchAddTransferComplete
             PROVE  Ledger!Complete(cur.key)
  BY DEF FullInv, TypeInv, CurInv, LaunchAddTransferComplete, LaunchPoint
<1> USE DEF locals, observed
<1>1. /\ pc = "x_tc" /\ pc' # "x_tc" /\ cur.key \in Keys /\ cur.kind \in Kind
      /\ UNCHANGED <<accepted, acked, dropped>> /\ AckedKeys' = AckedKeys
  BY
     DEF LaunchAddTransferComplete, FullInv, TypeInv, TypeOK, CurInv,
         LaunchPoint, AckedKeys
<1>2. /\ backup'.transfers = backup.transfers
      /\ TcKeys' = TcKeys \cup {cur.key} /\ TransferKeys' = TransferKeys
  BY LedgerAddTransferComplete DEF FullInv, TransferKeys, TransferKeysOf
<1>3. cur.key \notin AckedKeys \cup TcKeys \cup TransferKeys
  BY <1>1 DEF FullInv, TransferInv, LaunchInv, LaunchPoint
<1>4. ShownByRecord /\ ShownByRecord'
  BY ShownFacts, ShownFactsNext
<1>5. Shown[cur.key] = cur.kind /\ Shown'[cur.key] = "done"
  BY <1>1, <1>2, <1>3, <1>4 DEF ShownByRecord, OffRecord
<1>6. ASSUME NEW k \in Keys, k # cur.key
      PROVE  Shown'[k] = Shown[k]
  <2>1. CASE k \in AckedKeys \cup TcKeys
    BY <1>1, <1>2, <1>4, <2>1 DEF ShownByRecord
  <2>2. CASE k \in TransferKeys
    <3>1. PICK n \in backup.transfers : n.key = k
      BY <2>2 DEF TransferKeys, TransferKeysOf
    <3> QED BY <1>2, <1>4, <3>1 DEF ShownByRecord
  <2>3. CASE k \notin AckedKeys \cup TcKeys \cup TransferKeys
    BY <1>1, <1>2, <1>4, <1>6, <2>3 DEF ShownByRecord, OffRecord
  <2> QED BY <2>1, <2>2, <2>3
<1>7. Shown' = [Shown EXCEPT ![cur.key] = "done"]
  BY <1>1, <1>5, <1>6, ShownUpdated
<1> QED BY <1>1, <1>5, <1>7 DEF Ledger!Complete, Shown

\* An answer reports a transfer, or repeats what was reported already.
LEMMA ShownReport ==
  ASSUME FullInv, FullInv', NEW hold \in BOOLEAN, TransferCompleteAnswered(hold)
  PROVE  UNCHANGED Shown \/ \E k \in Keys : Ledger!Report(k)
<1> USE DEF session, queues
<1>1. PICK j \in TcKeys : AckedKeys' = AckedKeys \cup {j}
  BY LedgerAnswered DEF FullInv
<1>2. /\ pc # "x_tc" /\ pc' # "x_tc" /\ UNCHANGED <<backup, accepted, dropped>>
      /\ j \in Keys
  BY BackupKeys
     DEF TransferCompleteAnswered, SendsTransferComplete, TcKeys, FullInv,
         TypeInv, TypeOK
<1>3. UNCHANGED <<TransferKeys, TcKeys>>
  BY <1>2, SameFile
<1>4. ShownByRecord /\ ShownByRecord'
  BY ShownFacts, ShownFactsNext
<1>5. ASSUME NEW k \in Keys, k # j
      PROVE  Shown'[k] = Shown[k]
  <2>1. CASE k \in AckedKeys \cup TcKeys
    BY <1>1, <1>3, <1>4, <1>5, <2>1 DEF ShownByRecord
  <2>2. CASE k \in TransferKeys
    <3>1. PICK n \in backup.transfers : n.key = k
      BY <2>2 DEF TransferKeys, TransferKeysOf
    <3> QED BY <1>2, <1>4, <3>1 DEF ShownByRecord
  <2>3. CASE k \notin AckedKeys \cup TcKeys \cup TransferKeys
    BY <1>1, <1>2, <1>3, <1>4, <1>5, <2>3 DEF ShownByRecord, OffRecord
  <2> QED BY <2>1, <2>2, <2>3
<1>6. Shown'[j] = "reported"
  BY <1>1, <1>2, <1>4 DEF ShownByRecord
<1>7. CASE j \in AckedKeys
  <2>1. Shown[j] = "reported"
    BY <1>2, <1>4, <1>7 DEF ShownByRecord
  <2> QED BY <1>5, <1>6, <2>1, ShownSame
<1>8. CASE j \notin AckedKeys
  <2>1. Shown[j] = "done"
    BY <1>1, <1>2, <1>4, <1>8 DEF ShownByRecord
  <2>2. Shown' = [Shown EXCEPT ![j] = "reported"]
    BY <1>2, <1>5, <1>6, ShownUpdated
  <2>3. Ledger!Report(j)
    BY <2>1, <2>2 DEF Ledger!Report, Shown
  <2> QED BY <1>2, <2>3
<1> QED BY <1>7, <1>8

\* What is removed from the file after the answer was reported.
LEMMA ShownForget ==
  FullInv /\ FullInv' /\ backup_remove_transfer_complete => UNCHANGED Shown
<1> SUFFICES ASSUME FullInv, FullInv', backup_remove_transfer_complete,
                    NEW k \in Keys
             PROVE  Shown'[k] = Shown[k]
  BY ShownSame
<1> USE DEF observed
<1>1. /\ pc # "x_tc" /\ pc' # "x_tc" /\ UNCHANGED <<accepted, acked, dropped>>
      /\ AckedKeys' = AckedKeys
  BY DEF backup_remove_transfer_complete, AckedKeys
<1>2. /\ backup'.transfers = backup.transfers /\ TransferKeys' = TransferKeys
      /\ TcKeys' \subseteq TcKeys /\ TcKeys \ TcKeys' \subseteq AckedKeys
  BY LedgerRemoveTransferComplete DEF FullInv, TransferKeys, TransferKeysOf
<1>3. ShownByRecord /\ ShownByRecord'
  BY ShownFacts, ShownFactsNext
<1>4. CASE k \in AckedKeys \cup TcKeys
  BY <1>1, <1>2, <1>3, <1>4 DEF ShownByRecord
<1>5. CASE k \in TransferKeys
  <2>1. PICK n \in backup.transfers : n.key = k
    BY <1>5 DEF TransferKeys, TransferKeysOf
  <2> QED BY <1>2, <1>3, <2>1 DEF ShownByRecord
<1>6. CASE k \notin AckedKeys \cup TcKeys \cup TransferKeys
  BY <1>1, <1>2, <1>3, <1>6 DEF ShownByRecord, OffRecord
<1> QED BY <1>4, <1>5, <1>6

\* The transfers shown as waiting are no more than the slots in use.
LEMMA WaitingFits ==
  ASSUME FullInv, pc = "messages", NEW kind \in Kind, count[kind] < MaxTransfer
  PROVE  Cardinality({k \in Keys : Shown[k] = kind}) < MaxTransfer
<1> DEFINE W == {k \in Keys : Shown[k] = kind}
           f == [k \in W |-> [key |-> k, kind |-> kind]]
<1>1. f \in [W -> NodesOfKind(kind)]
  <2>1. ASSUME NEW k \in W
        PROVE  [key |-> k, kind |-> kind] \in NodesOfKind(kind)
    <3>1. PICK n \in backup.transfers : n.key = k /\ n.kind = kind
      BY ShownWaiting
    <3>2. n = [key |-> k, kind |-> kind]
      BY <3>1 DEF FullInv, TypeInv, TypeOK, Backup, TransferNode
    <3> QED BY <3>1, <3>2 DEF NodesOfKind
  <2> QED BY <2>1
<1>2. \A j, k \in W : f[j] = f[k] => j = k
  <2>1. \A k \in W : f[k].key = k
    OBVIOUS
  <2> QED BY <2>1
<1>3. IsFiniteSet(NodesOfKind(kind))
  <2>1. NodesOfKind(kind) \in SUBSET backup.transfers
    BY DEF NodesOfKind
  <2> QED BY <2>1, FS_Subset DEF FullInv, TypeInv, CurInv
<1>4. f \in Injection(W, NodesOfKind(kind))
  BY <1>1, <1>2, Fun_IsInj
<1> HIDE DEF f, W
<1>5. /\ Cardinality(W) <= Cardinality(NodesOfKind(kind))
      /\ IsFiniteSet(W)
  BY <1>3, <1>4, FS_Injection
<1>6. Cardinality(W) \in Nat /\ Cardinality(NodesOfKind(kind)) \in Nat
  BY <1>3, <1>5, FS_CardinalityType
<1>7. Cardinality(NodesOfKind(kind)) < MaxTransfer
  BY DEF FullInv, LedgerInv, SlotInv, ListInStep
<1>8. Cardinality(W) < MaxTransfer
  BY <1>5, <1>6, <1>7, BoundsAssumption
<1> QED BY <1>8 DEF W

\* Status 1 accepts a new transfer while there is room; a refusal shows
\* nothing.
LEMMA ShownAccept ==
  ASSUME FullInv, FullInv', NEW k \in Keys, NEW r \in Requests,
         HandleTransfer(r, k)
  PROVE  UNCHANGED Shown \/ \E kind \in Kind : Ledger!Accept(k, kind)
<1> USE DEF observed
<1>1. /\ pc = "messages" /\ pc' = "messages" /\ UNCHANGED <<acked, dropped>>
      /\ AckedKeys' = AckedKeys
  BY DEF HandleTransfer, AckedKeys
<1>2. CASE UNCHANGED <<backup, accepted>>
  <2>1. SameRecords
    BY <1>2 DEF SameRecords, TcKeys
  <2> QED BY <1>1, <1>2, <2>1, ShownKept
<1>3. ASSUME NEW kind \in Kind, SlotTaken(k, kind)
      PROVE  Ledger!Accept(k, kind)
  <2> DEFINE node == [key |-> k, kind |-> kind]
  <2>1. /\ backup'.transfers = backup.transfers \cup {node}
        /\ TcKeys' = TcKeys /\ accepted' = accepted \cup {k} /\ k \notin used
        /\ node.key = k /\ node.kind = kind
    BY <1>3 DEF SlotTaken
  <2> HIDE DEF node
  <2>2. k \notin TransferKeys \cup TcKeys \cup AckedKeys \cup accepted
    BY <2>1 DEF FullInv, TransferInv, ListInv
  <2>3. TransferKeys' = TransferKeys \cup {k}
    BY <2>1 DEF TransferKeys, TransferKeysOf
  <2>4. ShownByRecord /\ ShownByRecord'
    BY ShownFacts, ShownFactsNext
  <2>5. Shown[k] = "none" /\ Shown'[k] = kind
    BY <1>1, <2>1, <2>2, <2>4 DEF ShownByRecord, OffRecord
  <2>6. ASSUME NEW j \in Keys, j # k
        PROVE  Shown'[j] = Shown[j]
    <3>1. CASE j \in AckedKeys \cup TcKeys
      BY <1>1, <2>1, <2>4, <3>1 DEF ShownByRecord
    <3>2. CASE j \in TransferKeys
      <4>1. PICK n \in backup.transfers : n.key = j
        BY <3>2 DEF TransferKeys, TransferKeysOf
      <4> QED BY <2>1, <2>4, <4>1 DEF ShownByRecord
    <3>3. CASE j \notin AckedKeys \cup TcKeys \cup TransferKeys
      BY <1>1, <2>1, <2>3, <2>4, <2>6, <3>3 DEF ShownByRecord, OffRecord
    <3> QED BY <3>1, <3>2, <3>3
  <2>7. Shown' = [Shown EXCEPT ![k] = kind]
    BY <2>5, <2>6, ShownUpdated
  <2>8. Cardinality({j \in Keys : Shown[j] = kind}) < MaxTransfer
    BY <1>1, <1>3, WaitingFits DEF SlotTaken
  <2>9. Ledger!Waiting(kind) = {j \in Keys : Shown[j] = kind}
    BY DEF Ledger!Waiting, Shown
  <2>10. Ledger!Cardinality(Ledger!Waiting(kind)) < MaxTransfer
    <3>1. Ledger!Cardinality(Ledger!Waiting(kind))
            = Cardinality(Ledger!Waiting(kind))
      BY DEF Ledger!Cardinality, Cardinality
    <3> QED BY <2>8, <2>9, <3>1
  <2>11. /\ [j \in Keys |-> LedgerStatus(j)][k] = "none"
         /\ [j \in Keys |-> LedgerStatus(j)]'
              = [[j \in Keys |-> LedgerStatus(j)] EXCEPT ![k] = kind]
    BY <2>5, <2>7 DEF Shown
  <2> QED BY <2>10, <2>11, Zenon DEF Ledger!Accept
<1> QED BY <1>2, <1>3, LedgerHandleTransfer DEF FullInv

\* Every step of the daemon is a step of the ledger or shows nothing.
LEMMA ShownStep ==
  FullInv /\ FullInv' /\ [Next]_vars => Ledger!Next \/ UNCHANGED Shown
<1> SUFFICES ASSUME FullInv, FullInv', [Next]_vars
             PROVE  Ledger!Next \/ UNCHANGED Shown
  OBVIOUS
<1>1. CASE UNCHANGED vars
  <2>1. /\ UNCHANGED <<backup, pc, cur, accepted, acked, dropped>>
        /\ SameRecords /\ AckedKeys' = AckedKeys
    BY <1>1 DEF vars, locals, observed, SameRecords, TcKeys, AckedKeys
  <2>2. \A k \in Keys : OffRecord(k)' = OffRecord(k)
    BY <2>1 DEF OffRecord
  <2> QED BY <2>1, <2>2, RecordsKept, ShownSame
<1>2. CASE Next
  <2> USE DEF session, locals, queues, observed
  <2>1. LedgerStep
    BY <1>2, LedgerSteps DEF FullInv, LedgerInv
  <2>2. CASE PlainStep \/ StopStep
    BY <2>2, ShownPlain
  <2>3. CASE LoseStep
    BY <2>3, ShownLose DEF Ledger!Next
  <2>4. CASE DropStep
    BY <2>4, ShownDrop DEF Ledger!Next
  <2>5. CASE BackupInit
    BY <2>5, ShownKept DEF BackupInit, SameRecords, TcKeys
  <2>6. ASSUME NEW t \in transfers,
               LaunchFails(t) \/ \E fault \in BOOLEAN : Launch(t, fault)
        PROVE  UNCHANGED Shown
    BY <2>6, ShownKept DEF LaunchFails, Launch, SameRecords, TcKeys
  <2>7. CASE LaunchRemove
    BY <2>7, ShownRemove
  <2>8. CASE LaunchAddTransferComplete
    BY <2>8, ShownComplete DEF Ledger!Next
  <2>9. ASSUME NEW hold \in BOOLEAN, TransferCompleteAnswered(hold)
        PROVE  Ledger!Next \/ UNCHANGED Shown
    BY <2>9, ShownReport DEF Ledger!Next
  <2>10. CASE backup_remove_transfer_complete
    BY <2>10, ShownForget
  <2>11. ASSUME NEW k \in Keys, NEW r \in Requests, HandleTransfer(r, k)
         PROVE  Ledger!Next \/ UNCHANGED Shown
    BY <2>11, ShownAccept DEF Ledger!Next
  <2>12. ASSUME NEW k \in Keys, HandleScheduleInform(k)
         PROVE  UNCHANGED Shown
    BY <2>12, ShownKept DEF HandleScheduleInform, SameRecords, TcKeys
  <2> QED BY <2>1, <2>2, <2>3, <2>4, <2>5, <2>6, <2>7, <2>8, <2>9, <2>10,
             <2>11, <2>12
          DEF LedgerStep, OwnStep
<1> QED BY <1>1, <1>2

\* easycwmpd, with its event list, sessions, retries, backup file, restarts
\* and power cuts, implements TransferLedger: seen through LedgerStatus, each
\* Download and Upload it accepted within its slots is executed, then reported,
\* each once and in this order, and disappears only with the whole backup or,
\* alone, in the hole of cwmp_download_launch.
THEOREM LedgerRefinement == Spec => ImplementsLedger
<1>1. FullInv /\ FullInv' /\ [Next]_vars => [Ledger!Next]_Shown
  BY ShownStep
<1>2. Shown = [k \in Keys |-> LedgerStatus(k)]
  BY DEF Shown
<1>3. Spec => [][Ledger!Next]_Shown
  BY <1>1, LedgerInvariance, PTL DEF Spec
<1>4. Spec => Ledger!Init
  BY ShownInit DEF Spec
<1> QED BY <1>3, <1>4, PTL DEF ImplementsLedger, Ledger!Spec, Shown
============================================================================
