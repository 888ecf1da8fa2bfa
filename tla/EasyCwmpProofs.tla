-------------------------- MODULE EasyCwmpProofs --------------------------
(***************************************************************************)
(* Lemmas about the operators of CwmpBackup and about the event list, and  *)
(* the proof that EasyCwmp is type-correct.  TypeOK is not inductive: that *)
(* cwmp_download_launch writes a record with a proper command key depends  *)
(* on what the thread is working on (CurInv).                              *)
(***************************************************************************)
EXTENDS EasyCwmp, SequenceTheorems, FiniteSetTheorems, WellFoundedInduction,
        TLAPS

\* A non-empty set of naturals contains its minimum (SelectInSeq relies on
\* it).
LEMMA MinInSet ==
  ASSUME NEW T, T \subseteq Nat, T # {}
  PROVE  Min(T) \in T
<1> DEFINE R == {p \in Nat \X Nat : p[1] < p[2]}
<1>1. IsWellFoundedOn(R, Nat)
  BY NatLessThanWellFounded, Zenon DEF OpToRel
<1>2. \E x \in T : \A y \in T : x =< y
  <2>1. PICK x \in T : \A y \in T : <<y, x>> \notin R
    BY <1>1, WFMin, Zenon
  <2>2. ASSUME NEW y \in T
        PROVE  x =< y
    <3>1. x \in Nat /\ y \in Nat
      OBVIOUS
    <3>2. y < x => <<y, x>> \in R
      BY <3>1
    <3> QED BY <2>1, <3>1, <3>2
  <2> QED BY <2>2
<1> QED BY <1>2 DEF Min

\* list_del keeps the type of a list.
LEMMA RemoveAtType ==
  ASSUME NEW S, NEW s \in Seq(S), NEW i \in 1..Len(s)
  PROVE  RemoveAt(s, i) \in Seq(S)
<1>1. Len(s) \in Nat
  OBVIOUS
<1>2. \A j \in 1..Len(s) : s[j] \in S
  OBVIOUS
<1>3. SubSeq(s, 1, i - 1) \in Seq(S)
  BY <1>1, <1>2, SubSeqProperties
<1>4. SubSeq(s, i + 1, Len(s)) \in Seq(S)
  BY <1>1, <1>2, SubSeqProperties
<1> QED BY <1>3, <1>4, ConcatProperties DEF RemoveAt

\* mxmlDelete of an event node, present or not, keeps the type of the list.
LEMMA RemoveFirstType ==
  ASSUME NEW S, NEW s \in Seq(S), NEW e
  PROVE  RemoveFirst(s, e) \in Seq(S)
<1> DEFINE I == {i \in 1..Len(s) : s[i] = e}
<1>1. CASE I = {}
  BY <1>1 DEF RemoveFirst
<1>2. CASE I # {}
  <2>1. I \subseteq Nat
    BY LenProperties
  <2>2. Min(I) \in 1..Len(s)
    BY <1>2, <2>1, MinInSet
  <2>3. RemoveFirst(s, e) = RemoveAt(s, Min(I))
    BY <1>2 DEF RemoveFirst, SelectInSeq
  <2> QED BY <2>2, <2>3, RemoveAtType
<1> QED BY <1>1, <1>2

----------------------------------------------------------------------------
\* The transfer records and the URL on file are unchanged.
SameTransfers ==
  /\ backup'.transfers = backup.transfers
  /\ backup'.tcs = backup.tcs
  /\ backup'.url = backup.url

\* cwmp_add_event keeps the types of list and file and adds no transfer
\* record.
LEMMA AddEventType ==
  ASSUME NEW code \in Code, NEW key \in KeyOrNone, NEW m \in Nat,
         NEW save \in BOOLEAN, backup \in Backup, events \in Seq(Event),
         cwmp_add_event(code, key, m, save)
  PROVE  /\ events' \in Seq(Event)
         /\ backup' \in Backup
         /\ SameTransfers
<1> DEFINE node == [code |-> code, key |-> key, mid |-> m]
           e == [code |-> code, key |-> key, mid |-> m,
                 node |-> IF save THEN node ELSE NoNode]
<1>1. node \in Node
  BY DEF Node, KeyOrNone
<1>2. e \in Event
  BY <1>1 DEF Event, KeyOrNone
<1>3. backup.evs \in Seq(Node)
  BY DEF Backup
<1>4. Append(backup.evs, node) \in Seq(Node)
  BY <1>1, <1>3, AppendProperties
<1>5. Append(events, e) \in Seq(Event)
  BY <1>2, AppendProperties
<1>6. CASE UNCHANGED <<events, backup>>
  BY <1>6 DEF SameTransfers
<1>7. CASE /\ events' = Append(events, e)
           /\ backup' = IF save THEN backup_add_event(backup, node) ELSE backup
  BY <1>4, <1>5, <1>7 DEF SameTransfers, backup_add_event, Backup
<1> QED BY <1>6, <1>7 DEF cwmp_add_event

\* One turn of cwmp_remove_event does the same.
LEMMA RemoveEventType ==
  ASSUME NEW policy, NEW m, backup \in Backup, events \in Seq(Event),
         AnyRemovable(policy, m), RemoveOneEvent(policy, m)
  PROVE  /\ events' \in Seq(Event)
         /\ backup' \in Backup
         /\ SameTransfers
<1> DEFINE I == {i \in 1..Len(events) : Removable(events[i], policy, m)}
<1>1. I # {} /\ I \subseteq Nat
  BY LenProperties DEF AnyRemovable
<1>2. Min(I) \in 1..Len(events)
  BY <1>1, MinInSet
<1>3. /\ events' = RemoveAt(events, Min(I))
      /\ backup' = backup_remove_event(backup, events[Min(I)].node)
  BY <1>1 DEF RemoveOneEvent, SelectInSeq
<1>4. events' \in Seq(Event)
  BY <1>2, <1>3, RemoveAtType
<1>5. RemoveFirst(backup.evs, events[Min(I)].node) \in Seq(Node)
  BY RemoveFirstType DEF Backup
<1> QED BY <1>3, <1>4, <1>5 DEF backup_remove_event, Backup, SameTransfers

----------------------------------------------------------------------------
\* The points of cwmp_download_launch and cwmp_upload_launch.
LaunchPoint ==
  {"x_remove", "x_tc", "x_event", "x_m_event", "x_apply", "x_fault",
   "x_complete"}

\* Points at which a TransferComplete is known to be on file.
TcPoint ==
  {"x_event", "x_m_event", "x_apply", "x_fault", "x_complete", "tc_remove"}

\* What the thread knows of the transfer it is working on.
CurInv ==
  /\ pc \in LaunchPoint => cur.key \in Keys
  /\ pc \in TcPoint => backup.tcs # <<>>
  /\ IsFiniteSet(backup.transfers)

\* The inductive strengthening of TypeOK.
TypeInv == TypeOK /\ CurInv

\* The keys on file are command keys.
LEMMA BackupKeys ==
  ASSUME NEW b \in Backup
  PROVE  TransferKeysOf(b) \subseteq Keys /\ TcKeysOf(b) \subseteq Keys
<1>1. b.transfers \subseteq TransferNode /\ b.tcs \in Seq(TransferComplete)
  BY DEF Backup
<1>2. \A t \in b.transfers : t.key \in Keys
  BY <1>1 DEF TransferNode
<1>3. ASSUME NEW i \in 1..Len(b.tcs)
      PROVE  b.tcs[i].key \in Keys
  <2>1. b.tcs[i] \in TransferComplete
    BY <1>1, ElementOfSeq
  <2> QED BY <2>1 DEF TransferComplete
<1> QED BY <1>2, <1>3 DEF TransferKeysOf, TcKeysOf

\* backup_init's last call changes complete_time only.
LEMMA CompleteAllType ==
  ASSUME NEW b \in Backup
  PROVE  LET c == backup_update_all_complete_time(b) IN
         /\ c \in Backup
         /\ c.transfers = b.transfers
         /\ Len(c.tcs) = Len(b.tcs)
         /\ \A i \in 1..Len(b.tcs) : /\ c.tcs[i].key = b.tcs[i].key
                                     /\ c.tcs[i].fault = b.tcs[i].fault
<1> DEFINE f == [i \in 1..Len(b.tcs) |-> [b.tcs[i] EXCEPT !.complete = TRUE]]
           c == backup_update_all_complete_time(b)
<1>1. b.tcs \in Seq(TransferComplete) /\ Len(b.tcs) \in Nat
  BY LenProperties DEF Backup
<1>2. ASSUME NEW i \in 1..Len(b.tcs)
      PROVE  /\ f[i] \in TransferComplete
             /\ f[i].key = b.tcs[i].key
             /\ f[i].fault = b.tcs[i].fault
  <2>1. b.tcs[i] \in TransferComplete
    BY <1>1, ElementOfSeq
  <2> QED BY <2>1 DEF TransferComplete
<1>3. f \in Seq(TransferComplete) /\ Len(f) = Len(b.tcs)
  <2>1. f \in [1..Len(b.tcs) -> TransferComplete]
    BY <1>2
  <2> HIDE DEF f
  <2>2. f \in Seq(TransferComplete)
    BY <1>1, <2>1, SeqDef
  <2>3. DOMAIN f = 1..Len(b.tcs) /\ DOMAIN f = 1..Len(f) /\ Len(f) \in Nat
    BY <2>1, <2>2, LenProperties
  <2> QED BY <1>1, <2>2, <2>3
<1>4. c = [b EXCEPT !.tcs = f]
  BY DEF backup_update_all_complete_time
<1>5. c \in Backup /\ c.transfers = b.transfers /\ c.tcs = f
  BY <1>3, <1>4 DEF Backup
<1> QED BY <1>2, <1>3, <1>5

\* An absent file is a backup with nothing in it.
LEMMA NoBackupType ==
  /\ NoBackup \in Backup
  /\ NoBackup.transfers = {} /\ NoBackup.tcs = <<>>
  /\ IsFiniteSet(NoBackup.transfers)
<1>1. IsFiniteSet({})
  BY FS_EmptySet
<1>2. <<>> \in Seq(TransferComplete) /\ <<>> \in Seq(Node)
  BY EmptySeq
<1> QED BY <1>1, <1>2 DEF NoBackup, Backup

\* The initial value of cur has its type.
LEMMA NoCurType == NoCur \in [key : KeyOrNone, kind : Kind, fault : BOOLEAN]
BY DEF NoCur, KeyOrNone, Kind

\* What the process keeps in memory, and what is left of it without one.
Memory ==
  <<pc, ret, events, notifications, transfers, count, scheduled, timers,
    retry_count, method_id, hold_requests, get_rpc_methods, end_session, tries,
    cur, mid, loaded>>

Gone ==
  <<"down", "main", <<>>, FALSE, {}, [k \in Kind |-> 0], {}, {}, 0, 0, FALSE,
    FALSE, {}, 0, NoCur, 0, 0>>

\* The types of what outlives the process.
FileType ==
  /\ backup \in Backup /\ cfg_url \in Urls
  /\ used \subseteq Keys /\ accepted \subseteq Keys
  /\ acked \subseteq Keys \X BOOLEAN
  /\ dropped \subseteq Keys /\ failed \subseteq Keys
  /\ cut \subseteq CutPoint \X KeyOrNone
  /\ announced \in BOOLEAN /\ crashes \in 0..MaxCrash
  /\ IsFiniteSet(backup.transfers)

\* Without a process, what is left to type is the file and the observers.
LEMMA GoneType == FileType /\ Memory = Gone => TypeInv
<1> SUFFICES ASSUME FileType, Memory = Gone PROVE TypeInv
  OBVIOUS
<1>1. /\ pc = "down" /\ ret = "main" /\ events = <<>> /\ notifications = FALSE
      /\ transfers = {} /\ count = [k \in Kind |-> 0] /\ scheduled = {}
      /\ timers = {} /\ retry_count = 0 /\ method_id = 0 /\ tries = 0
      /\ hold_requests = FALSE /\ get_rpc_methods = FALSE /\ end_session = {}
      /\ cur = NoCur /\ mid = 0 /\ loaded = 0
  BY DEF Memory, Gone
<1>2. events \in Seq(Event)
  BY <1>1, EmptySeq
<1>3. count \in [Kind -> Int]
  BY <1>1
<1>4. cur \in [key : KeyOrNone, kind : Kind, fault : BOOLEAN]
  BY <1>1 DEF NoCur, Kind, KeyOrNone
<1>5. pc \in Point /\ pc \notin LaunchPoint \cup TcPoint
  BY <1>1 DEF Point, LaunchPoint, TcPoint
<1>6. retry_count \in 0..RetryCap /\ tries \in 0..Max8005
  BY <1>1, BoundsAssumption
<1> QED BY <1>1, <1>2, <1>3, <1>4, <1>5, <1>6
        DEF TypeInv, TypeOK, CurInv, FileType

\* A factory-new device satisfies the type invariant.
LEMMA TypeInit == Init => TypeInv
<1> SUFFICES ASSUME Init PROVE TypeInv
  OBVIOUS
<1>1. Memory = Gone
  BY DEF Init, Memory, Gone
<1>2. backup = NoBackup /\ crashes = 0
  BY DEF Init
<1>3. backup \in Backup /\ IsFiniteSet(backup.transfers)
  BY <1>2, NoBackupType, Zenon
<1>4. /\ used = {} /\ accepted = {} /\ acked = {} /\ dropped = {} /\ failed = {}
      /\ cut = {} /\ announced = FALSE /\ cfg_url \in Urls
  BY DEF Init
<1>5. crashes \in 0..MaxCrash
  BY <1>2, BoundsAssumption
<1>6. FileType
  BY <1>3, <1>4, <1>5 DEF FileType
<1> QED BY <1>1, <1>6, GoneType

\* So every step that ends the process preserves the type invariant.
LEMMA ProcessGoneType ==
  ASSUME FileType', ProcessGone
  PROVE  TypeInv'
<1>1. (Memory = Gone)'
  BY DEF ProcessGone, Memory, Gone
<1>2. FileType'
  OBVIOUS
<1> QED BY <1>1, <1>2, GoneType, PTL

\* main, backup_init and config_load preserve the type invariant.
LEMMA TypeStartup == TypeInv /\ Startup => TypeInv'
<1> SUFFICES ASSUME TypeInv, Startup PROVE TypeInv'
  OBVIOUS
<1>0. /\ {"BOOTSTRAP", "BOOT", "PERIODIC"} \subseteq Code
      /\ NoKey \in KeyOrNone
      /\ backup \in Backup /\ events \in Seq(Event) /\ loaded \in Nat
      /\ mid \in Nat /\ IsFiniteSet(backup.transfers) /\ TypeOK
  BY DEF Code, SingleCode, KeyOrNone, TypeInv, TypeOK, CurInv
<1>1. CASE BackupInit
  <2>1. \A k \in Kind :
          Cardinality({t \in backup.transfers : t.kind = k}) \in Nat
    BY <1>0, FS_Subset, FS_CardinalityType
  <2>2. count' \in [Kind -> Int]
    BY <1>1, <2>1 DEF BackupInit, CountsOf
  <2>3. backup.transfers \subseteq TransferNode
    BY <1>0 DEF Backup
  <2>4. ASSUME NEW t \in backup.transfers
        PROVE  [key |-> t.key, kind |-> t.kind, armed |-> TRUE]
                 \in [key : Keys, kind : Kind, armed : BOOLEAN]
    BY <2>3 DEF TransferNode
  <2>5. transfers' \subseteq [key : Keys, kind : Kind, armed : BOOLEAN]
    BY <1>1, <2>4 DEF BackupInit
  <2> QED BY <1>0, <1>1, <2>2, <2>5
          DEF BackupInit, TypeInv, TypeOK, CurInv, Point, LaunchPoint, TcPoint,
              session, locals, observed
<1>2. CASE LoadEvent
  <2> DEFINE n == backup.evs[loaded + 1]
             m == IF n.mid # 0 THEN n.mid ELSE mid
  <2>1. backup.evs \in Seq(Node) /\ loaded + 1 \in 1..Len(backup.evs)
    BY <1>0, <1>2 DEF Backup, LoadEvent
  <2>2. n \in Node
    BY <2>1, ElementOfSeq
  <2>3. m \in Nat
    BY <1>0, <2>2 DEF Node
  <2>4. LoadedEvent(n, m) \in Event
    BY <2>2, <2>3 DEF LoadedEvent, Event, Node
  <2>5. Append(events, LoadedEvent(n, m)) \in Seq(Event)
    BY <1>0, <2>4, AppendProperties
  <2>6. mid' \in Nat /\ events' \in Seq(Event)
    BY <1>0, <1>2, <2>3, <2>5 DEF LoadEvent
  <2> QED BY <1>0, <1>2, <2>6
          DEF LoadEvent, cwmp_add_inform_timer, TypeInv, TypeOK, CurInv,
              session, queues, observed
<1>3. CASE BackupInitDone
  <2>1. backup' \in Backup /\ backup'.transfers = backup.transfers
    BY <1>0, <1>3, CompleteAllType DEF BackupInitDone
  <2> QED BY <1>0, <1>3, <2>1
          DEF BackupInitDone, TypeInv, TypeOK, CurInv, Point, LaunchPoint,
              TcPoint, session, queues, observed, CutPoint
<1>4. CASE ConfigLoadSame
  BY <1>4
     DEF ConfigLoadSame, Return, TypeInv, TypeOK, CurInv, Point, LaunchPoint,
         TcPoint, session, locals, queues, observed
<1>5. CASE BackupAddAcsUrl
  <2>1. backup' \in Backup /\ backup'.transfers = {}
    BY <1>0, <1>5, NoBackupType
       DEF BackupAddAcsUrl, backup_add_acsurl, TypeOK, Backup
  <2>2. dropped' \subseteq Keys
    BY <1>0, <1>5, BackupKeys DEF BackupAddAcsUrl, TransferKeys, TcKeys, TypeOK
  <2>3. /\ events' \in Seq(Event)
        /\ IsFiniteSet({}) /\ IsFiniteSet(backup'.transfers)
    BY <1>5, <2>1, EmptySeq, FS_EmptySet DEF BackupAddAcsUrl
  <2>4. count' \in [Kind -> Int]
    BY <1>5 DEF BackupAddAcsUrl
  <2>5. retry_count' \in 0..RetryCap
    BY <1>5, BoundsAssumption DEF BackupAddAcsUrl
  <2> QED BY <1>0, <1>5, <2>1, <2>2, <2>3, <2>4, <2>5
          DEF BackupAddAcsUrl, TypeInv, TypeOK, CurInv, Point, CutPoint,
              LaunchPoint, TcPoint, locals
<1>6. CASE AddBootstrap
  <2>1. events' \in Seq(Event) /\ backup' \in Backup /\ SameTransfers
    BY <1>0, <1>6, AddEventType DEF AddBootstrap
  <2> QED BY <1>0, <1>6, <2>1
          DEF AddBootstrap, cwmp_add_inform_timer, Return, SameTransfers,
              TypeInv, TypeOK, CurInv, Point, LaunchPoint, TcPoint, session,
              locals, queues, observed
<1>7. CASE StartBoot
  <2>1. events' \in Seq(Event) /\ backup' \in Backup /\ SameTransfers
    BY <1>0, <1>7, AddEventType DEF StartBoot
  <2> QED BY <1>0, <1>7, <2>1
          DEF StartBoot, cwmp_add_inform_timer, SameTransfers, TypeInv, TypeOK,
              CurInv, Point, LaunchPoint, TcPoint, session, locals, queues,
              observed
<1>8. CASE StartGetRpcMethod
  <2>1. events' \in Seq(Event) /\ backup' \in Backup /\ SameTransfers
    BY <1>0, <1>8, AddEventType DEF StartGetRpcMethod
  <2> QED BY <1>0, <1>8, <2>1
          DEF StartGetRpcMethod, cwmp_add_inform_timer, SameTransfers, TypeInv,
              TypeOK, CurInv, Point, LaunchPoint, TcPoint, locals, queues,
              observed
<1> QED BY <1>1, <1>2, <1>3, <1>4, <1>5, <1>6, <1>7, <1>8 DEF Startup

\* The uloop callbacks preserve the type invariant.
LEMMA TypeCallbacks == TypeInv /\ Callbacks => TypeInv'
<1> SUFFICES ASSUME TypeInv, Callbacks PROVE TypeInv'
  OBVIOUS
<1>0. /\ UbusCode \cup {"VALUE_CHANGE", "PERIODIC", "SCHEDULED",
                        "M_SCHEDULEINFORM"} \subseteq Code
      /\ NoKey \in KeyOrNone /\ Keys \subseteq KeyOrNone
      /\ backup \in Backup /\ events \in Seq(Event)
      /\ cur \in [key : KeyOrNone, kind : Kind, fault : BOOLEAN]
      /\ scheduled \subseteq Keys
      /\ IsFiniteSet(backup.transfers) /\ TypeOK
  BY
     DEF UbusCode, Code, SingleCode, MultipleCode, KeyOrNone, TypeInv, TypeOK,
         CurInv
<1>1. ASSUME NEW t \in timers, cwmp_do_inform(t)
      PROVE  TypeInv'
  BY <1>1
     DEF cwmp_do_inform, TypeInv, TypeOK, CurInv, Point, LaunchPoint, TcPoint,
         session, locals, queues, observed
<1>2. ASSUME NEW t \in transfers, LaunchFails(t)
      PROVE  TypeInv'
  <2>1. t \in [key : Keys, kind : Kind, armed : BOOLEAN]
    BY <1>0 DEF TypeOK
  <2>2. [t EXCEPT !.armed = FALSE] \in [key : Keys, kind : Kind, armed : BOOLEAN]
    BY <2>1
  <2>3. transfers' \subseteq [key : Keys, kind : Kind, armed : BOOLEAN]
    BY <1>0, <1>2, <2>2 DEF LaunchFails, TypeOK
  <2> QED BY <1>0, <1>2, <2>3
          DEF LaunchFails, TypeInv, TypeOK, CurInv, Point, LaunchPoint,
              TcPoint, session, locals, queues, observed
<1>3. ASSUME NEW t \in transfers, NEW fault \in BOOLEAN, Launch(t, fault)
      PROVE  TypeInv'
  <2>1. t.key \in Keys /\ t.kind \in Kind
    BY <1>0 DEF TypeOK
  <2>2. /\ cur' \in [key : KeyOrNone, kind : Kind, fault : BOOLEAN]
        /\ cur'.key \in Keys /\ failed' \subseteq Keys
    BY <1>0, <1>3, <2>1 DEF Launch, KeyOrNone, TypeOK
  <2> QED BY <1>0, <1>3, <2>2
          DEF Launch, TypeInv, TypeOK, CurInv, Point, LaunchPoint, TcPoint,
              session, locals, queues, observed
<1>4. ASSUME NEW k \in scheduled, ScheduledInform(k)
      PROVE  TypeInv'
  <2>1. events' \in Seq(Event) /\ backup' \in Backup /\ SameTransfers
    BY <1>0, <1>4, AddEventType DEF ScheduledInform
  <2>2. cur' \in [key : KeyOrNone, kind : Kind, fault : BOOLEAN]
    BY <1>0, <1>4 DEF ScheduledInform, NoCur, Kind
  <2> QED BY <1>0, <1>4, <2>1, <2>2
          DEF ScheduledInform, SameTransfers, TypeInv, TypeOK, CurInv, Point,
              LaunchPoint, TcPoint, session, locals, queues, observed
<1>5. CASE ScheduledInformDone
  <2>1. events' \in Seq(Event) /\ backup' \in Backup /\ SameTransfers
    BY <1>0, <1>5, AddEventType DEF ScheduledInformDone
  <2>2. cur' \in [key : KeyOrNone, kind : Kind, fault : BOOLEAN]
    BY <1>0, <1>5 DEF ScheduledInformDone, NoCur, Kind
  <2> QED BY <1>0, <1>5, <2>1, <2>2
          DEF ScheduledInformDone, cwmp_add_inform_timer, SameTransfers,
              TypeInv, TypeOK, CurInv, Point, LaunchPoint, TcPoint, session,
              locals, queues, observed
<1>6. ASSUME NEW code \in InformCodes, cwmp_connection_request(code)
      PROVE  TypeInv'
  <2>1. events' \in Seq(Event) /\ backup' \in Backup /\ SameTransfers
    BY <1>0, <1>6, AddEventType, StimuliAssumption DEF cwmp_connection_request
  <2> QED BY <1>0, <1>6, <2>1
          DEF cwmp_connection_request, cwmp_add_inform_timer, SameTransfers,
              TypeInv, TypeOK, CurInv, Point, LaunchPoint, TcPoint, session,
              locals, queues, observed
<1>7. ASSUME NEW active \in BOOLEAN, Notify(active)
      PROVE  TypeInv'
  <2>1. events' \in Seq(Event) /\ backup' \in Backup /\ SameTransfers
    BY <1>0, <1>7, AddEventType DEF Notify
  <2> QED BY <1>0, <1>7, <2>1
          DEF Notify, cwmp_add_inform_timer, SameTransfers, TypeInv, TypeOK,
              CurInv, Point, LaunchPoint, TcPoint, session, locals, queues,
              observed
<1>8. CASE cwmp_periodic_inform
  <2>1. events' \in Seq(Event) /\ backup' \in Backup /\ SameTransfers
    BY <1>0, <1>8, AddEventType DEF cwmp_periodic_inform
  <2> QED BY <1>0, <1>8, <2>1
          DEF cwmp_periodic_inform, cwmp_add_inform_timer, SameTransfers,
              TypeInv, TypeOK, CurInv, Point, LaunchPoint, TcPoint, session,
              locals, queues, observed
<1>9. ASSUME NEW url \in Urls, Reload(url)
      PROVE  TypeInv'
  BY <1>9
     DEF Reload, TypeInv, TypeOK, CurInv, Point, LaunchPoint, TcPoint, session,
         locals, queues, observed
<1> QED BY <1>1, <1>2, <1>3, <1>4, <1>5, <1>6, <1>7, <1>8, <1>9 DEF Callbacks

\* File c is b with one more TransferComplete, for key k and without fault.
Appended(b, c, k) ==
  /\ c \in Backup
  /\ c.transfers = b.transfers
  /\ Len(c.tcs) = Len(b.tcs) + 1
  /\ \A i \in 1..Len(b.tcs) : c.tcs[i] = b.tcs[i]
  /\ c.tcs[Len(b.tcs) + 1].key = k
  /\ c.tcs[Len(b.tcs) + 1].fault = FALSE

\* backup_add_transfer_complete appends a record with FAULT_0.
LEMMA AddTransferCompleteType ==
  ASSUME NEW b \in Backup, NEW k \in Keys, NEW m \in Nat
  PROVE  Appended(b, backup_add_transfer_complete(b, k, m), k)
<1> DEFINE tc == [key |-> k, mid |-> m, fault |-> FALSE, complete |-> FALSE]
           c == backup_add_transfer_complete(b, k, m)
<1>1. b.tcs \in Seq(TransferComplete)
  BY DEF Backup
<1>2. tc \in TransferComplete
  BY DEF TransferComplete
<1>3. /\ Append(b.tcs, tc) \in Seq(TransferComplete)
      /\ Len(Append(b.tcs, tc)) = Len(b.tcs) + 1
      /\ \A i \in 1..Len(b.tcs) : Append(b.tcs, tc)[i] = b.tcs[i]
      /\ Append(b.tcs, tc)[Len(b.tcs) + 1] = tc
  BY <1>1, <1>2, AppendProperties
<1>4. c = [b EXCEPT !.tcs = Append(b.tcs, tc)]
  BY DEF backup_add_transfer_complete
<1>5. c \in Backup /\ c.transfers = b.transfers /\ c.tcs = Append(b.tcs, tc)
  BY <1>3, <1>4 DEF Backup
<1> QED BY <1>1, <1>2, <1>3, <1>5 DEF Appended

\* backup_update_fault_transfer_complete changes the last record's fault
\* only.
LEMMA UpdateFaultType ==
  ASSUME NEW b \in Backup, b.tcs # <<>>
  PROVE  LET c == backup_update_fault(b)
             n == Len(b.tcs)
         IN /\ c \in Backup
            /\ c.transfers = b.transfers
            /\ Len(c.tcs) = n
            /\ \A i \in 1..n : c.tcs[i].key = b.tcs[i].key
            /\ \A i \in 1..n : i # n => c.tcs[i].fault = b.tcs[i].fault
            /\ c.tcs[n].fault = TRUE
<1> DEFINE n == Len(b.tcs)
           e == [b.tcs[n] EXCEPT !.fault = TRUE]
           f == [b.tcs EXCEPT ![n] = e]
           c == backup_update_fault(b)
<1>1. b.tcs \in Seq(TransferComplete) /\ n \in Nat \ {0}
  BY EmptySeq DEF Backup
<1>2. c = [b EXCEPT !.tcs = f]
  BY DEF backup_update_fault
<1>3. /\ f \in Seq(TransferComplete) /\ Len(f) = n
      /\ \A i \in 1..n : f[i].key = b.tcs[i].key
      /\ \A i \in 1..n : i # n => f[i].fault = b.tcs[i].fault
      /\ f[n].fault = TRUE
  <2>1. n \in 1..n /\ b.tcs[n] \in TransferComplete
    BY <1>1, ElementOfSeq
  <2>2. e \in TransferComplete /\ e.key = b.tcs[n].key /\ e.fault = TRUE
    BY <2>1 DEF TransferComplete
  <2> HIDE DEF e
  <2>3. /\ f \in Seq(TransferComplete) /\ Len(f) = n
        /\ \A i \in 1..n : f[i] = IF i = n THEN e ELSE b.tcs[i]
    BY <1>1, <2>1, <2>2, ExceptSeq
  <2> QED BY <1>1, <2>2, <2>3
<1>4. c \in Backup /\ c.transfers = b.transfers /\ c.tcs = f
  BY <1>2, <1>3 DEF Backup
<1> QED BY <1>3, <1>4

\* backup_update_complete_time_transfer_complete changes no key and no fault.
LEMMA UpdateCompleteTimeType ==
  ASSUME NEW b \in Backup, b.tcs # <<>>
  PROVE  LET c == backup_update_complete_time(b)
             n == Len(b.tcs)
         IN /\ c \in Backup
            /\ c.transfers = b.transfers
            /\ Len(c.tcs) = n
            /\ \A i \in 1..n : c.tcs[i].key = b.tcs[i].key
            /\ \A i \in 1..n : c.tcs[i].fault = b.tcs[i].fault
<1> DEFINE n == Len(b.tcs)
           e == [b.tcs[n] EXCEPT !.complete = TRUE]
           f == [b.tcs EXCEPT ![n] = e]
           c == backup_update_complete_time(b)
<1>1. b.tcs \in Seq(TransferComplete) /\ n \in Nat \ {0}
  BY EmptySeq DEF Backup
<1>2. c = [b EXCEPT !.tcs = f]
  BY DEF backup_update_complete_time
<1>3. /\ f \in Seq(TransferComplete) /\ Len(f) = n
      /\ \A i \in 1..n : f[i].key = b.tcs[i].key
      /\ \A i \in 1..n : f[i].fault = b.tcs[i].fault
  <2>1. n \in 1..n /\ b.tcs[n] \in TransferComplete
    BY <1>1, ElementOfSeq
  <2>2. /\ e \in TransferComplete /\ e.key = b.tcs[n].key
        /\ e.fault = b.tcs[n].fault
    BY <2>1 DEF TransferComplete
  <2> HIDE DEF e
  <2>3. /\ f \in Seq(TransferComplete) /\ Len(f) = n
        /\ \A i \in 1..n : f[i] = IF i = n THEN e ELSE b.tcs[i]
    BY <1>1, <2>1, <2>2, ExceptSeq
  <2> QED BY <1>1, <2>2, <2>3
<1>4. c \in Backup /\ c.transfers = b.transfers /\ c.tcs = f
  BY <1>2, <1>3 DEF Backup
<1> QED BY <1>3, <1>4

\* backup_remove_transfer_complete drops the first record.
LEMMA RemoveFirstTransferCompleteType ==
  ASSUME NEW b \in Backup, b.tcs # <<>>
  PROVE  LET c == backup_remove_first_transfer_complete(b)
             n == Len(b.tcs)
         IN /\ c \in Backup
            /\ c.transfers = b.transfers
            /\ n \in Nat \ {0}
            /\ Len(c.tcs) = n - 1
            /\ \A i \in 1..(n - 1) : c.tcs[i] = b.tcs[i + 1]
            /\ Head(b.tcs) = b.tcs[1]
<1> DEFINE c == backup_remove_first_transfer_complete(b)
<1>1. b.tcs \in Seq(TransferComplete)
  BY DEF Backup
<1>2. /\ Tail(b.tcs) \in Seq(TransferComplete)
      /\ Len(Tail(b.tcs)) = Len(b.tcs) - 1
      /\ \A i \in 1..Len(Tail(b.tcs)) : Tail(b.tcs)[i] = b.tcs[i + 1]
  BY <1>1, HeadTailProperties
<1>3. c = [b EXCEPT !.tcs = Tail(b.tcs)]
  BY DEF backup_remove_first_transfer_complete
<1>4. c \in Backup /\ c.transfers = b.transfers /\ c.tcs = Tail(b.tcs)
  BY <1>2, <1>3 DEF Backup
<1>5. Len(b.tcs) \in Nat \ {0} /\ Head(b.tcs) = b.tcs[1]
  BY <1>1, EmptySeq
<1> QED BY <1>2, <1>4, <1>5

\* cwmp_download_launch and cwmp_upload_launch preserve the type invariant.
LEMMA TypeTransfer == TypeInv /\ Transfer => TypeInv'
<1> SUFFICES ASSUME TypeInv, Transfer PROVE TypeInv'
  OBVIOUS
<1>0. /\ {"TRANSFER_COMPLETE", "M_DOWNLOAD", "M_UPLOAD"} \subseteq Code
      /\ NoKey \in KeyOrNone /\ Keys \subseteq KeyOrNone
      /\ backup \in Backup /\ events \in Seq(Event) /\ method_id \in Nat
      /\ cur \in [key : KeyOrNone, kind : Kind, fault : BOOLEAN]
      /\ pc \in LaunchPoint => cur.key \in Keys
      /\ IsFiniteSet(backup.transfers) /\ TypeOK
  BY DEF Code, SingleCode, MultipleCode, KeyOrNone, TypeInv, TypeOK, CurInv
<1>1. CASE LaunchRemove
  <2> DEFINE left == {t \in backup.transfers : t.key # cur.key}
  <2>1. left \subseteq backup.transfers /\ IsFiniteSet(left)
    BY <1>0, FS_Subset
  <2>2. backup' = [backup EXCEPT !.transfers = left]
    BY <1>1 DEF LaunchRemove, backup_remove_transfer
  <2>3. backup' \in Backup /\ IsFiniteSet(backup'.transfers)
    BY <1>0, <2>1, <2>2 DEF Backup
  <2>4. count' \in [Kind -> Int]
    BY <1>0, <1>1 DEF LaunchRemove, TypeOK
  <2>5. transfers' \subseteq transfers
    BY <1>1 DEF LaunchRemove
  <2> QED BY <1>0, <1>1, <2>3, <2>4, <2>5
          DEF LaunchRemove, CutPoint, TypeInv, TypeOK, CurInv, Point,
              LaunchPoint, TcPoint, session, locals, queues, observed
<1>2. CASE LaunchAddTransferComplete
  <2>1. cur.key \in Keys
    BY <1>0, <1>2 DEF LaunchAddTransferComplete, LaunchPoint
  <2>2. method_id' \in Nat /\ NextMethodId \in Nat
    BY <1>0, <1>2 DEF LaunchAddTransferComplete, NextMethodId
  <2>3. Appended(backup, backup', cur.key)
    BY <1>0, <1>2, <2>1, <2>2, AddTransferCompleteType
       DEF LaunchAddTransferComplete
  <2>4. backup'.tcs # <<>>
    BY <1>0, <2>3, EmptySeq DEF Backup, Appended
  <2> QED BY <1>0, <1>2, <2>1, <2>2, <2>3, <2>4
          DEF LaunchAddTransferComplete, Appended, CutPoint, TypeInv, TypeOK,
              CurInv, Point, LaunchPoint, TcPoint, session, locals, queues,
              observed
<1>3. CASE LaunchAddEvent
  <2>1. events' \in Seq(Event) /\ backup' \in Backup /\ SameTransfers
    BY <1>0, <1>3, AddEventType DEF LaunchAddEvent
  <2> QED BY <1>0, <1>3, <2>1
          DEF LaunchAddEvent, SameTransfers, CutPoint, TypeInv, TypeOK, CurInv,
              Point, LaunchPoint, TcPoint, session, locals, queues, observed
<1>4. CASE LaunchAddMEvent
  <2>1. cur.key \in KeyOrNone /\ MEvent[cur.kind] \in Code
    BY <1>0 DEF MEvent, Kind
  <2>2. events' \in Seq(Event) /\ backup' \in Backup /\ SameTransfers
    BY <1>0, <1>4, <2>1, AddEventType DEF LaunchAddMEvent
  <2> QED BY <1>0, <1>4, <2>2
          DEF LaunchAddMEvent, SameTransfers, CutPoint, TypeInv, TypeOK,
              CurInv, Point, LaunchPoint, TcPoint, session, locals, queues,
              observed
<1>5. ASSUME NEW status \in ApplyStatus, LaunchApply(status)
      PROVE  TypeInv'
  <2>0. cur.key \in Keys
    BY <1>0, <1>5 DEF LaunchApply, LaunchPoint
  <2>1. CASE status = "exit"
    <3>1. ProcessGone
      BY <1>5, <2>1 DEF LaunchApply
    <3>2. FileType'
      BY <1>0, <1>5, <2>1 DEF LaunchApply, FileType, TypeOK
    <3> QED BY <3>1, <3>2, ProcessGoneType
  <2>2. CASE status # "exit"
    BY <1>0, <1>5, <2>0, <2>2
       DEF LaunchApply, CutPoint, TypeInv, TypeOK, CurInv, Point, LaunchPoint,
           TcPoint, session, locals, queues, observed
  <2> QED BY <2>1, <2>2
<1>6. CASE LaunchFault
  <2>1. backup.tcs # <<>>
    BY <1>6 DEF LaunchFault, TypeInv, CurInv, TcPoint
  <2>2. /\ backup' \in Backup /\ backup'.transfers = backup.transfers
        /\ Len(backup'.tcs) = Len(backup.tcs)
    BY <1>0, <1>6, <2>1, UpdateFaultType DEF LaunchFault
  <2>3. backup'.tcs # <<>>
    BY <1>0, <2>1, <2>2, EmptySeq DEF Backup
  <2>4. cur' \in [key : KeyOrNone, kind : Kind, fault : BOOLEAN]
    BY <1>0, <1>6, NoCurType DEF LaunchFault
  <2> QED BY <1>0, <1>6, <2>2, <2>3, <2>4
          DEF LaunchFault, cwmp_add_inform_timer, CutPoint, TypeInv, TypeOK,
              CurInv, Point, LaunchPoint, TcPoint, session, locals, queues,
              observed
<1>7. CASE LaunchComplete
  <2>1. backup.tcs # <<>>
    BY <1>7 DEF LaunchComplete, TypeInv, CurInv, TcPoint
  <2>2. backup' \in Backup /\ backup'.transfers = backup.transfers
    BY <1>0, <1>7, <2>1, UpdateCompleteTimeType DEF LaunchComplete
  <2>3. cur' \in [key : KeyOrNone, kind : Kind, fault : BOOLEAN]
    BY <1>0, <1>7 DEF LaunchComplete, NoCur, Kind
  <2> QED BY <1>0, <1>7, <2>2, <2>3
          DEF LaunchComplete, cwmp_add_inform_timer, TypeInv, TypeOK, CurInv,
              Point, LaunchPoint, TcPoint, session, locals, queues, observed
<1> QED BY <1>1, <1>2, <1>3, <1>4, <1>5, <1>6, <1>7 DEF Transfer

\* The steps of cwmp_inform preserve the type invariant.
LEMMA TypeSession == TypeInv /\ Session => TypeInv'
<1> SUFFICES ASSUME TypeInv, Session PROVE TypeInv'
  OBVIOUS
<1>0. /\ NoKey \in KeyOrNone /\ backup \in Backup /\ events \in Seq(Event)
      /\ IsFiniteSet(backup.transfers) /\ TypeOK
  BY DEF KeyOrNone, TypeInv, TypeOK, CurInv
<1>1. CASE RemoveAfterInform
  <2>1. events' \in Seq(Event) /\ backup' \in Backup /\ SameTransfers
    BY <1>0, <1>1, RemoveEventType DEF RemoveAfterInform
  <2> QED BY <1>0, <1>1, <2>1
          DEF RemoveAfterInform, SameTransfers, TypeInv, TypeOK, CurInv, Point,
              LaunchPoint, TcPoint, session, locals, queues, observed
<1>2. CASE ClearNotifications
  BY <1>0, <1>2
     DEF ClearNotifications, TypeInv, TypeOK, CurInv, Point, LaunchPoint,
         TcPoint, session, locals, queues, observed
<1>3. CASE backup_remove_transfer_complete
  <2>1. backup.tcs # <<>>
    BY <1>3 DEF backup_remove_transfer_complete, TypeInv, CurInv, TcPoint
  <2>2. backup' \in Backup /\ backup'.transfers = backup.transfers
    BY <1>0, <1>3, <2>1, RemoveFirstTransferCompleteType
       DEF backup_remove_transfer_complete
  <2> QED BY <1>0, <1>3, <2>2
          DEF backup_remove_transfer_complete, CutPoint, TypeInv, TypeOK,
              CurInv, Point, LaunchPoint, TcPoint, session, locals, queues,
              observed
<1>4. CASE RemoveAfterTransferComplete
  <2>1. events' \in Seq(Event) /\ backup' \in Backup /\ SameTransfers
    BY <1>0, <1>4, RemoveEventType DEF RemoveAfterTransferComplete
  <2> QED BY <1>0, <1>4, <2>1
          DEF RemoveAfterTransferComplete, SameTransfers, TypeInv, TypeOK,
              CurInv, Point, LaunchPoint, TcPoint, session, locals, queues,
              observed
<1>5. CASE RemoveMidDone
  <2>1. cur' \in [key : KeyOrNone, kind : Kind, fault : BOOLEAN]
    BY <1>5, NoCurType DEF RemoveMidDone, TypeInv, TypeOK
  <2> QED BY <1>0, <1>5, <2>1
          DEF RemoveMidDone, CutPoint, TypeInv, TypeOK, CurInv, Point,
              LaunchPoint, TcPoint, session, locals, queues, observed
<1>6. CASE HandleMessages
  BY <1>0, <1>6
     DEF HandleMessages, TypeInv, TypeOK, CurInv, Point, LaunchPoint, TcPoint,
         session, locals, queues, observed
<1>7. CASE EndFactoryReset
  <2>1. dropped' \subseteq Keys
    BY <1>0, <1>7, BackupKeys DEF EndFactoryReset, TransferKeys, TcKeys, TypeOK
  <2>2. backup' \in Backup /\ IsFiniteSet(backup'.transfers)
    BY <1>7, NoBackupType, Zenon DEF EndFactoryReset
  <2>3. FileType'
    BY <1>0, <1>7, <2>1, <2>2 DEF EndFactoryReset, FileType, TypeOK
  <2> QED BY <1>7, <2>3, ProcessGoneType DEF EndFactoryReset
<1>8. CASE EndReboot
  <2>1. FileType'
    BY <1>0, <1>8 DEF EndReboot, FileType, TypeOK, observed
  <2> QED BY <1>8, <2>1, ProcessGoneType DEF EndReboot
<1>9. CASE EndReload
  BY <1>0, <1>9
     DEF EndReload, TypeInv, TypeOK, CurInv, Point, LaunchPoint, TcPoint,
         session, locals, queues, observed
<1>10. CASE EndPlain
  BY <1>0, <1>10
     DEF EndPlain, TypeInv, TypeOK, CurInv, Point, LaunchPoint, TcPoint,
         session, locals, queues, observed
<1>11. CASE SessionSuccess
  BY <1>0, <1>11, BoundsAssumption
     DEF SessionSuccess, TypeInv, TypeOK, CurInv, Point, LaunchPoint, TcPoint,
         session, locals, queues, observed
<1>12. CASE cwmp_retry_session
  <2>1. events' \in Seq(Event) /\ backup' \in Backup /\ SameTransfers
    <3>1. CASE AnyRemovable("NO_RETRY", 0)
      BY <1>0, <1>12, <3>1, RemoveEventType DEF cwmp_retry_session
    <3>2. CASE ~AnyRemovable("NO_RETRY", 0)
      BY <1>0, <1>12, <3>2 DEF cwmp_retry_session, SameTransfers
    <3> QED BY <3>1, <3>2
  <2>2. retry_count' \in 0..RetryCap
    BY <1>0, <1>12, BoundsAssumption DEF cwmp_retry_session, TypeOK
  <2> QED BY <1>0, <1>12, <2>1, <2>2
          DEF cwmp_retry_session, SameTransfers, TypeInv, TypeOK, CurInv,
              Point, LaunchPoint, TcPoint, session, locals, queues, observed
<1> QED BY <1>1, <1>2, <1>3, <1>4, <1>5, <1>6, <1>7, <1>8, <1>9, <1>10, <1>11,
           <1>12
        DEF Session

\* Answers and requests of the ACS preserve the type invariant.
LEMMA TypeAcs ==
  TypeInv /\ (AcsAnswers \/ EmptyMessage \/ AcsRequests) => TypeInv'
<1> SUFFICES ASSUME TypeInv, AcsAnswers \/ EmptyMessage \/ AcsRequests
             PROVE  TypeInv'
  OBVIOUS
<1>0. /\ NoKey \in KeyOrNone /\ Keys \subseteq KeyOrNone
      /\ backup \in Backup /\ events \in Seq(Event)
      /\ IsFiniteSet(backup.transfers) /\ TypeOK
  BY DEF KeyOrNone, TypeInv, TypeOK, CurInv
<1>1. ASSUME NEW hold \in BOOLEAN, InformAnswered(hold)
      PROVE  TypeInv'
  BY <1>0, <1>1, BoundsAssumption
     DEF InformAnswered, HasCode, TypeInv, TypeOK, CurInv, Point, LaunchPoint,
         TcPoint, session, locals, queues, observed
<1>2. ASSUME NEW hold \in BOOLEAN, TransferCompleteAnswered(hold)
      PROVE  TypeInv'
  <2> DEFINE tc == Head(backup.tcs)
  <2>1. backup.tcs # <<>> /\ backup.tcs \in Seq(TransferComplete)
    BY <1>0, <1>2 DEF TransferCompleteAnswered, SendsTransferComplete, Backup
  <2>2. tc \in TransferComplete
    BY <2>1, HeadTailProperties
  <2>3. tc.key \in Keys /\ tc.mid \in Nat /\ tc.fault \in BOOLEAN
    BY <2>2 DEF TransferComplete
  <2>4. acked' \subseteq Keys \X BOOLEAN
    BY <1>0, <1>2, <2>3 DEF TransferCompleteAnswered, TypeOK
  <2>5. mid' \in Nat /\ cur' \in [key : KeyOrNone, kind : Kind, fault : BOOLEAN]
    BY <1>0, <1>2, <2>3, NoCurType
       DEF TransferCompleteAnswered, extract_method_id
  <2>6. tries' \in 0..Max8005
    BY <1>2, BoundsAssumption DEF TransferCompleteAnswered
  <2> QED BY <1>0, <1>2, <2>1, <2>4, <2>5, <2>6
          DEF TransferCompleteAnswered, CutPoint, TypeInv, TypeOK, CurInv,
              Point, LaunchPoint, TcPoint, session, locals, queues, observed
<1>3. ASSUME NEW hold \in BOOLEAN, GetRpcMethodsAnswered(hold)
      PROVE  TypeInv'
  <2>1. tries' \in 0..Max8005
    BY <1>3, BoundsAssumption DEF GetRpcMethodsAnswered
  <2> QED BY <1>0, <1>3, <2>1
          DEF GetRpcMethodsAnswered, TypeInv, TypeOK, CurInv, Point,
              LaunchPoint, TcPoint, session, locals, queues, observed
<1>4. CASE EmptyMessage
  BY <1>0, <1>4
     DEF EmptyMessage, TypeInv, TypeOK, CurInv, Point, LaunchPoint, TcPoint,
         session, locals, queues, observed
<1>5. ASSUME NEW k \in Keys, NEW r \in Requests, HandleTransfer(r, k)
      PROVE  TypeInv'
  <2> DEFINE kind == KindOf[r]
             node == [key |-> k, kind |-> kind]
  <2>1. kind \in Kind
    BY <1>5 DEF HandleTransfer, KindOf, Kind
  <2> HIDE DEF kind
  <2>2. CASE count[kind] >= MaxTransfer
    BY <1>0, <1>5, <2>2
       DEF HandleTransfer, FreshKey, kind, TypeInv, TypeOK, CurInv, Point,
           LaunchPoint, TcPoint, session, locals, queues, observed
  <2>3. CASE ~(count[kind] >= MaxTransfer)
    <3>1. backup.transfers \cup {node} \subseteq TransferNode
      BY <1>0, <2>1 DEF Backup, TransferNode
    <3>2. IsFiniteSet(backup.transfers \cup {node})
      BY <1>0, FS_AddElement
    <3>3. backup' = [backup EXCEPT !.transfers = @ \cup {node}]
      BY <1>5, <2>3 DEF HandleTransfer, backup_add_transfer, kind
    <3>4. /\ backup' \in Backup
          /\ backup'.transfers = backup.transfers \cup {node}
      BY <1>0, <3>1, <3>3 DEF Backup
    <3>5. transfers' \subseteq [key : Keys, kind : Kind, armed : BOOLEAN]
      <4>1. [key |-> k, kind |-> kind, armed |-> TRUE]
              \in [key : Keys, kind : Kind, armed : BOOLEAN]
        BY <2>1
      <4>2. transfers' = transfers \cup {[key |-> k, kind |-> kind, armed |-> TRUE]}
        BY <1>5, <2>3 DEF HandleTransfer, kind
      <4> QED BY <1>0, <4>1, <4>2 DEF TypeOK
    <3>6. count' \in [Kind -> Int]
      BY <1>0, <1>5, <2>1, <2>3 DEF HandleTransfer, kind, TypeOK
    <3> HIDE DEF node
    <3> QED BY <1>0, <1>5, <2>3, <3>2, <3>4, <3>5, <3>6
            DEF HandleTransfer, FreshKey, kind, TypeInv, TypeOK, CurInv, Point,
                LaunchPoint, TcPoint, session, locals, queues, observed
  <2> QED BY <2>2, <2>3
<1>6. ASSUME NEW k \in Keys, HandleReboot(k)
      PROVE  TypeInv'
  <2> DEFINE node == [code |-> "M_REBOOT", key |-> k, mid |-> 0]
  <2>1. node \in Node /\ backup.evs \in Seq(Node)
    BY <1>0 DEF Node, Code, MultipleCode, Backup
  <2>2. Append(backup.evs, node) \in Seq(Node)
    BY <2>1, AppendProperties
  <2>3. backup' = [backup EXCEPT !.evs = Append(backup.evs, node)]
    BY <1>6 DEF HandleReboot, backup_add_event
  <2>4. backup' \in Backup /\ backup'.transfers = backup.transfers
    BY <1>0, <2>2, <2>3 DEF Backup
  <2> QED BY <1>0, <1>6, <2>4
          DEF HandleReboot, FreshKey, TypeInv, TypeOK, CurInv, Point,
              LaunchPoint, TcPoint, session, locals, queues, observed
<1>7. CASE HandleFactoryReset
  BY <1>0, <1>7
     DEF HandleFactoryReset, TypeInv, TypeOK, CurInv, Point, LaunchPoint,
         TcPoint, session, locals, queues, observed
<1>8. ASSUME NEW k \in Keys, HandleScheduleInform(k)
      PROVE  TypeInv'
  BY <1>0, <1>8
     DEF HandleScheduleInform, FreshKey, TypeInv, TypeOK, CurInv, Point,
         LaunchPoint, TcPoint, session, locals, queues, observed
<1>9. ASSUME NEW url \in Urls, HandleSetUrl(url)
      PROVE  TypeInv'
  BY <1>0, <1>9
     DEF HandleSetUrl, TypeInv, TypeOK, CurInv, Point, LaunchPoint, TcPoint,
         session, locals, queues, observed
<1> QED BY <1>1, <1>2, <1>3, <1>4, <1>5, <1>6, <1>7, <1>8, <1>9
        DEF AcsAnswers, AcsRequests

\* Failed exchanges, exits and power cuts preserve the type invariant.
LEMMA TypeFailures == TypeInv /\ Failures => TypeInv'
<1> SUFFICES ASSUME TypeInv, Failures PROVE TypeInv'
  OBVIOUS
<1>0. /\ NoKey \in KeyOrNone /\ Keys \subseteq KeyOrNone
      /\ backup \in Backup /\ events \in Seq(Event)
      /\ cur \in [key : KeyOrNone, kind : Kind, fault : BOOLEAN]
      /\ IsFiniteSet(backup.transfers) /\ TypeOK
  BY DEF KeyOrNone, TypeInv, TypeOK, CurInv
<1>1. CASE ExchangeFails
  <2>1. tries' \in 0..Max8005
    BY <1>1, BoundsAssumption DEF ExchangeFails
  <2> QED BY <1>0, <1>1, <2>1
          DEF ExchangeFails, TypeInv, TypeOK, CurInv, Point, LaunchPoint,
              TcPoint, session, locals, queues, observed
<1>2. CASE Fault8005
  <2>1. tries' \in 0..Max8005
    BY <1>0, <1>2, BoundsAssumption DEF Fault8005, MayRepeat, TypeOK
  <2> QED BY <1>0, <1>2, <2>1
          DEF Fault8005, TypeInv, TypeOK, CurInv, Point, LaunchPoint, TcPoint,
              session, locals, queues, observed
<1>3. CASE ConfigLoadFails
  <2>1. FileType'
    BY <1>0, <1>3 DEF ConfigLoadFails, FileType, TypeOK, observed
  <2> QED BY <1>3, <2>1, ProcessGoneType DEF ConfigLoadFails
<1>4. CASE Crash
  <2>1. crashes' \in 0..MaxCrash
    BY <1>0, <1>4, BoundsAssumption DEF Crash, TypeOK
  <2>2. cut' \subseteq CutPoint \X KeyOrNone
    BY <1>0, <1>4 DEF Crash, TypeOK
  <2>3. FileType'
    BY <1>0, <1>4, <2>1, <2>2 DEF Crash, FileType, TypeOK
  <2> QED BY <1>4, <2>3, ProcessGoneType DEF Crash
<1>5. CASE CrashInSave
  <2>1. crashes' \in 0..MaxCrash
    BY <1>0, <1>5, BoundsAssumption DEF CrashInSave, TypeOK
  <2>2. dropped' \subseteq Keys
    BY <1>0, <1>5, BackupKeys
       DEF CrashInSave, TransferKeys, TcKeys, TypeOK, KeyOrNone
  <2>3. backup' \in Backup /\ IsFiniteSet(backup'.transfers)
    BY <1>5, NoBackupType, Zenon DEF CrashInSave
  <2>4. FileType'
    BY <1>0, <1>5, <2>1, <2>2, <2>3 DEF CrashInSave, FileType, TypeOK
  <2> QED BY <1>5, <2>4, ProcessGoneType DEF CrashInSave
<1> QED BY <1>1, <1>2, <1>3, <1>4, <1>5 DEF Failures

\* Nor does a stuttering step break it.
LEMMA TypeStutter == TypeInv /\ UNCHANGED vars => TypeInv'
BY
   DEF vars, TypeInv, TypeOK, CurInv, Point, LaunchPoint, TcPoint, session,
       locals, queues, observed

\* The type invariant is inductive.
LEMMA TypeStep == TypeInv /\ [Next]_vars => TypeInv'
BY TypeStartup, TypeCallbacks, TypeTransfer, TypeSession, TypeAcs, TypeFailures,
   TypeStutter
   DEF Next

\* Every variable keeps its type, for every number of keys and power cuts: in
\* particular no operation of backup.c writes a file that backup_init could
\* not read back, and no list operation leaves the bounds of its list.
THEOREM TypeCorrect == Spec => []TypeOK
<1>1. Spec => []TypeInv
  BY TypeInit, TypeStep, PTL DEF Spec
<1>2. TypeInv => TypeOK
  BY DEF TypeInv
<1> QED BY <1>1, <1>2, PTL
============================================================================
