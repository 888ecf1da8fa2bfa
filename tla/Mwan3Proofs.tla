---------------------------- MODULE Mwan3Proofs ----------------------------
(***************************************************************************)
(* Mwan3Track for every set of interfaces, every number of hosts and every *)
(* pair of thresholds, under any number of disturbances of every kind: it  *)
(* is type-correct, no tracker reports before its thresholds are met, and  *)
(* the policies follow the states of the interfaces.  With link changes as *)
(* the only disturbance, a late report is corrected by an event still to   *)
(* be served, and the reports that the filter on STATE drops are redundant.*)
(***************************************************************************)
EXTENDS Mwan3Track, FiniteSetTheorems, TLAPS

USE DEF Reports, States

----------------------------------------------------------------------------
(* Types.                                                                  *)

NetType ==
    /\ up \in [Ifaces -> BOOLEAN]
    /\ pend \in [Ifaces -> BOOLEAN]
    /\ cur \in [Ifaces -> {"idle", "ifup", "ifdown"}]
    /\ reach \in [Ifaces -> [Hosts -> Results]]

ProcdType ==
    /\ want \in [Ifaces -> BOOLEAN]
    /\ orphan \in [Ifaces -> SUBSET Reports]
    /\ spent \in 0..MaxDisturbances

FilesType ==
    /\ file \in [Ifaces -> Statuses]
    /\ wanState \in [Ifaces -> Reports \union {""}]
    /\ trackDir \in [Ifaces -> BOOLEAN]

ServiceType ==
    /\ statusDir \in BOOLEAN
    /\ hook \in BOOLEAN
    /\ ifaceState \in [Ifaces -> States]
    /\ rules \subseteq Ifaces
    /\ routed \subseteq Ifaces

HistoryType ==
    /\ fails \in [Ifaces -> 0..Down]
    /\ succs \in [Ifaces -> 0..Up]
    /\ last \in [Ifaces -> {"ifup", "ifdown"}]
    /\ merged \subseteq Ifaces

TrkType == trk \in [Ifaces -> Tracker]

LEMMA TypeParts ==
  TypeOK <=> /\ NetType /\ ProcdType /\ FilesType
             /\ ServiceType /\ HistoryType /\ TrkType
BY DEF TypeOK, NetType, ProcdType, FilesType, ServiceType, HistoryType, TrkType

LEMMA TypeNext ==
  NetType' /\ ProcdType' /\ FilesType' /\ ServiceType' /\ HistoryType' /\ TrkType'
    => TypeOK'
BY DEF TypeOK, NetType, ProcdType, FilesType, ServiceType, HistoryType, TrkType

LEMMA NetSame == NetType /\ UNCHANGED netVars => NetType'
BY DEF NetType, netVars

LEMMA ProcdSame == ProcdType /\ UNCHANGED procdVars => ProcdType'
BY DEF ProcdType, procdVars

LEMMA FilesSame == FilesType /\ UNCHANGED trackFiles => FilesType'
BY DEF FilesType, trackFiles

LEMMA ServiceSame == ServiceType /\ UNCHANGED serviceVars => ServiceType'
BY DEF ServiceType, serviceVars

LEMMA HistorySame == HistoryType /\ UNCHANGED historyVars => HistoryType'
BY DEF HistoryType, historyVars

\* The interfaces that are online are interfaces.
LEMMA OnlineType ==
  ASSUME NEW f \in [Ifaces -> States]
  PROVE  Online(f) \subseteq Ifaces
BY DEF Online

\* mwan3track's update of STATUS keeps the files well typed.
LEMMA ShowType ==
  ASSUME FilesType, NEW i \in Ifaces, NEW status \in Statuses,
         Show(i, status), UNCHANGED <<wanState, trackDir>>
  PROVE  FilesType'
BY DEF FilesType, Show

\* What a report does to the service, and to STATE.
LEMMA HandleReportType ==
  ASSUME ServiceType, FilesType, NEW i \in Ifaces, NEW report \in Reports,
         HandleReport(i, report), UNCHANGED <<file, trackDir>>
  PROVE  ServiceType' /\ FilesType'
<1>1. ifaceState' \in [Ifaces -> States]
  BY DEF HandleReport, ServiceType
<1>2. ServiceType'
  BY <1>1, OnlineType DEF HandleReport, ServiceType
<1>3. FilesType'
  BY DEF HandleReport, FilesType
<1> QED BY <1>2, <1>3

LEMMA SignalledType ==
  ASSUME TrkType, NEW i \in Ifaces, NEW s \in {"USR1", "USR2"}
  PROVE  Signalled(i, s) \in [Ifaces -> Tracker]
BY DEF TrkType, Signalled, Tracker, Places

LEMMA HandleIfupType ==
  ASSUME ServiceType, TrkType, FilesType, HistoryType, NEW i \in Ifaces,
         HandleIfup(i), UNCHANGED <<file, trackDir, fails, succs>>
  PROVE  ServiceType' /\ TrkType' /\ FilesType' /\ HistoryType'
<1>1. ifaceState' \in [Ifaces -> States]
  BY DEF HandleIfup, ServiceType, IfupStatus
<1>2. ServiceType'
  BY <1>1, OnlineType DEF HandleIfup, ServiceType
<1>3. TrkType'
  BY SignalledType DEF HandleIfup, TrkType
<1>4. FilesType' /\ HistoryType'
  BY DEF HandleIfup, FilesType, HistoryType
<1> QED BY <1>2, <1>3, <1>4

LEMMA HandleIfdownType ==
  ASSUME ServiceType, TrkType, FilesType, HistoryType, NEW i \in Ifaces,
         HandleIfdown(i), UNCHANGED <<file, trackDir, fails, succs>>
  PROVE  ServiceType' /\ TrkType' /\ FilesType' /\ HistoryType'
<1>1. ifaceState' \in [Ifaces -> States]
  BY DEF HandleIfdown, ServiceType
<1>2. ServiceType'
  BY <1>1, OnlineType DEF HandleIfdown, ServiceType
<1>3. TrkType'
  BY SignalledType DEF HandleIfdown, TrkType
<1>4. FilesType' /\ HistoryType'
  BY DEF HandleIfdown, FilesType, HistoryType
<1> QED BY <1>2, <1>3, <1>4

\* A tracker that is only moved to another place, or loses its signals, is
\* still a tracker.
LEMMA TrackerType ==
  ASSUME TrkType, NEW i \in Ifaces, NEW t \in Tracker, trk' = [trk EXCEPT ![i] = t]
  PROVE  TrkType'
BY DEF TrkType

\* One disturbance more is within the bound.
LEMMA DisturbType ==
  ASSUME ProcdType, NEW kind, Disturb(kind)
  PROVE  spent' \in 0..MaxDisturbances
BY DisturbancesAssumption DEF ProcdType, Disturb

----------------------------------------------------------------------------
(* The environment and the service script keep the types.                  *)

LEMMA FlipType == ASSUME TypeOK, NEW i \in Ifaces, Flip(i) PROVE TypeOK'
<1> USE TypeParts, TypeNext
<1>1. NetType'
  BY DEF Flip, NetType
<1>2. ProcdType'
  BY DisturbType DEF Flip, ProcdType
<1>3. TrkType'
  BY DEF Flip, TrkType
<1> QED BY <1>1, <1>2, <1>3, FilesSame, ServiceSame, HistorySame DEF Flip

LEMMA StartEventType == ASSUME TypeOK, NEW i \in Ifaces, StartEvent(i) PROVE TypeOK'
<1> USE TypeParts, TypeNext
<1>1. NetType'
  BY DEF StartEvent, NetType
<1>2. TrkType'
  BY DEF StartEvent, TrkType
<1> QED BY <1>1, <1>2, ProcdSame, FilesSame, ServiceSame, HistorySame DEF StartEvent

LEMMA RunEventType == ASSUME TypeOK, NEW i \in Ifaces, RunEvent(i) PROVE TypeOK'
<1> USE TypeParts, TypeNext
<1>1. NetType'
  BY DEF RunEvent, NetType
<1>2. ServiceType' /\ TrkType' /\ FilesType' /\ HistoryType'
  BY HandleIfupType, HandleIfdownType DEF RunEvent
<1> QED BY <1>1, <1>2, ProcdSame DEF RunEvent

LEMMA CommandType == ASSUME TypeOK, NEW i \in Ifaces, Command(i) PROVE TypeOK'
<1> USE TypeParts, TypeNext
<1>1. ProcdType'
  BY DisturbType DEF Command, ProcdType
<1>2. ServiceType' /\ TrkType' /\ FilesType' /\ HistoryType'
  BY HandleIfupType, HandleIfdownType DEF Command
<1> QED BY <1>1, <1>2, NetSame DEF Command

LEMMA ChangeReachType == ASSUME TypeOK, NEW i \in Ifaces, ChangeReach(i) PROVE TypeOK'
<1> USE TypeParts, TypeNext
<1>1. NetType'
  BY DEF ChangeReach, NetType
<1>2. TrkType'
  BY DEF ChangeReach, TrkType
<1> QED BY <1>1, <1>2, ProcdSame, FilesSame, ServiceSame, HistorySame DEF ChangeReach

LEMMA KillType == ASSUME TypeOK, NEW i \in Ifaces, Kill(i) PROVE TypeOK'
<1> USE TypeParts, TypeNext
<1>1. trk[i] \in Tracker
  BY DEF TrkType
<1>2. TrkType'
  BY DEF Kill, TrkType, Tracker, Places
<1>3. trk[i].pc = "call" /\ trk[i].report # "first" => trk[i].report \in Reports
  BY <1>1 DEF Tracker
<1>4. ProcdType'
  BY <1>3, DisturbType DEF Kill, ProcdType
<1> QED BY <1>2, <1>4, NetSame, FilesSame, ServiceSame, HistorySame DEF Kill

LEMMA OrphanCallType == ASSUME TypeOK, NEW i \in Ifaces, OrphanCall(i) PROVE TypeOK'
<1> USE TypeParts, TypeNext
<1>1. PICK report \in orphan[i] :
        HandleReport(i, report) /\ orphan' = [orphan EXCEPT ![i] = @ \ {report}]
  BY DEF OrphanCall
<1>2. report \in Reports
  BY DEF ProcdType
<1>3. ServiceType' /\ FilesType'
  BY <1>1, <1>2, HandleReportType DEF OrphanCall
<1>4. ProcdType'
  BY <1>1 DEF OrphanCall, ProcdType
<1>5. TrkType'
  BY DEF OrphanCall, TrkType
<1> QED BY <1>3, <1>4, <1>5, NetSame, HistorySame DEF OrphanCall

LEMMA StartType == ASSUME TypeOK, Start PROVE TypeOK'
<1> USE TypeParts, TypeNext
<1>1. ifaceState' \in [Ifaces -> States]
  BY DEF Start, IfupStatus, ServiceType
<1>2. ServiceType'
  BY <1>1, OnlineType DEF Start, ServiceType
<1>3. ProcdType' /\ HistoryType'
  BY DEF Start, ProcdType, HistoryType
<1>4. TrkType'
  BY DEF Start, TrkType
<1> QED BY <1>2, <1>3, <1>4, NetSame, FilesSame DEF Start

LEMMA StopType == ASSUME TypeOK, Stop PROVE TypeOK'
<1> USE TypeParts, TypeNext
<1>1. ServiceType'
  BY DEF Stop, ServiceType
<1>2. ProcdType'
  BY DisturbType DEF Stop, ProcdType
<1>3. FilesType'
  BY DEF Stop, FilesType, Statuses
<1>4. TrkType'
  <2>1. ASSUME NEW i \in Ifaces
        PROVE  Terminated(trk[i]) \in Tracker
    <3>1. trk[i] \in Tracker
      BY DEF TrkType
    <3>2. CASE trk[i].pc = "none"
      BY <3>1, <3>2 DEF Terminated
    <3>3. CASE trk[i].pc = "exec"
      BY <3>1, <3>3 DEF Terminated, Tracker, Places
    <3>4. CASE trk[i].pc \notin {"none", "exec"}
      BY <3>1, <3>4 DEF Terminated, Tracker, Places
    <3> QED BY <3>2, <3>3, <3>4
  <2> QED BY <2>1 DEF Stop, TrkType
<1> QED BY <1>1, <1>2, <1>3, <1>4, NetSame, HistorySame DEF Stop

LEMMA LaunchType == ASSUME TypeOK, NEW i \in Ifaces, Launch(i) PROVE TypeOK'
<1> USE TypeParts, TypeNext
<1>1. [NewTracker EXCEPT !.pc = "exec"] \in Tracker
  <2>1. Top \in 0..Top
    BY ThresholdsAssumption DEF Top
  <2> QED BY <2>1 DEF NewTracker, Tracker, Places, Statuses
<1>2. TrkType'
  BY <1>1, TrackerType DEF Launch
<1>3. HistoryType'
  BY ThresholdsAssumption DEF Launch, HistoryType
<1> QED BY <1>2, <1>3, NetSame, ProcdSame, FilesSame, ServiceSame DEF Launch

----------------------------------------------------------------------------
(* The tracker keeps the types.                                            *)

LEMMA BootType == ASSUME TypeOK, NEW i \in Ifaces, Boot(i) PROVE TypeOK'
<1> USE TypeParts, TypeNext
<1>1. TrkType'
  BY DEF Boot, TrkType, Tracker, Places
<1>2. FilesType'
  BY DEF Boot, FilesType
<1> QED BY <1>1, <1>2, NetSame, ProcdSame, ServiceSame, HistorySame DEF Boot

\* So is one that firstconnect has gone through.
LEMMA FirstConnectTracker ==
  ASSUME NEW r \in Tracker, NEW s \in Statuses, NEW n \in BOOLEAN,
         NEW ret \in {"check", "upDone"}
  PROVE  [r EXCEPT !.status = s, !.net = n, !.ret = ret, !.pc = "first"] \in Tracker
BY DEF Tracker, Places

LEMMA FirstConnectType == ASSUME TypeOK, NEW i \in Ifaces, FirstConnect(i) PROVE TypeOK'
<1> USE TypeParts, TypeNext
<1> DEFINE s == IF trk[i].status = "online" THEN trk[i].status ELSE InitialState
           ret == IF trk[i].pc = "boot" THEN "check" ELSE "upDone"
           t == [trk[i] EXCEPT !.status = s, !.net = up[i], !.ret = ret, !.pc = "first"]
<1>1. up[i] \in BOOLEAN
  BY DEF NetType
<1>2. s \in Statuses /\ ret \in {"check", "upDone"}
  BY ThresholdsAssumption DEF Statuses
<1>3. trk[i] \in Tracker
  BY DEF TrkType
<1>4. t \in Tracker
  BY <1>1, <1>2, <1>3, FirstConnectTracker
<1>5. trk' = [trk EXCEPT ![i] = t]
  BY DEF FirstConnect
<1>6. TrkType'
  BY <1>4, <1>5, TrackerType
<1> QED BY <1>6, NetSame, ProcdSame, FilesSame, ServiceSame, HistorySame DEF FirstConnect

\* firstconnect and a handler call return to a place of the tracker.
LEMMA ReturnType ==
  ASSUME NEW t \in Tracker
  PROVE  Return(t) \in Tracker
BY DEF Return, Tracker, Places

LEMMA FirstResultType == ASSUME TypeOK, NEW i \in Ifaces, FirstResult(i) PROVE TypeOK'
<1> USE TypeParts, TypeNext
<1>1. trk[i] \in Tracker
  BY DEF TrkType
<1> DEFINE t == trk[i]
           t1 == [t EXCEPT !.status = "disabled", !.started = FALSE]
           t2 == [t EXCEPT !.started = TRUE, !.score = 0]
           t3 == [t EXCEPT !.started = TRUE, !.status = "online", !.lost = FALSE,
                           !.pc = "call", !.report = "first"]
<1>2. 0 \in 0..Top
  BY ThresholdsAssumption DEF Top
<1>3. t1 \in Tracker /\ t2 \in Tracker /\ t3 \in Tracker
  BY ZenonT(60), <1>1, <1>2 DEF Tracker, Places, Statuses
<1>4. Return(t1) \in Tracker /\ Return(t2) \in Tracker
  BY <1>3, ReturnType
<1>5. \/ trk' = [trk EXCEPT ![i] = Return(t1)]
      \/ trk' = [trk EXCEPT ![i] = Return(t2)]
      \/ trk' = [trk EXCEPT ![i] = t3]
  BY DEF FirstResult
<1> HIDE DEF t1, t2, t3
<1>6. TrkType'
  BY <1>3, <1>4, <1>5, TrackerType
<1>7. FilesType'
  BY ShowType DEF FirstResult, Statuses
<1> QED BY <1>6, <1>7, NetSame, ProcdSame, ServiceSame, HistorySame DEF FirstResult

LEMMA CheckType == ASSUME TypeOK, NEW i \in Ifaces, Check(i) PROVE TypeOK'
<1> USE TypeParts, TypeNext
<1> DEFINE t == [trk[i] EXCEPT !.pc = IF trk[i].started THEN "test" ELSE "fork",
                              !.cut = {}]
<1>1. trk[i] \in Tracker
  BY DEF TrkType
<1>2. t \in Tracker
  BY <1>1 DEF Tracker, Places
<1>3. trk' = [trk EXCEPT ![i] = t]
  BY DEF Check
<1>4. TrkType'
  BY <1>2, <1>3, TrackerType
<1> QED BY <1>4, NetSame, ProcdSame, FilesSame, ServiceSame, HistorySame DEF Check

LEMMA ForkType == ASSUME TypeOK, NEW i \in Ifaces, Fork(i) PROVE TypeOK'
<1> USE TypeParts, TypeNext
<1>1. TrkType'
  BY DEF Fork, TrkType, Tracker, Places
<1> QED BY <1>1, NetSame, ProcdSame, FilesSame, ServiceSame, HistorySame DEF Fork

\* What a round computes: a status for the variable and one for the file, a
\* score within its range, and a report or none.
Outcome == [status : Statuses, file : Statuses, score : 0..Top,
            report : Reports \union {"none"}]

LEMMA BecomeType ==
  ASSUME NEW s \in Statuses, NEW f \in Statuses, NEW status \in Statuses
  PROVE  Become(<<s, f>>, status)[1] \in Statuses /\ Become(<<s, f>>, status)[2] \in Statuses
BY DEF Become

LEMMA AfterFailureType ==
  ASSUME NEW t \in Tracker, NEW f \in Statuses
  PROVE  AfterFailure(t, f) \in Outcome
<1> DEFINE p == Become(<<t.status, f>>, "disconnecting")
<1>1. t.score \in 0..Top /\ t.status \in Statuses /\ Up \in Nat /\ Top \in Nat
  BY ThresholdsAssumption DEF Tracker, Top
<1>2. p[1] \in Statuses /\ p[2] \in Statuses
  BY <1>1, BecomeType DEF Statuses
<1>3. "offline" \in Statuses
  BY DEF Statuses
<1> HIDE DEF p
<1>4. CASE t.score <= Up
  BY <1>1, <1>4 DEF AfterFailure, Outcome
<1>5. CASE t.score > Up /\ t.score - 1 = Up
  BY <1>1, <1>3, <1>5 DEF AfterFailure, Outcome
<1>6. CASE t.score > Up /\ t.score - 1 # Up
  <2>1. AfterFailure(t, f) =
          [status |-> p[1], file |-> p[2], score |-> t.score - 1, report |-> "none"]
    BY <1>1, <1>6 DEF AfterFailure, p
  <2>2. t.score - 1 \in 0..Top
    BY <1>1, <1>6
  <2> QED BY <1>2, <2>1, <2>2 DEF Outcome
<1> QED BY <1>1, <1>4, <1>5, <1>6

LEMMA AfterSuccessType ==
  ASSUME NEW t \in Tracker, NEW f \in Statuses, NEW lost \in BOOLEAN
  PROVE  AfterSuccess(t, f, lost) \in Outcome
<1> DEFINE p == IF t.score < Top /\ lost THEN Become(<<t.status, f>>, "connecting")
                                         ELSE <<t.status, f>>
           q == Become(p, "connecting")
           s == t.score + 1
<1>1. /\ t.score \in 0..Top /\ t.status \in Statuses
      /\ Up \in Nat \ {0} /\ Top \in Nat /\ Top > Up
  BY ThresholdsAssumption DEF Tracker, Top
<1>2. "connecting" \in Statuses /\ "online" \in Statuses
  BY DEF Statuses
<1>3. p[1] \in Statuses /\ p[2] \in Statuses /\ p = <<p[1], p[2]>>
  BY <1>1, <1>2, BecomeType DEF Become
<1>4. q[1] \in Statuses /\ q[2] \in Statuses
  BY <1>2, <1>3, BecomeType
<1>5. AfterSuccess(t, f, lost) =
        CASE s > Up -> [status |-> p[1], file |-> "online", score |-> Top, report |-> "none"]
          [] s = Up -> [status |-> "online", file |-> "online", score |-> Up, report |-> "connected"]
          [] OTHER  -> [status |-> q[1], file |-> q[2], score |-> s, report |-> "none"]
  BY DEF AfterSuccess
<1>6. s \in Nat
  BY <1>1
<1> HIDE DEF p, q
<1>7. CASE s > Up
  BY <1>1, <1>2, <1>3, <1>5, <1>7 DEF Outcome
<1>8. CASE s = Up
  BY <1>1, <1>2, <1>5, <1>8 DEF Outcome
<1>9. CASE s < Up
  BY <1>1, <1>4, <1>5, <1>9 DEF Outcome
<1> QED BY <1>1, <1>6, <1>7, <1>8, <1>9

LEMMA BumpType ==
  ASSUME NEW bound \in Nat, NEW n \in 0..bound
  PROVE  Bump(n, bound) \in 0..bound
BY DEF Bump

LEMMA RoundType == ASSUME TypeOK, NEW i \in Ifaces, Round(i) PROVE TypeOK'
<1> USE TypeParts, TypeNext
<1> DEFINE t    == trk[i]
           r    == Answers(i)
           ok   == Succeeded(r)
           lost == t.lost \/ LostOne(r)
           a    == IF ok THEN AfterSuccess(t, file[i], lost) ELSE AfterFailure(t, file[i])
           n    == [t EXCEPT !.status = a.status, !.score = a.score, !.cut = {},
                             !.lost = ~ok /\ lost,
                             !.pc = IF a.report = "none" THEN "rest" ELSE "call",
                             !.ret = IF a.report = "none" THEN @ ELSE "rest",
                             !.report = IF a.report = "none" THEN @ ELSE a.report]
<1>1. t \in Tracker /\ file[i] \in Statuses
  BY DEF TrkType, FilesType
<1>2. ok \in BOOLEAN /\ lost \in BOOLEAN
  BY <1>1 DEF Succeeded, LostOne, Tracker
<1>3. a \in Outcome
  BY <1>1, <1>2, AfterSuccessType, AfterFailureType
<1>4. trk' = [trk EXCEPT ![i] = n] /\ Show(i, a.file)
  BY DEF Round
<1>5. /\ fails' = [fails EXCEPT ![i] = IF ok THEN 0 ELSE Bump(@, Down)]
      /\ succs' = [succs EXCEPT ![i] = IF ok THEN Bump(@, Up) ELSE 0]
      /\ UNCHANGED <<netVars, procdVars, wanState, trackDir, serviceVars, last, merged>>
  BY DEF Round
<1> HIDE DEF r, ok, lost, a
<1>6. n \in Tracker
  BY ZenonT(60), <1>1, <1>2, <1>3 DEF Outcome, Tracker, Places
<1> HIDE DEF n
<1>7. TrkType'
  BY <1>4, <1>6, TrackerType
<1>8. FilesType'
  BY <1>3, <1>4, <1>5, ShowType DEF Outcome
<1>9. HistoryType'
  <2>1. Bump(fails[i], Down) \in 0..Down /\ Bump(succs[i], Up) \in 0..Up
    BY BumpType, ThresholdsAssumption DEF HistoryType
  <2> QED BY <1>2, <1>5, <2>1, ThresholdsAssumption DEF HistoryType
<1> QED BY <1>5, <1>7, <1>8, <1>9, NetSame, ProcdSame, ServiceSame

LEMMA RestType == ASSUME TypeOK, NEW i \in Ifaces, Rest(i) PROVE TypeOK'
<1> USE TypeParts, TypeNext
<1>1. TrkType'
  BY DEF Rest, TrkType, Tracker, Places
<1> QED BY <1>1, NetSame, ProcdSame, FilesSame, ServiceSame, HistorySame DEF Rest

LEMMA IfdownEventType == ASSUME TypeOK, NEW i \in Ifaces, IfdownEvent(i) PROVE TypeOK'
<1> USE TypeParts, TypeNext
<1>1. trk[i] \in Tracker /\ 0 \in 0..Top
  BY ThresholdsAssumption DEF TrkType, Top
<1>2. TrkType'
  <2>1. CASE trk[i].downEv
    <3> DEFINE t == [trk[i] EXCEPT !.status = "offline", !.started = FALSE, !.score = 0,
                             !.pc = "call", !.ret = "downDone", !.report = "disconnected"]
    <3>1. t \in Tracker
      BY <1>1 DEF Tracker, Places, Statuses
    <3>2. trk' = [trk EXCEPT ![i] = t]
      BY <2>1 DEF IfdownEvent
    <3> QED BY <3>1, <3>2, TrackerType
  <2>2. CASE ~trk[i].downEv
    BY <1>1, <2>2 DEF IfdownEvent, TrkType, Tracker, Places
  <2> QED BY <2>1, <2>2
<1>3. FilesType'
  BY ShowType DEF IfdownEvent, FilesType, Statuses
<1> QED BY <1>2, <1>3, NetSame, ProcdSame, ServiceSame, HistorySame DEF IfdownEvent

LEMMA ClearEventType == ASSUME TypeOK, NEW i \in Ifaces, ClearEvent(i) PROVE TypeOK'
<1> USE TypeParts, TypeNext
<1> DEFINE t1 == [trk[i] EXCEPT !.downEv = FALSE, !.pc = "ifup"]
           t2 == [trk[i] EXCEPT !.upEv = FALSE, !.pc = "check"]
<1>1. trk[i] \in Tracker
  BY DEF TrkType
<1>2. t1 \in Tracker /\ t2 \in Tracker
  BY <1>1 DEF Tracker, Places
<1>3. trk' = [trk EXCEPT ![i] = t1] \/ trk' = [trk EXCEPT ![i] = t2]
  BY DEF ClearEvent
<1> HIDE DEF t1, t2
<1>4. TrkType'
  BY <1>2, <1>3, TrackerType
<1> QED BY <1>4, NetSame, ProcdSame, FilesSame, ServiceSame, HistorySame DEF ClearEvent

LEMMA NoIfupEventType == ASSUME TypeOK, NEW i \in Ifaces, NoIfupEvent(i) PROVE TypeOK'
<1> USE TypeParts, TypeNext
<1>1. TrkType'
  BY DEF NoIfupEvent, TrkType, Tracker, Places
<1> QED BY <1>1, NetSame, ProcdSame, FilesSame, ServiceSame, HistorySame DEF NoIfupEvent

LEMMA CallType == ASSUME TypeOK, NEW i \in Ifaces, Call(i) PROVE TypeOK'
<1> USE TypeParts, TypeNext
<1>1. trk[i] \in Tracker
  BY DEF TrkType
<1>2. trk' = [trk EXCEPT ![i] = Return(trk[i])]
  BY DEF Call
<1>3. TrkType'
  BY <1>1, <1>2, ReturnType, TrackerType
<1>4. ServiceType' /\ FilesType'
  <2>1. CASE trk[i].report = "first"
    BY <2>1, ServiceSame DEF Call, FilesType
  <2>2. CASE trk[i].report # "first"
    <3>1. trk[i].report \in Reports
      BY <1>1, <2>2 DEF Tracker
    <3> QED BY <2>2, <3>1, HandleReportType DEF Call
  <2> QED BY <2>1, <2>2
<1> QED BY <1>3, <1>4, NetSame, ProcdSame, HistorySame DEF Call

LEMMA TrapType == ASSUME TypeOK, NEW i \in Ifaces, Trap(i) PROVE TypeOK'
<1> USE TypeParts, TypeNext
<1>1. trk[i] \in Tracker
  BY DEF TrkType
<1>2. TrkType'
  <2>1. CASE "TERM" \in trk[i].sig
    <3>1. [trk[i] EXCEPT !.pc = "none", !.sig = {}] \in Tracker
      BY <1>1 DEF Tracker, Places
    <3>2. trk' = [trk EXCEPT ![i] = [trk[i] EXCEPT !.pc = "none", !.sig = {}]]
      BY <2>1 DEF Trap
    <3> QED BY <3>1, <3>2, TrackerType
  <2>2. CASE "TERM" \notin trk[i].sig
    <3> DEFINE s == IF "USR1" \in trk[i].sig THEN "USR1" ELSE "USR2"
               n(cut) == [trk[i] EXCEPT !.sig = @ \ {s},
                            !.cut = cut,
                            !.pc = IF @ = "nap" THEN "test" ELSE @,
                            !.downEv = (s = "USR1"),
                            !.upEv = @ \/ s = "USR2",
                            !.started = @ \/ s = "USR2"]
    <3>1. PICK cut \in {trk[i].cut} \union
             (IF trk[i].pc = "test" THEN {trk[i].cut \union {h} : h \in Hosts} ELSE {}) :
               trk' = [trk EXCEPT ![i] = n(cut)]
      BY <2>2 DEF Trap
    <3>2. cut \in SUBSET Hosts
      BY <1>1 DEF Tracker
    <3> HIDE DEF s, n
    <3>3. n(cut) \in Tracker
      <4> DEFINE sig == trk[i].sig \ {s}
                 pc == IF trk[i].pc = "nap" THEN "test" ELSE trk[i].pc
      <4>1. sig \in SUBSET {"USR1", "USR2", "TERM"} /\ pc \in Places
        BY <1>1 DEF Tracker, Places
      <4>2. CASE s = "USR1"
        <5>1. n(cut) = [trk[i] EXCEPT !.sig = sig, !.cut = cut, !.pc = pc, !.downEv = TRUE]
          BY <1>1, <4>2 DEF Tracker, n
        <5> HIDE DEF sig, pc
        <5> QED BY ZenonT(60), <1>1, <3>2, <4>1, <5>1 DEF Tracker
      <4>3. CASE s # "USR1"
        <5>1. n(cut) = [trk[i] EXCEPT !.sig = sig, !.cut = cut, !.pc = pc, !.downEv = FALSE,
                          !.upEv = TRUE, !.started = TRUE]
          BY <1>1, <4>3 DEF Tracker, n, s
        <5> HIDE DEF sig, pc
        <5> QED BY ZenonT(60), <1>1, <3>2, <4>1, <5>1 DEF Tracker
      <4> QED BY <4>2, <4>3
    <3> QED BY <3>1, <3>3, TrackerType
  <2> QED BY <2>1, <2>2
<1> QED BY <1>2, NetSame, ProcdSame, FilesSame, ServiceSame, HistorySame DEF Trap

----------------------------------------------------------------------------

LEMMA TypeInit == Init => TypeOK
<1> SUFFICES ASSUME Init PROVE TypeOK
  OBVIOUS
<1> USE TypeParts, ThresholdsAssumption, DisturbancesAssumption
<1>1. /\ NetType
      /\ ProcdType
      /\ FilesType
      /\ ServiceType
      /\ HistoryType
  <2>1. NetType
    BY DEF Init, NetType
  <2>2. ProcdType
    <3>1. 0 \in 0..MaxDisturbances
      OBVIOUS
    <3> QED BY <3>1 DEF Init, ProcdType
  <2>3. FilesType
    BY DEF Init, FilesType, Statuses
  <2>4. ServiceType
    BY DEF Init, ServiceType
  <2>5. HistoryType
    <3>1. 0 \in 0..Down /\ 0 \in 0..Up
      OBVIOUS
    <3> QED BY <3>1 DEF Init, HistoryType
  <2> QED BY <2>1, <2>2, <2>3, <2>4, <2>5
<1>2. Top \in 0..Top
  BY DEF Top
<1>3. NewTracker \in Tracker
  BY <1>2 DEF NewTracker, Tracker, Places, Statuses
<1>4. TrkType
  BY <1>3 DEF Init, TrkType
<1> QED BY <1>1, <1>4

LEMMA TypeStep == TypeOK /\ [Next]_vars => TypeOK'
<1> SUFFICES ASSUME TypeOK, [Next]_vars PROVE TypeOK'
  OBVIOUS
<1>1. CASE Start
  BY <1>1, StartType
<1>2. CASE Stop
  BY <1>2, StopType
<1>3. ASSUME NEW i \in Ifaces, TrackerStep(i) PROVE TypeOK'
  BY <1>3, BootType, FirstConnectType, FirstResultType, CheckType, ForkType,
     RoundType, RestType, IfdownEventType, ClearEventType, NoIfupEventType,
     CallType, TrapType DEF TrackerStep
<1>4. ASSUME NEW i \in Ifaces, HandlerStep(i) PROVE TypeOK'
  BY <1>4, StartEventType, RunEventType, OrphanCallType DEF HandlerStep
<1>5. ASSUME NEW i \in Ifaces, Launch(i) PROVE TypeOK'
  BY <1>5, LaunchType
<1>6. ASSUME NEW i \in Ifaces, EnvironmentStep(i) PROVE TypeOK'
  BY <1>6, FlipType, CommandType, ChangeReachType, KillType DEF EnvironmentStep
<1>7. CASE UNCHANGED vars
  <2>1. TrkType'
    BY <1>7, TypeParts DEF vars, TrkType
  <2> QED BY <1>7, <2>1, TypeParts, TypeNext, NetSame, ProcdSame, FilesSame,
             ServiceSame, HistorySame DEF vars
<1> QED BY <1>1, <1>2, <1>3, <1>4, <1>5, <1>6, <1>7 DEF Next

\* Every variable of the tracker, the handler and the service keeps its type:
\* no sequence of rounds, signals, kills and restarts takes a score out of
\* 0..down+up, or STATUS out of the words mwan3 knows (mwan3track:340-404).
THEOREM Mwan3TypeCorrect == Spec => []TypeOK
<1>1. Init => TypeOK
  BY TypeInit
<1>2. TypeOK /\ [Next]_vars => TypeOK'
  BY TypeStep
<1> QED BY <1>1, <1>2, PTL DEF Spec

----------------------------------------------------------------------------
(* Thresholds.  A score above Up is full but for the failures in a row, a  *)
(* score up to Up counts no more successes than came in a row.             *)

ScoreCounts(i) ==
    /\ trk[i].score > Up => fails[i] >= Top - trk[i].score
    /\ trk[i].score <= Up => succs[i] >= trk[i].score

ThresholdInv ==
    /\ \A i \in Ifaces : ScoreCounts(i)
    /\ ThresholdsRespected

\* A step that leaves the rounds alone, keeps or clears every score and lets
\* no tracker report what it did not report before.
Quiet ==
    /\ UNCHANGED <<fails, succs>>
    /\ \A i \in Ifaces :
         /\ trk'[i].score \in {trk[i].score, 0}
         /\ \A report \in Reports : Reporting(i, report)' => Reporting(i, report)

LEMMA QuietThreshold ==
  ASSUME TypeOK, ThresholdInv, Quiet
  PROVE  ThresholdInv'
<1>1. ASSUME NEW i \in Ifaces PROVE ScoreCounts(i)'
  <2>1. fails[i] \in 0..Down /\ succs[i] \in 0..Up /\ trk[i].score \in 0..Top
    BY DEF TypeOK, Tracker
  <2> QED BY <2>1, ThresholdsAssumption DEF Quiet, ThresholdInv, ScoreCounts, Top
<1>2. ThresholdsRespected'
  BY DEF Quiet, ThresholdInv, ThresholdsRespected
<1> QED BY <1>1, <1>2 DEF ThresholdInv

\* One tracker changes, and neither its score nor its report.
LEMMA QuietTracker ==
  ASSUME TypeOK, NEW i \in Ifaces, NEW t, trk' = [trk EXCEPT ![i] = t],
         t.score \in {trk[i].score, 0}, UNCHANGED <<fails, succs>>,
         \/ t.pc # "call"
         \/ t.pc = "call" /\ t.ret # "rest"
         \/ t.pc = "call" /\ t.report = "first"
         \/ t.pc = trk[i].pc /\ t.ret = trk[i].ret /\ t.report = trk[i].report
  PROVE  Quiet
<1>1. ASSUME NEW j \in Ifaces, j # i PROVE trk'[j] = trk[j]
  BY <1>1 DEF TypeOK
<1>2. trk'[i] = t
  BY DEF TypeOK
<1>3. ASSUME NEW j \in Ifaces
      PROVE  /\ trk'[j].score \in {trk[j].score, 0}
             /\ \A report \in Reports : Reporting(j, report)' => Reporting(j, report)
  <2>1. CASE j # i
    BY <1>1, <2>1 DEF Reporting, Calling
  <2>2. CASE j = i
    BY <1>2, <2>2 DEF Reporting, Calling
  <2> QED BY <2>1, <2>2
<1> QED BY <1>3 DEF Quiet

\* A signal disturbs neither.
LEMMA QuietSignal ==
  ASSUME TypeOK, NEW i \in Ifaces, NEW s, trk' = Signalled(i, s),
         UNCHANGED <<fails, succs>>
  PROVE  Quiet
<1>1. trk[i] \in Tracker
  BY DEF TypeOK
<1>2. CASE trk' = trk
  BY <1>2 DEF Quiet, Reporting, Calling
<1>3. CASE trk' = [trk EXCEPT ![i].pc = "none"]
  <2> DEFINE t == [trk[i] EXCEPT !.pc = "none"]
  <2>1. t.score = trk[i].score /\ t.pc # "call"
    BY <1>1 DEF Tracker
  <2>2. trk' = [trk EXCEPT ![i] = t]
    BY <1>3
  <2> QED BY <2>1, <2>2, QuietTracker
<1>4. CASE trk' = [trk EXCEPT ![i].sig = @ \union {s}]
  <2> DEFINE t == [trk[i] EXCEPT !.sig = @ \union {s}]
  <2>1. t.score = trk[i].score /\ t.pc = trk[i].pc /\ t.ret = trk[i].ret
        /\ t.report = trk[i].report
    BY <1>1 DEF Tracker
  <2>2. trk' = [trk EXCEPT ![i] = t]
    BY <1>4
  <2> QED BY <2>1, <2>2, QuietTracker
<1> QED BY <1>2, <1>3, <1>4 DEF Signalled

LEMMA QuietNothing ==
  ASSUME UNCHANGED <<trk, fails, succs>>
  PROVE  Quiet
BY DEF Quiet, Reporting, Calling

LEMMA QuietEnvironment ==
  ASSUME TypeOK, NEW i \in Ifaces, EnvironmentStep(i)
  PROVE  Quiet
<1>1. CASE Flip(i)
  BY <1>1, QuietNothing DEF Flip, historyVars
<1>2. CASE Command(i)
  BY <1>2, QuietNothing, QuietSignal DEF Command, HandleIfup, HandleIfdown
<1>3. CASE ChangeReach(i)
  BY <1>3, QuietNothing DEF ChangeReach, historyVars
<1>4. CASE Kill(i)
  <2> DEFINE t == [trk[i] EXCEPT !.pc = "none"]
  <2>0. trk[i] \in Tracker
    BY DEF TypeOK
  <2>1. t.score = trk[i].score /\ t.pc # "call"
    BY <2>0 DEF Tracker
  <2>2. trk' = [trk EXCEPT ![i] = t] /\ UNCHANGED <<fails, succs>>
    BY <1>4 DEF Kill, historyVars
  <2> QED BY <2>1, <2>2, QuietTracker
<1> QED BY <1>1, <1>2, <1>3, <1>4 DEF EnvironmentStep

LEMMA QuietHandler ==
  ASSUME TypeOK, NEW i \in Ifaces, HandlerStep(i)
  PROVE  Quiet
<1>1. CASE StartEvent(i)
  BY <1>1, QuietNothing DEF StartEvent, historyVars
<1>2. CASE RunEvent(i)
  BY <1>2, QuietNothing, QuietSignal DEF RunEvent, HandleIfup, HandleIfdown
<1>3. CASE OrphanCall(i)
  BY <1>3, QuietNothing DEF OrphanCall, historyVars
<1> QED BY <1>1, <1>2, <1>3 DEF HandlerStep

LEMMA QuietService ==
  ASSUME TypeOK, Start \/ Stop
  PROVE  Quiet
<1>1. CASE Start
  BY <1>1, QuietNothing DEF Start
<1>2. CASE Stop
  <2>1. UNCHANGED <<fails, succs>> /\ trk' = [i \in Ifaces |-> Terminated(trk[i])]
    BY <1>2 DEF Stop, historyVars
  <2>2. ASSUME NEW i \in Ifaces
        PROVE  /\ trk'[i].score = trk[i].score
               /\ trk'[i].pc = "call" => trk[i].pc = "call"
               /\ trk'[i].ret = trk[i].ret /\ trk'[i].report = trk[i].report
    <3>1. trk'[i] = Terminated(trk[i]) /\ trk[i] \in Tracker
      BY <2>1 DEF TypeOK
    <3>2. CASE trk[i].pc = "none"
      BY <3>1, <3>2 DEF Terminated
    <3>3. CASE trk[i].pc = "exec"
      BY <3>1, <3>3 DEF Terminated, Tracker
    <3>4. CASE trk[i].pc \notin {"none", "exec"}
      BY <3>1, <3>4 DEF Terminated, Tracker
    <3> QED BY <3>2, <3>3, <3>4
  <2> QED BY <2>1, <2>2 DEF Quiet, Reporting, Calling
<1> QED BY <1>1, <1>2

\* Every step of a tracker but its rounds.
LEMMA QuietTrackerStep ==
  ASSUME TypeOK, NEW i \in Ifaces, TrackerStep(i), ~Round(i)
  PROVE  Quiet
<1>1. trk[i] \in Tracker
  BY DEF TypeOK
<1>2. \/ Boot(i) \/ FirstConnect(i) \/ FirstResult(i) \/ Check(i) \/ Fork(i)
      \/ Rest(i) \/ IfdownEvent(i) \/ ClearEvent(i) \/ NoIfupEvent(i)
      \/ Call(i) \/ Trap(i)
  BY DEF TrackerStep
<1>3. UNCHANGED <<fails, succs>>
  BY <1>2 DEF Boot, FirstConnect, FirstResult, Check, Fork, Rest, IfdownEvent,
              ClearEvent, NoIfupEvent, Call, Trap, historyVars
<1>4. SUFFICES \E t :
        /\ trk' = [trk EXCEPT ![i] = t]
        /\ t.score \in {trk[i].score, 0}
        /\ \/ t.pc # "call"
           \/ t.pc = "call" /\ t.ret # "rest"
           \/ t.pc = "call" /\ t.report = "first"
           \/ t.pc = trk[i].pc /\ t.ret = trk[i].ret /\ t.report = trk[i].report
  BY <1>3, QuietTracker
<1>5. CASE Boot(i)
  <2> WITNESS [trk[i] EXCEPT !.pc = "boot"]
  <2> QED BY <1>1, <1>5 DEF Boot, Tracker
<1>6. CASE FirstConnect(i)
  <2> DEFINE t == [trk[i] EXCEPT !.status = IF @ = "online" THEN @ ELSE InitialState,
                                 !.net = up[i],
                                 !.ret = IF trk[i].pc = "boot" THEN "check" ELSE "upDone",
                                 !.pc = "first"]
  <2>1. t.score = trk[i].score /\ t.pc # "call"
    BY <1>1 DEF Tracker
  <2>2. trk' = [trk EXCEPT ![i] = t]
    BY <1>6 DEF FirstConnect
  <2> HIDE DEF t
  <2> QED BY <2>1, <2>2
<1>7. CASE FirstResult(i)
  <2> DEFINE t1 == Return([trk[i] EXCEPT !.status = "disabled", !.started = FALSE])
             t2 == Return([trk[i] EXCEPT !.started = TRUE, !.score = 0])
             t3 == [trk[i] EXCEPT !.started = TRUE, !.status = "online", !.lost = FALSE,
                                  !.pc = "call", !.report = "first"]
  <2>1. /\ t1.score = trk[i].score /\ t2.score = 0 /\ t3.score = trk[i].score
        /\ t1.pc # "call" /\ t2.pc # "call" /\ t3.pc = "call" /\ t3.report = "first"
    BY <1>1 DEF Return, Tracker
  <2>2. \/ trk' = [trk EXCEPT ![i] = t1]
        \/ trk' = [trk EXCEPT ![i] = t2]
        \/ trk' = [trk EXCEPT ![i] = t3]
    BY <1>7 DEF FirstResult
  <2> HIDE DEF t1, t2, t3
  <2> QED BY <2>1, <2>2
<1>8. CASE Check(i)
  <2> DEFINE t == [trk[i] EXCEPT !.pc = IF trk[i].started THEN "test" ELSE "fork", !.cut = {}]
  <2>1. t.score = trk[i].score /\ t.pc # "call"
    BY <1>1 DEF Tracker
  <2>2. trk' = [trk EXCEPT ![i] = t]
    BY <1>8 DEF Check
  <2> HIDE DEF t
  <2> QED BY <2>1, <2>2
<1>9. CASE Fork(i)
  <2> WITNESS [trk[i] EXCEPT !.pc = "nap"]
  <2> QED BY <1>1, <1>9 DEF Fork, Tracker
<1>10. CASE Rest(i)
  <2> WITNESS [trk[i] EXCEPT !.pc = "ifdown"]
  <2> QED BY <1>1, <1>10 DEF Rest, Tracker
<1>11. CASE IfdownEvent(i)
  <2> DEFINE t1 == [trk[i] EXCEPT !.status = "offline", !.started = FALSE, !.score = 0,
                           !.pc = "call", !.ret = "downDone", !.report = "disconnected"]
             t2 == [trk[i] EXCEPT !.pc = "ifup"]
  <2>1. /\ t1.score = 0 /\ t1.pc = "call" /\ t1.ret # "rest"
        /\ t2.score = trk[i].score /\ t2.pc # "call"
    BY <1>1 DEF Tracker
  <2>2. trk' = [trk EXCEPT ![i] = t1] \/ trk' = [trk EXCEPT ![i] = t2]
    BY <1>11 DEF IfdownEvent
  <2> HIDE DEF t1, t2
  <2> QED BY <2>1, <2>2
<1>12. CASE ClearEvent(i)
  <2> DEFINE t1 == [trk[i] EXCEPT !.downEv = FALSE, !.pc = "ifup"]
             t2 == [trk[i] EXCEPT !.upEv = FALSE, !.pc = "check"]
  <2>1. /\ t1.score = trk[i].score /\ t1.pc # "call"
        /\ t2.score = trk[i].score /\ t2.pc # "call"
    BY <1>1 DEF Tracker
  <2>2. trk' = [trk EXCEPT ![i] = t1] \/ trk' = [trk EXCEPT ![i] = t2]
    BY <1>12 DEF ClearEvent
  <2> HIDE DEF t1, t2
  <2> QED BY <2>1, <2>2
<1>13. CASE NoIfupEvent(i)
  <2> WITNESS [trk[i] EXCEPT !.pc = "check"]
  <2> QED BY <1>1, <1>13 DEF NoIfupEvent, Tracker
<1>14. CASE Call(i)
  <2> WITNESS Return(trk[i])
  <2> QED BY <1>1, <1>14 DEF Call, Return, Tracker
<1>15. CASE Trap(i)
  <2>1. trk[i].pc # "call"
    BY <1>15 DEF Trap
  <2>2. PICK t : /\ trk' = [trk EXCEPT ![i] = t]
                 /\ t.score = trk[i].score /\ t.pc \in {trk[i].pc, "none", "test"}
    <3>1. CASE "TERM" \in trk[i].sig
      <4> WITNESS [trk[i] EXCEPT !.pc = "none", !.sig = {}]
      <4> QED BY ZenonT(60), <1>1, <1>15, <3>1 DEF Trap, Tracker
    <3>2. CASE "TERM" \notin trk[i].sig
      <4> DEFINE s == IF "USR1" \in trk[i].sig THEN "USR1" ELSE "USR2"
                 n(cut) == [trk[i] EXCEPT !.sig = @ \ {s},
                              !.cut = cut,
                              !.pc = IF @ = "nap" THEN "test" ELSE @,
                              !.downEv = (s = "USR1"),
                              !.upEv = @ \/ s = "USR2",
                              !.started = @ \/ s = "USR2"]
      <4>1. PICK cut : trk' = [trk EXCEPT ![i] = n(cut)]
        BY <1>15, <3>2 DEF Trap
      <4>2. n(cut).score = trk[i].score /\ n(cut).pc \in {trk[i].pc, "none", "test"}
        BY <1>1 DEF Tracker
      <4> HIDE DEF n
      <4> QED BY <4>1, <4>2
    <3> QED BY <3>1, <3>2
  <2> QED BY <2>1, <2>2
<1> QED BY <1>2, <1>5, <1>6, <1>7, <1>8, <1>9, <1>10, <1>11, <1>12, <1>13, <1>14, <1>15

\* A round keeps the counts, and reports at the thresholds.
LEMMA RoundThreshold ==
  ASSUME TypeOK, ThresholdInv, NEW i \in Ifaces, Round(i)
  PROVE  ThresholdInv'
<1> DEFINE t    == trk[i]
           ok   == Succeeded(Answers(i))
           lost == t.lost \/ LostOne(Answers(i))
           a    == IF ok THEN AfterSuccess(t, file[i], lost) ELSE AfterFailure(t, file[i])
           n    == [t EXCEPT !.status = a.status, !.score = a.score, !.cut = {},
                             !.lost = ~ok /\ lost,
                             !.pc = IF a.report = "none" THEN "rest" ELSE "call",
                             !.ret = IF a.report = "none" THEN @ ELSE "rest",
                             !.report = IF a.report = "none" THEN @ ELSE a.report]
<1>1. /\ trk' = [trk EXCEPT ![i] = n]
      /\ fails' = [fails EXCEPT ![i] = IF ok THEN 0 ELSE Bump(@, Down)]
      /\ succs' = [succs EXCEPT ![i] = IF ok THEN Bump(@, Up) ELSE 0]
  BY DEF Round
<1>2. ASSUME NEW j \in Ifaces, j # i
      PROVE  trk'[j] = trk[j] /\ fails'[j] = fails[j] /\ succs'[j] = succs[j]
  BY <1>1, <1>2 DEF TypeOK
<1>3. /\ trk'[i] = n
      /\ fails'[i] = IF ok THEN 0 ELSE Bump(fails[i], Down)
      /\ succs'[i] = IF ok THEN Bump(succs[i], Up) ELSE 0
  BY <1>1 DEF TypeOK
<1>4. /\ t \in Tracker /\ t.score \in 0..Top
      /\ fails[i] \in 0..Down /\ succs[i] \in 0..Up
      /\ Up \in Nat \ {0} /\ Down \in Nat \ {0} /\ Top = Down + Up
  BY ThresholdsAssumption DEF TypeOK, Tracker, Top
<1>5. /\ n.score = a.score
      /\ n.pc = IF a.report = "none" THEN "rest" ELSE "call"
      /\ a.report # "none" => n.report = a.report
  BY <1>4 DEF Tracker
<1>6. ScoreCounts(i)
  BY DEF ThresholdInv
<1>7. /\ a.score > Up => fails'[i] >= Top - a.score
      /\ a.score <= Up => succs'[i] >= a.score
      /\ a.report = "connected" => succs'[i] = Up
      /\ a.report = "disconnected" => fails'[i] = Down
  <2>1. CASE ok
    <3>1. a = AfterSuccess(t, file[i], lost) /\ fails'[i] = 0 /\ succs'[i] = Bump(succs[i], Up)
      BY <1>3, <2>1
    <3>2. CASE t.score + 1 > Up
      <4>1. a.score = Top /\ a.report = "none"
        BY <1>4, <3>1, <3>2 DEF AfterSuccess
      <4> QED BY <1>4, <3>1, <4>1
    <3>3. CASE t.score + 1 = Up
      <4>1. a.score = Up /\ a.report = "connected"
        BY <1>4, <3>1, <3>3 DEF AfterSuccess
      <4>2. succs[i] >= Up - 1
        BY <1>4, <1>6, <3>3 DEF ScoreCounts
      <4>3. succs'[i] = Up
        BY <1>4, <3>1, <4>2 DEF Bump
      <4> HIDE DEF a
      <4> QED BY <1>4, <4>1, <4>3
    <3>4. CASE t.score + 1 < Up
      <4>1. a.score = t.score + 1 /\ a.report = "none"
        BY <1>4, <3>1, <3>4 DEF AfterSuccess
      <4>2. succs[i] >= t.score
        BY <1>4, <1>6, <3>4 DEF ScoreCounts
      <4>3. succs'[i] >= t.score + 1
        BY <1>4, <3>1, <3>4, <4>2 DEF Bump
      <4> HIDE DEF a
      <4> QED BY <1>4, <3>4, <4>1, <4>3
    <3> QED BY <1>4, <3>2, <3>3, <3>4
  <2>2. CASE ~ok
    <3>1. a = AfterFailure(t, file[i]) /\ fails'[i] = Bump(fails[i], Down) /\ succs'[i] = 0
      BY <1>3, <2>2
    <3>2. CASE t.score <= Up
      <4>1. a.score = 0 /\ a.report = "none"
        BY <1>4, <3>1, <3>2 DEF AfterFailure
      <4> HIDE DEF a
      <4> QED BY <1>4, <3>1, <4>1
    <3>3. CASE t.score > Up /\ t.score - 1 = Up
      <4>1. a.score = 0 /\ a.report = "disconnected"
        BY <1>4, <3>1, <3>3 DEF AfterFailure
      <4>2. fails[i] >= Down - 1
        BY <1>4, <1>6, <3>3 DEF ScoreCounts
      <4>3. fails'[i] = Down
        BY <1>4, <3>1, <4>2 DEF Bump
      <4> HIDE DEF a
      <4> QED BY <1>4, <3>1, <4>1, <4>3
    <3>4. CASE t.score > Up /\ t.score - 1 # Up
      <4>1. a.score = t.score - 1 /\ a.report = "none"
        BY <1>4, <3>1, <3>4 DEF AfterFailure
      <4>2. fails[i] >= Top - t.score
        BY <1>4, <1>6, <3>4 DEF ScoreCounts
      <4>3. fails'[i] >= Top - (t.score - 1)
        BY <1>4, <3>1, <3>4, <4>2 DEF Bump
      <4> HIDE DEF a
      <4> QED BY <1>4, <3>4, <4>1, <4>3
    <3> QED BY <1>4, <3>2, <3>3, <3>4
  <2> QED BY <2>1, <2>2
<1> HIDE DEF a, n, ok
<1>8. ASSUME NEW j \in Ifaces PROVE ScoreCounts(j)'
  <2>1. CASE j = i
    BY <1>3, <1>5, <1>7, <2>1 DEF ScoreCounts, Top
  <2>2. CASE j # i
    BY <1>2, <2>2 DEF ScoreCounts, ThresholdInv, Top
  <2> QED BY <2>1, <2>2
<1>9. ASSUME NEW j \in Ifaces
      PROVE  /\ Reporting(j, "disconnected")' => fails'[j] = Down
             /\ Reporting(j, "connected")' => succs'[j] = Up
  <2>1. CASE j = i
    BY <1>3, <1>5, <1>7, <2>1 DEF Reporting, Calling
  <2>2. CASE j # i
    BY <1>2, <2>2 DEF Reporting, Calling, ThresholdInv, ThresholdsRespected
  <2> QED BY <2>1, <2>2
<1> QED BY <1>8, <1>9 DEF ThresholdInv, ThresholdsRespected

\* A new tracker has a full score and nothing to report.
LEMMA LaunchThreshold ==
  ASSUME TypeOK, ThresholdInv, NEW i \in Ifaces, Launch(i)
  PROVE  ThresholdInv'
<1> DEFINE n == [NewTracker EXCEPT !.pc = "exec"]
<1>1. n.score = Top /\ n.pc # "call"
  BY DEF NewTracker
<1>2. /\ trk'[i] = n /\ fails'[i] = 0 /\ succs'[i] = 0
      /\ \A j \in Ifaces \ {i} :
           trk'[j] = trk[j] /\ fails'[j] = fails[j] /\ succs'[j] = succs[j]
  BY DEF Launch, TypeOK
<1> HIDE DEF n
<1>3. ASSUME NEW j \in Ifaces PROVE ScoreCounts(j)'
  BY <1>1, <1>2, ThresholdsAssumption DEF ScoreCounts, ThresholdInv, Top
<1>4. ASSUME NEW j \in Ifaces
      PROVE  /\ Reporting(j, "disconnected")' => fails'[j] = Down
             /\ Reporting(j, "connected")' => succs'[j] = Up
  BY <1>1, <1>2 DEF Reporting, Calling, ThresholdInv, ThresholdsRespected
<1> QED BY <1>3, <1>4 DEF ThresholdInv, ThresholdsRespected

LEMMA ThresholdStep ==
  TypeOK /\ ThresholdInv /\ [Next]_vars => ThresholdInv'
<1> SUFFICES ASSUME TypeOK, ThresholdInv, [Next]_vars PROVE ThresholdInv'
  OBVIOUS
<1>1. CASE UNCHANGED vars
  BY <1>1, QuietNothing, QuietThreshold DEF vars, historyVars
<1>2. CASE Start \/ Stop
  BY <1>2, QuietService, QuietThreshold
<1>3. ASSUME NEW i \in Ifaces, TrackerStep(i) PROVE ThresholdInv'
  BY <1>3, QuietTrackerStep, QuietThreshold, RoundThreshold
<1>4. ASSUME NEW i \in Ifaces, HandlerStep(i) \/ EnvironmentStep(i) PROVE ThresholdInv'
  BY <1>4, QuietHandler, QuietEnvironment, QuietThreshold
<1>5. ASSUME NEW i \in Ifaces, Launch(i) PROVE ThresholdInv'
  BY <1>5, LaunchThreshold
<1> QED BY <1>1, <1>2, <1>3, <1>4, <1>5 DEF Next

\* Whatever the rounds, the signals and the restarts, a tracker reports
\* "disconnected" for a round only after "down" failed rounds in a row and
\* "connected" only after "up" successful ones (mwan3track:340-375).
THEOREM Mwan3Thresholds == Spec => []ThresholdsRespected
<1>1. Init => ThresholdInv
  <2> SUFFICES ASSUME Init, NEW i \in Ifaces
               PROVE  /\ ScoreCounts(i)
                      /\ ~Reporting(i, "disconnected") /\ ~Reporting(i, "connected")
    BY DEF ThresholdInv, ThresholdsRespected
  <2>1. trk[i].score = Top /\ trk[i].pc = "none" /\ fails[i] = 0
    BY DEF Init, NewTracker
  <2> QED BY <2>1, ThresholdsAssumption DEF ScoreCounts, Reporting, Calling, Top
<1>2. TypeOK /\ ThresholdInv /\ [Next]_vars => ThresholdInv'
  BY ThresholdStep
<1>3. ThresholdInv => ThresholdsRespected
  BY DEF ThresholdInv
<1> QED BY <1>1, <1>2, <1>3, Mwan3TypeCorrect, PTL DEF Spec

----------------------------------------------------------------------------
(* Policies.  A service that is stopped has none.                          *)

PolicyInv == PoliciesCurrent /\ (~hook => routed = {})

LEMMA PolicySame ==
  ASSUME PolicyInv, UNCHANGED serviceVars, UNCHANGED last
  PROVE  PolicyInv'
BY DEF PolicyInv, PoliciesCurrent, Online, serviceVars

\* Policies that have just been built are current.
LEMMA PolicyBuilt ==
  ASSUME TypeOK, hook', routed' = Online(ifaceState'), ifaceState' \in [Ifaces -> States]
  PROVE  PolicyInv'
BY DEF PolicyInv, PoliciesCurrent, Online

LEMMA HandleReportPolicy ==
  ASSUME TypeOK, PolicyInv, NEW i \in Ifaces, NEW report \in Reports,
         HandleReport(i, report), UNCHANGED last
  PROVE  PolicyInv'
<1>1. CASE hook /\ wanState[i] # report
  <2>1. ifaceState' \in [Ifaces -> States] /\ routed' = Online(ifaceState') /\ hook'
    BY <1>1 DEF HandleReport, TypeOK
  <2> QED BY <2>1, PolicyBuilt
<1>2. CASE ~(hook /\ wanState[i] # report)
  <2>1. UNCHANGED <<hook, ifaceState, routed>>
    BY <1>2 DEF HandleReport
  <2> QED BY <2>1 DEF PolicyInv, PoliciesCurrent, Online
<1> QED BY <1>1, <1>2

LEMMA HandleIfupPolicy ==
  ASSUME TypeOK, PolicyInv, NEW i \in Ifaces, HandleIfup(i)
  PROVE  PolicyInv'
<1>1. CASE ~hook
  BY <1>1 DEF HandleIfup, PolicyInv, PoliciesCurrent, Online
<1>2. CASE hook /\ IfupStatus(i) = "online"
  <2>1. ifaceState' \in [Ifaces -> States] /\ routed' = Online(ifaceState') /\ hook'
    BY ZenonT(60), <1>2 DEF HandleIfup, TypeOK
  <2> QED BY <2>1, PolicyBuilt
<1>3. CASE hook /\ IfupStatus(i) # "online"
  <2>1. InitialState = "offline"
    BY <1>3 DEF IfupStatus
  <2>2. /\ ifaceState' = [ifaceState EXCEPT ![i] = "offline"] /\ routed' = routed /\ hook'
        /\ last' = [last EXCEPT ![i] = "ifup"]
    BY <1>3 DEF HandleIfup, IfupStatus
  <2>3. Online(ifaceState') \subseteq Online(ifaceState)
    BY <2>2 DEF Online, TypeOK
  <2> QED BY <2>1, <2>2, <2>3 DEF PolicyInv, PoliciesCurrent, TypeOK
<1> QED BY <1>1, <1>2, <1>3

LEMMA HandleIfdownPolicy ==
  ASSUME TypeOK, PolicyInv, NEW i \in Ifaces, HandleIfdown(i)
  PROVE  PolicyInv'
<1>1. CASE ~hook
  BY <1>1 DEF HandleIfdown, PolicyInv, PoliciesCurrent, Online
<1>2. CASE hook
  <2>1. ifaceState' \in [Ifaces -> States] /\ routed' = Online(ifaceState') /\ hook'
    BY <1>2 DEF HandleIfdown, TypeOK
  <2> QED BY <2>1, PolicyBuilt
<1> QED BY <1>1, <1>2

LEMMA PolicyStep == TypeOK /\ PolicyInv /\ [Next]_vars => PolicyInv'
<1> SUFFICES ASSUME TypeOK, PolicyInv, [Next]_vars PROVE PolicyInv'
  OBVIOUS
<1>1. CASE UNCHANGED vars
  BY <1>1, PolicySame DEF vars, historyVars
<1>2. CASE Start
  <2>1. ifaceState' \in [Ifaces -> States]
    BY <1>2 DEF Start, IfupStatus, TypeOK
  <2> QED BY <1>2, <2>1, PolicyBuilt DEF Start
<1>3. CASE Stop
  BY <1>3 DEF Stop, PolicyInv, PoliciesCurrent, Online
<1>4. ASSUME NEW i \in Ifaces, TrackerStep(i) PROVE PolicyInv'
  <2>1. CASE Call(i)
    <3>1. trk[i].report # "first" => trk[i].report \in Reports
      BY DEF TypeOK, Tracker
    <3> QED BY <2>1, <3>1, PolicySame, HandleReportPolicy DEF Call, historyVars
  <2>2. CASE ~Call(i)
    BY <1>4, <2>2, PolicySame
       DEF TrackerStep, Boot, FirstConnect, FirstResult, Check, Fork, Round, Rest,
           IfdownEvent, ClearEvent, NoIfupEvent, Trap, historyVars
  <2> QED BY <2>1, <2>2
<1>5. ASSUME NEW i \in Ifaces, HandlerStep(i) PROVE PolicyInv'
  <2>1. CASE StartEvent(i)
    BY <2>1, PolicySame DEF StartEvent, historyVars
  <2>2. CASE RunEvent(i)
    BY <2>2, HandleIfupPolicy, HandleIfdownPolicy DEF RunEvent
  <2>3. CASE OrphanCall(i)
    <3>1. PICK report \in orphan[i] : HandleReport(i, report)
      BY <2>3 DEF OrphanCall
    <3>2. report \in Reports /\ UNCHANGED last
      BY <2>3 DEF OrphanCall, TypeOK, historyVars
    <3> QED BY <3>1, <3>2, HandleReportPolicy
  <2> QED BY <1>5, <2>1, <2>2, <2>3 DEF HandlerStep
<1>6. ASSUME NEW i \in Ifaces, Launch(i) PROVE PolicyInv'
  BY <1>6, PolicySame DEF Launch
<1>7. ASSUME NEW i \in Ifaces, EnvironmentStep(i) PROVE PolicyInv'
  <2>1. CASE Command(i)
    BY <2>1, HandleIfupPolicy, HandleIfdownPolicy DEF Command
  <2>2. CASE ~Command(i)
    BY <1>7, <2>2, PolicySame DEF EnvironmentStep, Flip, ChangeReach, Kill, historyVars
  <2> QED BY <2>1, <2>2
<1> QED BY <1>1, <1>2, <1>3, <1>4, <1>5, <1>6, <1>7 DEF Next

\* For any number of interfaces: whatever trackers, netifd and users do, the
\* policies of the handler (15-mwan3, mwan3_set_policies_iptables) hold every
\* interface that is online, and no other but one that an ifup just took over
\* with the initial state "offline".
THEOREM Mwan3Policies == Spec => []PoliciesCurrent
<1>1. Init => PolicyInv
  BY DEF Init, PolicyInv, PoliciesCurrent, Online
<1>2. TypeOK /\ PolicyInv /\ [Next]_vars => PolicyInv'
  BY PolicyStep
<1>3. PolicyInv => PoliciesCurrent
  BY DEF PolicyInv
<1> QED BY <1>1, <1>2, <1>3, Mwan3TypeCorrect, PTL DEF Spec


----------------------------------------------------------------------------
(* Link changes alone: no commands, no restarts, no kills.  Then it is     *)
(* known of every interface where the events of netifd and the signals of  *)
(* the handler are.                                                        *)

LinkChangesOnly == Disturbances \subseteq {"flip"}

\* Trackers run with the service, are not ended, and none before the other.
RunningInv(i) ==
    /\ orphan[i] = {} /\ "TERM" \notin trk[i].sig
    /\ hook => want[i]
    /\ ~hook => /\ i \notin routed /\ ~want[i] /\ ifaceState[i] = "offline"
                /\ trk[i].pc = "none" /\ trk[i].sig = {}

\* A change of the link that has not been handled is queued or in a handler.
EventInv(i) ==
    /\ ~pend[i] /\ cur[i] # "idle" => cur[i] = IF up[i] THEN "ifup" ELSE "ifdown"
    /\ hook => pend[i] \/ cur[i] # "idle" \/ (i \in rules <=> up[i])

\* What the score of a tracker knows of STATE, the last report: nothing has
\* been reported before the tracker has run, and a score above Up follows no
\* "disconnected".
ReportInv(i) ==
    /\ IF trk[i].pc \in {"none", "exec"} THEN wanState[i] = "" ELSE trackDir[i]
    /\ trk[i].score > Up => wanState[i] # "disconnected"
    /\ trk[i].score = Up => wanState[i] # "disconnected" \/ Calling(i, "connected")
    /\ Calling(i, "disconnected") => trk[i].score = 0
    /\ Calling(i, "connected") => trk[i].score = Up
    /\ Reporting(i, "disconnected") => wanState[i] # "disconnected"

\* An ifdown that the tracker has not served, or may never be told of.
Unserved(i) ==
    \/ "USR1" \in trk[i].sig \/ trk[i].downEv
    \/ pend[i] \/ cur[i] # "idle"
    \/ i \in merged

\* A report that comes after the ifdown leaves an ifdown to serve.
StaleInv(i) ==
    /\ i \in routed \ rules => wanState[i] = "connected"
    /\ trk[i].pc = "downDone" => i \notin routed \ rules
    /\ trk[i].pc = "first" \/ (trk[i].pc = "call" /\ trk[i].report # "disconnected") =>
          trk[i].ret # "downDone"
    /\ "USR2" \in trk[i].sig /\ i \notin rules => i \in merged
    /\ hook /\ i \notin rules /\ (i \in routed \/ Calling(i, "connected")) => Unserved(i)

\* With the initial state "online", STATE is behind only after an ifdown.
NewsInv(i) ==
    InitialState = "online" /\ hook /\ last[i] = "ifup" /\ wanState[i] = "connected" =>
        ifaceState[i] = "online"

LinkKept(i) == RunningInv(i) /\ EventInv(i) /\ ReportInv(i) /\ StaleInv(i) /\ NewsInv(i)

\* The inductive invariant.
LinkInv == LinkChangesOnly /\ \A i \in Ifaces : LinkKept(i)

\* A step that has nothing to do with interface i; another interface may have
\* had the policies built again, which adds nothing.
Calm(i) ==
    /\ hook' = hook
    /\ up'[i] = up[i] /\ pend'[i] = pend[i] /\ cur'[i] = cur[i]
    /\ want'[i] = want[i] /\ orphan'[i] = orphan[i] /\ trk'[i] = trk[i]
    /\ wanState'[i] = wanState[i] /\ trackDir'[i] = trackDir[i]
    /\ ifaceState'[i] = ifaceState[i] /\ last'[i] = last[i]
    /\ (i \in rules' <=> i \in rules)
    /\ (i \in routed' => i \in routed)
    /\ (i \in merged => i \in merged')

LEMMA CalmKept ==
  ASSUME NEW i \in Ifaces, LinkKept(i), Calm(i)
  PROVE  LinkKept(i)'
<1>1. RunningInv(i)' /\ EventInv(i)'
  BY DEF LinkKept, Calm, RunningInv, EventInv
<1>2. ReportInv(i)' /\ NewsInv(i)'
  BY DEF LinkKept, Calm, ReportInv, NewsInv, Calling, Reporting, Top
<1>3. StaleInv(i)'
  BY DEF LinkKept, Calm, StaleInv, Unserved, Calling
<1> QED BY <1>1, <1>2, <1>3 DEF LinkKept

\* What a step of one interface has to keep.
LEMMA OneInterface ==
  ASSUME LinkInv, NEW i \in Ifaces, \A j \in Ifaces \ {i} : Calm(j), LinkKept(i)'
  PROVE  LinkInv'
BY CalmKept DEF LinkInv, LinkChangesOnly

\* A step of a tracker alone.
OnlyTracker(i) ==
    UNCHANGED <<netVars, procdVars, wanState, trackDir, serviceVars, last, merged>>

LEMMA OnlyTrackerCalm ==
  ASSUME TypeOK, NEW i \in Ifaces, NEW t, OnlyTracker(i), trk' = [trk EXCEPT ![i] = t]
  PROVE  /\ \A j \in Ifaces \ {i} : Calm(j)
         /\ trk'[i] = t
BY DEF TypeOK, OnlyTracker, Calm, netVars, procdVars, serviceVars

\* The steps of a tracker between its reports: a trap may turn a signal into an
\* event, and an ifdown that has been served is cleared.
Harmless(i, t) ==
    LET u == trk[i] IN
    /\ u.pc \notin {"none", "exec", "call"} /\ t.pc \notin {"none", "exec"}
    /\ t.sig \subseteq u.sig
    /\ t.score \in {u.score, 0}
    /\ t.pc = "first" => t.ret # "downDone"
    /\ t.pc = "call" => \/ t.report = "first" /\ t.ret # "downDone"
                        \/ t.report = "disconnected" /\ t.score = 0 /\ t.ret # "rest"
    /\ t.pc = "downDone" => u.pc = "downDone"
    /\ "USR1" \in u.sig => "USR1" \in t.sig \/ t.downEv
    /\ u.downEv => \/ t.downEv \/ u.pc = "downDone"
                   \/ "USR2" \in u.sig

\* A score is a number.
LEMMA ScoreType ==
  ASSUME TypeOK, NEW i \in Ifaces
  PROVE  Up \in Nat \ {0} /\ Top \in Nat /\ Top > Up /\ trk[i].score \in Nat
<1>1. trk[i] \in Tracker
  BY DEF TypeOK
<1>2. trk[i].score \in 0..Top
  BY <1>1 DEF Tracker
<1>3. Up \in Nat \ {0} /\ Top \in Nat /\ Top > Up
  BY ThresholdsAssumption DEF Top
<1> QED BY <1>2, <1>3

LEMMA HarmlessKept ==
  ASSUME TypeOK, LinkInv, NEW i \in Ifaces, NEW t \in Tracker, Harmless(i, t),
         OnlyTracker(i), trk' = [trk EXCEPT ![i] = t]
  PROVE  LinkInv'
<1>1. (\A j \in Ifaces \ {i} : Calm(j)) /\ trk'[i] = t
  BY OnlyTrackerCalm
<1>2. /\ UNCHANGED <<up, pend, cur, want, orphan, hook, wanState, trackDir,
                     ifaceState, rules, routed, last, merged>>
  BY DEF OnlyTracker, netVars, procdVars, serviceVars
<1>3. LinkKept(i)
  BY DEF LinkInv
<1>4. RunningInv(i)' /\ EventInv(i)' /\ NewsInv(i)'
  BY <1>1, <1>2, <1>3 DEF LinkKept, RunningInv, EventInv, NewsInv, Harmless
<1>5. ReportInv(i)'
  <2>1. Up \in Nat \ {0} /\ trk[i].score \in Nat
    BY ScoreType
  <2>2. trk[i].score > Up \/ trk[i].score = Up => wanState[i] # "disconnected"
    BY <1>3 DEF LinkKept, ReportInv, Harmless, Calling
  <2>3. t.score > Up \/ t.score = Up => wanState[i] # "disconnected"
    <3>1. CASE t.score = 0
      BY <2>1, <3>1
    <3>2. CASE t.score = trk[i].score
      BY <2>1, <2>2, <3>2
    <3> QED BY <3>1, <3>2 DEF Harmless
  <2> QED BY <1>1, <1>2, <1>3, <2>3
            DEF LinkKept, ReportInv, Harmless, Calling, Reporting
<1>6. StaleInv(i)'
  BY <1>1, <1>2, <1>3 DEF LinkKept, StaleInv, Unserved, Harmless, Calling
<1>7. LinkKept(i)'
  BY <1>4, <1>5, <1>6 DEF LinkKept
<1> QED BY <1>1, <1>7, OneInterface


\* The steps of a tracker that neither report nor start: a trap clears an
\* ifdown only for a USR2, and without TERM none ends the tracker.
LEMMA TrackerHarmless ==
  ASSUME TypeOK, LinkInv, NEW i \in Ifaces, TrackerStep(i),
         ~Boot(i), ~Round(i), ~Call(i)
  PROVE  LinkInv'
<1>1. /\ trk[i] \in Tracker /\ "TERM" \notin trk[i].sig
      /\ trk[i].pc = "first" => trk[i].ret # "downDone"
  BY DEF TypeOK, LinkInv, LinkKept, RunningInv, StaleInv
<1>2. \/ FirstConnect(i) \/ FirstResult(i) \/ Check(i) \/ Fork(i)
      \/ Rest(i) \/ IfdownEvent(i) \/ ClearEvent(i) \/ NoIfupEvent(i) \/ Trap(i)
  BY DEF TrackerStep
<1>3. OnlyTracker(i)
  BY <1>2 DEF FirstConnect, FirstResult, Check, Fork, Rest, IfdownEvent, ClearEvent,
              NoIfupEvent, Trap, OnlyTracker, trackFiles, historyVars
<1>4. TypeOK'
  BY TypeStep DEF Next
<1>5. SUFFICES \E t : trk' = [trk EXCEPT ![i] = t] /\ Harmless(i, t)
  <2>1. ASSUME NEW t, trk' = [trk EXCEPT ![i] = t] PROVE t \in Tracker
    <3>1. trk \in [Ifaces -> Tracker] /\ trk' \in [Ifaces -> Tracker]
      BY <1>4 DEF TypeOK
    <3>2. trk'[i] = t
      BY <2>1, <3>1
    <3> QED BY <3>1, <3>2
  <2> QED BY <1>3, <2>1, HarmlessKept
<1>6. CASE FirstConnect(i)
  <2> DEFINE t == [trk[i] EXCEPT !.status = IF @ = "online" THEN @ ELSE InitialState,
                                 !.net = up[i],
                                 !.ret = IF trk[i].pc = "boot" THEN "check" ELSE "upDone",
                                 !.pc = "first"]
  <2>1. Harmless(i, t)
    BY <1>1, <1>6 DEF FirstConnect, At, Tracker, Harmless
  <2>2. trk' = [trk EXCEPT ![i] = t]
    BY <1>6 DEF FirstConnect
  <2> HIDE DEF t
  <2> QED BY <2>1, <2>2
<1>7. CASE FirstResult(i)
  <2> DEFINE t1 == Return([trk[i] EXCEPT !.status = "disabled", !.started = FALSE])
             t2 == Return([trk[i] EXCEPT !.started = TRUE, !.score = 0])
             t3 == [trk[i] EXCEPT !.started = TRUE, !.status = "online", !.lost = FALSE,
                                  !.pc = "call", !.report = "first"]
  <2>1. Harmless(i, t1)
    BY <1>1, <1>7 DEF FirstResult, At, Return, Tracker, Harmless
  <2>2. Harmless(i, t2)
    BY <1>1, <1>7 DEF FirstResult, At, Return, Tracker, Harmless
  <2>3. Harmless(i, t3)
    BY <1>1, <1>7 DEF FirstResult, At, Tracker, Harmless
  <2>4. \/ trk' = [trk EXCEPT ![i] = t1]
        \/ trk' = [trk EXCEPT ![i] = t2]
        \/ trk' = [trk EXCEPT ![i] = t3]
    BY <1>7 DEF FirstResult
  <2> HIDE DEF t1, t2, t3
  <2> QED BY <2>1, <2>2, <2>3, <2>4
<1>8. CASE Check(i)
  <2> DEFINE t == [trk[i] EXCEPT !.pc = IF trk[i].started THEN "test" ELSE "fork", !.cut = {}]
  <2>1. Harmless(i, t)
    BY <1>1, <1>8 DEF Check, At, Tracker, Harmless
  <2>2. trk' = [trk EXCEPT ![i] = t]
    BY <1>8 DEF Check
  <2> HIDE DEF t
  <2> QED BY <2>1, <2>2
<1>9. CASE Fork(i) \/ Rest(i) \/ NoIfupEvent(i)
  <2> DEFINE t(p) == [trk[i] EXCEPT !.pc = p]
  <2>1. PICK p \in {"nap", "ifdown", "check"} : trk' = [trk EXCEPT ![i] = t(p)]
    BY <1>9 DEF Fork, Rest, NoIfupEvent
  <2>2. Harmless(i, t(p))
    BY <1>1, <1>9 DEF Fork, Rest, NoIfupEvent, At, Tracker, Harmless
  <2> HIDE DEF t
  <2> QED BY <2>1, <2>2
<1>11. CASE IfdownEvent(i)
  <2> DEFINE t1 == [trk[i] EXCEPT !.status = "offline", !.started = FALSE, !.score = 0,
                           !.pc = "call", !.ret = "downDone", !.report = "disconnected"]
             t2 == [trk[i] EXCEPT !.pc = "ifup"]
  <2>1. Harmless(i, t1)
    BY <1>1, <1>11 DEF IfdownEvent, At, Tracker, Harmless
  <2>2. Harmless(i, t2)
    BY <1>1, <1>11 DEF IfdownEvent, At, Tracker, Harmless
  <2>3. trk' = [trk EXCEPT ![i] = t1] \/ trk' = [trk EXCEPT ![i] = t2]
    BY <1>11 DEF IfdownEvent
  <2> HIDE DEF t1, t2
  <2> QED BY <2>1, <2>2, <2>3
<1>12. CASE ClearEvent(i)
  <2> DEFINE t1 == [trk[i] EXCEPT !.downEv = FALSE, !.pc = "ifup"]
             t2 == [trk[i] EXCEPT !.upEv = FALSE, !.pc = "check"]
  <2>1. At(i, "downDone") => Harmless(i, t1)
    BY <1>1 DEF At, Tracker, Harmless
  <2>2. At(i, "upDone") => Harmless(i, t2)
    BY <1>1 DEF At, Tracker, Harmless
  <2>3. \/ At(i, "downDone") /\ trk' = [trk EXCEPT ![i] = t1]
        \/ At(i, "upDone") /\ trk' = [trk EXCEPT ![i] = t2]
    BY <1>12 DEF ClearEvent
  <2> HIDE DEF t1, t2
  <2> QED BY <2>1, <2>2, <2>3
<1>15. CASE Trap(i)
  <2> DEFINE s == IF "USR1" \in trk[i].sig THEN "USR1" ELSE "USR2"
             t(cut) == [trk[i] EXCEPT !.sig = @ \ {s},
                          !.cut = cut,
                          !.pc = IF @ = "nap" THEN "test" ELSE @,
                          !.downEv = (s = "USR1"),
                          !.upEv = @ \/ s = "USR2",
                          !.started = @ \/ s = "USR2"]
  <2>1. PICK cut : trk' = [trk EXCEPT ![i] = t(cut)]
    BY <1>1, <1>15 DEF Trap
  <2>2. /\ trk[i].pc \notin {"none", "exec", "call"}
        /\ trk[i].sig # {} /\ trk[i].sig \subseteq {"USR1", "USR2"}
    BY <1>1, <1>15 DEF Trap, Tracker
  <2>3. /\ t(cut).sig = trk[i].sig \ {s} /\ t(cut).score = trk[i].score
        /\ t(cut).ret = trk[i].ret
        /\ t(cut).pc = IF trk[i].pc = "nap" THEN "test" ELSE trk[i].pc
        /\ t(cut).downEv = (s = "USR1")
    BY <1>1 DEF Tracker
  <2>4. "USR1" \in trk[i].sig \/ "USR2" \in trk[i].sig
    BY <2>2
  <2> HIDE DEF t
  <2>5. Harmless(i, t(cut))
    BY <1>1, <2>2, <2>3, <2>4 DEF Harmless
  <2> QED BY <2>1, <2>5
<1> QED BY <1>2, <1>6, <1>7, <1>8, <1>9, <1>11, <1>12, <1>15


\* main makes the directory that the handler keeps STATE in.
LEMMA BootLink ==
  ASSUME TypeOK, LinkInv, NEW i \in Ifaces, Boot(i)
  PROVE  LinkInv'
<1> DEFINE t == [trk[i] EXCEPT !.pc = "boot"]
<1>1. trk[i] \in Tracker /\ trk[i].pc = "exec" /\ LinkKept(i)
  BY DEF Boot, At, TypeOK, LinkInv
<1>2. /\ trk' = [trk EXCEPT ![i] = t] /\ trackDir' = [trackDir EXCEPT ![i] = TRUE]
      /\ UNCHANGED <<up, pend, cur, want, orphan, hook, wanState, ifaceState,
                     rules, routed, last, merged>>
  BY DEF Boot, netVars, procdVars, serviceVars, historyVars
<1>3. /\ t.pc = "boot" /\ t.sig = trk[i].sig /\ t.score = trk[i].score
      /\ t.downEv = trk[i].downEv
  BY <1>1 DEF Tracker
<1> HIDE DEF t
<1>4. /\ \A j \in Ifaces \ {i} : Calm(j)
      /\ trk'[i] = t /\ trackDir'[i] = TRUE
  BY <1>2 DEF Calm, TypeOK
<1>5. RunningInv(i)' /\ EventInv(i)' /\ NewsInv(i)'
  BY <1>1, <1>2, <1>3, <1>4 DEF LinkKept, RunningInv, EventInv, NewsInv
<1>6. ReportInv(i)'
  BY <1>1, <1>2, <1>3, <1>4 DEF LinkKept, ReportInv, Calling, Reporting
<1>7. StaleInv(i)'
  BY <1>1, <1>2, <1>3, <1>4 DEF LinkKept, StaleInv, Unserved, Calling
<1> QED BY <1>4, <1>5, <1>6, <1>7, OneInterface DEF LinkKept

\* A round succeeds on an interface that is up only.
LEMMA SuccessNeedsLink ==
  ASSUME NEW i \in Ifaces, Succeeded(Answers(i))
  PROVE  up[i]
<1> SUFFICES ASSUME ~up[i] PROVE FALSE
  OBVIOUS
<1>1. {g \in 1..NHosts : Answers(i)[g] = "up"} = {}
  BY DEF Answers, Hosts
<1>2. Answered(Answers(i), NHosts) = 0
  BY <1>1, FS_EmptySet DEF Answered
<1> QED BY <1>2, HostsAssumption DEF Succeeded

\* What a round makes of the score decides what it reports.
LEMMA RoundOutcome ==
  ASSUME TypeOK, NEW i \in Ifaces, Round(i)
  PROVE  \E t : /\ trk' = [trk EXCEPT ![i] = t]
                /\ t.sig = trk[i].sig /\ t.downEv = trk[i].downEv
                /\ \/ /\ t.pc = "rest" /\ t.score # Up
                      /\ t.score > Up => trk[i].score > Up \/ trk[i].score = Up
                   \/ /\ t.pc = "call" /\ t.report = "connected" /\ t.ret = "rest"
                      /\ t.score = Up /\ up[i]
                   \/ /\ t.pc = "call" /\ t.report = "disconnected" /\ t.ret = "rest"
                      /\ t.score = 0 /\ trk[i].score > Up
<1> DEFINE t    == trk[i]
           ok   == Succeeded(Answers(i))
           lost == t.lost \/ LostOne(Answers(i))
           a    == IF ok THEN AfterSuccess(t, file[i], lost) ELSE AfterFailure(t, file[i])
           n    == [t EXCEPT !.status = a.status, !.score = a.score, !.cut = {},
                             !.lost = ~ok /\ lost,
                             !.pc = IF a.report = "none" THEN "rest" ELSE "call",
                             !.ret = IF a.report = "none" THEN @ ELSE "rest",
                             !.report = IF a.report = "none" THEN @ ELSE a.report]
<1>1. trk' = [trk EXCEPT ![i] = n]
  BY DEF Round
<1>2. t \in Tracker
  BY DEF TypeOK
<1>3. /\ n.score = a.score /\ n.sig = t.sig /\ n.downEv = t.downEv
      /\ n.pc = IF a.report = "none" THEN "rest" ELSE "call"
      /\ a.report # "none" => n.report = a.report /\ n.ret = "rest"
  BY <1>2 DEF Tracker
<1>4. Up \in Nat \ {0} /\ Top \in Nat /\ Top > Up /\ t.score \in Nat
  BY ScoreType
<1>5. \/ /\ a.report = "none" /\ a.score # Up
         /\ a.score > Up => t.score > Up \/ t.score = Up
      \/ a.report = "connected" /\ a.score = Up /\ ok
      \/ a.report = "disconnected" /\ a.score = 0 /\ t.score > Up
  <2>1. CASE ok
    <3>1. a = AfterSuccess(t, file[i], lost)
      BY <2>1
    <3>2. CASE t.score + 1 > Up
      <4>1. a.score = Top /\ a.report = "none"
        BY <1>4, <3>1, <3>2 DEF AfterSuccess
      <4> QED BY <1>4, <3>2, <4>1
    <3>3. CASE t.score + 1 = Up
      BY <1>4, <2>1, <3>1, <3>3 DEF AfterSuccess
    <3>4. CASE t.score + 1 < Up
      <4>1. a.score = t.score + 1 /\ a.report = "none"
        BY <1>4, <3>1, <3>4 DEF AfterSuccess
      <4> QED BY <1>4, <3>4, <4>1
    <3> QED BY <1>4, <3>2, <3>3, <3>4
  <2>2. CASE ~ok
    <3>1. a = AfterFailure(t, file[i])
      BY <2>2
    <3>2. CASE t.score <= Up
      <4>1. a.score = 0 /\ a.report = "none"
        BY <1>4, <3>1, <3>2 DEF AfterFailure
      <4> QED BY <1>4, <4>1
    <3>3. CASE t.score > Up /\ t.score - 1 = Up
      BY <1>4, <3>1, <3>3 DEF AfterFailure
    <3>4. CASE t.score > Up /\ t.score - 1 # Up
      <4>1. a.score = t.score - 1 /\ a.report = "none"
        BY <1>4, <3>1, <3>4 DEF AfterFailure
      <4> QED BY <1>4, <3>4, <4>1
    <3> QED BY <1>4, <3>2, <3>3, <3>4
  <2> QED BY <2>1, <2>2
<1>6. ok => up[i]
  BY SuccessNeedsLink
<1> HIDE DEF a, n, ok
<1> WITNESS n
<1> QED BY <1>1, <1>3, <1>5, <1>6

\* A round that reports "connected" saw the link up: an ifdown that has been
\* handled since is one that netifd has still to follow up.
LEMMA RoundLink ==
  ASSUME TypeOK, LinkInv, NEW i \in Ifaces, Round(i)
  PROVE  LinkInv'
<1>1. PICK t : /\ trk' = [trk EXCEPT ![i] = t]
               /\ t.sig = trk[i].sig /\ t.downEv = trk[i].downEv
               /\ \/ /\ t.pc = "rest" /\ t.score # Up
                     /\ t.score > Up => trk[i].score > Up \/ trk[i].score = Up
                  \/ /\ t.pc = "call" /\ t.report = "connected" /\ t.ret = "rest"
                     /\ t.score = Up /\ up[i]
                  \/ /\ t.pc = "call" /\ t.report = "disconnected" /\ t.ret = "rest"
                     /\ t.score = 0 /\ trk[i].score > Up
  BY RoundOutcome
<1>2. OnlyTracker(i) /\ trk[i].pc = "test" /\ LinkKept(i)
  BY DEF Round, OnlyTracker, At, LinkInv
<1>3. (\A j \in Ifaces \ {i} : Calm(j)) /\ trk'[i] = t
  BY <1>1, <1>2, OnlyTrackerCalm
<1>4. /\ UNCHANGED <<up, pend, cur, want, orphan, hook, wanState, trackDir,
                     ifaceState, rules, routed, last, merged>>
  BY <1>2 DEF OnlyTracker, netVars, procdVars, serviceVars
<1>5. RunningInv(i)' /\ EventInv(i)' /\ NewsInv(i)'
  BY <1>1, <1>2, <1>3, <1>4 DEF LinkKept, RunningInv, EventInv, NewsInv
<1>6. ReportInv(i)'
  <2>1. trk[i].score > Up \/ trk[i].score = Up => wanState[i] # "disconnected"
    BY <1>2 DEF LinkKept, ReportInv, Calling
  <2>2. Up \in Nat \ {0}
    BY ScoreType
  <2>3. trackDir'[i]
    BY <1>2, <1>4 DEF LinkKept, ReportInv
  <2>4. t.score > Up => wanState[i] # "disconnected"
    BY <1>1, <2>1, <2>2
  <2>5. t.score = Up => t.pc = "call" /\ t.report = "connected"
    BY <1>1, <2>2
  <2>6. t.pc = "call" /\ t.report = "disconnected" =>
          t.score = 0 /\ wanState[i] # "disconnected"
    BY <1>1, <2>1
  <2>7. t.pc = "call" /\ t.report = "connected" => t.score = Up
    BY <1>1
  <2> QED BY <1>1, <1>3, <1>4, <2>3, <2>4, <2>5, <2>6, <2>7
            DEF ReportInv, Calling, Reporting
<1>7. StaleInv(i)'
  BY <1>1, <1>2, <1>3, <1>4 DEF LinkKept, StaleInv, EventInv, Unserved, Calling
<1> QED BY <1>3, <1>5, <1>6, <1>7, OneInterface DEF LinkKept


\* Policies that are built again for one interface add no other.
LEMMA OnlyOnline ==
  ASSUME TypeOK, PolicyInv, routed' = Online(ifaceState'), NEW j \in Ifaces,
         ifaceState'[j] = ifaceState[j]
  PROVE  j \in routed' => j \in routed
BY DEF TypeOK, PolicyInv, PoliciesCurrent, Online

\* A report is about one interface.
LEMMA ReportOthers ==
  ASSUME TypeOK, PolicyInv, NEW i \in Ifaces, NEW report \in Reports,
         HandleReport(i, report), NEW j \in Ifaces \ {i}
  PROVE  /\ wanState'[j] = wanState[j] /\ ifaceState'[j] = ifaceState[j]
         /\ hook' = hook /\ rules' = rules
         /\ j \in routed' => j \in routed
<1>1. CASE ~(hook /\ wanState[i] # report)
  BY <1>1 DEF HandleReport
<1>2. CASE hook /\ wanState[i] # report
  <2>1. /\ wanState'[j] = wanState[j] /\ ifaceState'[j] = ifaceState[j]
        /\ hook' = hook /\ rules' = rules /\ routed' = Online(ifaceState')
    BY <1>2 DEF HandleReport, TypeOK
  <2> QED BY <2>1, OnlyOnline
<1> QED BY <1>1, <1>2

\* A report that is news and its effect; the tracker's directory exists.
LEMMA ReportOwn ==
  ASSUME TypeOK, NEW i \in Ifaces, NEW report \in Reports, hook, trackDir[i],
         HandleReport(i, report)
  PROVE  /\ hook' = hook /\ rules' = rules /\ wanState'[i] = report
         /\ wanState[i] # report =>
              /\ ifaceState'[i] = IF report = "connected" THEN "online" ELSE "offline"
              /\ i \in routed' <=> report = "connected"
         /\ wanState[i] = report => UNCHANGED <<ifaceState, routed>>
<1>1. CASE wanState[i] = report
  BY <1>1 DEF HandleReport
<1>2. CASE wanState[i] # report
  <2>1. /\ wanState' = [wanState EXCEPT ![i] = report]
        /\ ifaceState' = [ifaceState EXCEPT ![i] =
                            IF report = "connected" THEN "online" ELSE "offline"]
        /\ routed' = Online(ifaceState') /\ hook' = hook /\ rules' = rules
    BY <1>2 DEF HandleReport
  <2>2. /\ wanState'[i] = report
        /\ ifaceState'[i] = IF report = "connected" THEN "online" ELSE "offline"
        /\ DOMAIN ifaceState' = Ifaces
    BY <2>1 DEF TypeOK
  <2>3. i \in routed' <=> ifaceState'[i] = "online"
    BY <2>1, <2>2 DEF Online
  <2> QED BY <1>2, <2>1, <2>2, <2>3
<1> QED BY <1>1, <1>2

\* The handler a tracker waits for.  "disconnected" for an ifdown takes the
\* interface out of the policies: it is in them without its rules only after
\* a "connected", which makes the report news.
LEMMA CallLink ==
  ASSUME TypeOK, PolicyInv, LinkInv, NEW i \in Ifaces, Call(i)
  PROVE  LinkInv'
<1> DEFINE u == trk[i]
           t == Return(u)
<1>1. u \in Tracker /\ u.pc = "call" /\ LinkKept(i)
  BY DEF Call, TypeOK, LinkInv
<1>2. hook /\ trackDir[i]
  BY <1>1 DEF LinkKept, RunningInv, ReportInv
<1>3. /\ trk' = [trk EXCEPT ![i] = t]
      /\ UNCHANGED <<up, pend, cur, want, orphan, trackDir, last, merged>>
  BY DEF Call, netVars, procdVars, historyVars
<1>4. /\ t.pc = u.ret /\ t.sig = u.sig /\ t.score = u.score /\ t.downEv = u.downEv
      /\ t.ret = "check" /\ t.report = "first"
      /\ u.ret \in {"check", "rest", "downDone", "upDone"}
      /\ u.report \in {"first", "connected", "disconnected"}
  BY <1>1 DEF Return, Tracker
<1>5. trk'[i] = t
  BY <1>3 DEF TypeOK
<1>6. ASSUME NEW j \in Ifaces \ {i} PROVE Calm(j)
  <2>1. trk'[j] = trk[j]
    BY <1>3 DEF TypeOK
  <2>2. /\ wanState'[j] = wanState[j] /\ ifaceState'[j] = ifaceState[j]
        /\ hook' = hook /\ rules' = rules
        /\ j \in routed' => j \in routed
    <3>1. CASE u.report = "first"
      BY <3>1 DEF Call, serviceVars
    <3>2. CASE u.report # "first"
      BY <1>4, <3>2, ReportOthers DEF Call
    <3> QED BY <3>1, <3>2
  <2> QED BY <1>3, <2>1, <2>2 DEF Calm
<1> HIDE DEF t
<1>7. /\ hook' = hook /\ rules' = rules
      /\ u.report = "first" => UNCHANGED <<wanState, ifaceState, routed>>
      /\ u.report # "first" =>
           /\ wanState'[i] = u.report
           /\ wanState[i] # u.report =>
                /\ ifaceState'[i] = IF u.report = "connected" THEN "online" ELSE "offline"
                /\ i \in routed' <=> u.report = "connected"
           /\ wanState[i] = u.report => UNCHANGED <<ifaceState, routed>>
  <2>1. CASE u.report = "first"
    BY <2>1 DEF Call, serviceVars
  <2>2. CASE u.report # "first"
    BY <1>2, <1>4, <2>2, ReportOwn DEF Call
  <2> QED BY <2>1, <2>2
<1>8. RunningInv(i)' /\ EventInv(i)'
  BY <1>1, <1>2, <1>3, <1>4, <1>5, <1>7 DEF LinkKept, RunningInv, EventInv
<1>9. NewsInv(i)'
  BY <1>1, <1>2, <1>3, <1>4, <1>7 DEF LinkKept, NewsInv
<1>10. ReportInv(i)'
  <2>1. Up \in Nat \ {0} /\ u.score \in Nat
    BY ScoreType
  <2>2. u.report = "connected" => u.score = Up
    BY <1>1 DEF LinkKept, ReportInv, Calling
  <2>3. u.report = "disconnected" => u.score = 0
    BY <1>1 DEF LinkKept, ReportInv, Calling
  <2>4. u.report = "first" /\ (u.score > Up \/ u.score = Up) => wanState[i] # "disconnected"
    BY <1>1 DEF LinkKept, ReportInv, Calling
  <2>5. u.score > Up \/ u.score = Up => wanState'[i] # "disconnected"
    <3>1. CASE u.report = "first"
      BY <1>7, <2>4, <3>1
    <3>2. CASE u.report = "connected"
      BY <1>7, <3>2
    <3>3. CASE u.report = "disconnected"
      BY <2>1, <2>3, <3>3
    <3> QED BY <1>4, <3>1, <3>2, <3>3
  <2>6. t.pc \notin {"none", "exec", "call"} /\ trackDir'[i]
    BY <1>2, <1>3, <1>4
  <2> QED BY <1>4, <1>5, <2>5, <2>6 DEF ReportInv, Calling, Reporting
<1>11. StaleInv(i)'
  <2>1. i \in routed' \ rules' => wanState'[i] = "connected"
    BY <1>1, <1>4, <1>7 DEF LinkKept, StaleInv
  <2>2. t.pc = "downDone" => i \notin routed' \ rules'
    BY <1>1, <1>4, <1>7 DEF LinkKept, StaleInv
  <2>3. "USR2" \in t.sig /\ i \notin rules' => i \in merged'
    BY <1>1, <1>3, <1>4, <1>7 DEF LinkKept, StaleInv
  <2>4. hook' /\ i \notin rules' /\ i \in routed' => Unserved(i)'
    BY <1>1, <1>2, <1>3, <1>4, <1>5, <1>7 DEF LinkKept, StaleInv, Unserved, Calling
  <2>5. t.pc \notin {"first", "call"}
    BY <1>4
  <2> QED BY <1>5, <2>1, <2>2, <2>3, <2>4, <2>5 DEF StaleInv, Calling
<1> QED BY <1>6, <1>8, <1>9, <1>10, <1>11, OneInterface DEF LinkKept


\* A signal reaches a tracker that has its traps, ends one that has not, and
\* finds none before procd has started it.
LEMMA SignalOwn ==
  ASSUME TypeOK, NEW i \in Ifaces, NEW s, want[i], trk' = Signalled(i, s)
  PROVE  /\ \A j \in Ifaces \ {i} : trk'[j] = trk[j]
         /\ trk'[i].score = trk[i].score /\ trk'[i].downEv = trk[i].downEv
         /\ trk'[i].report = trk[i].report /\ trk'[i].ret = trk[i].ret
         /\ \/ /\ trk[i].pc \in {"none", "exec"} /\ trk'[i].pc = "none"
               /\ trk'[i].sig = trk[i].sig
            \/ /\ trk[i].pc \notin {"none", "exec"} /\ trk'[i].pc = trk[i].pc
               /\ trk'[i].sig = trk[i].sig \union {s}
<1>1. trk[i] \in Tracker
  BY DEF TypeOK
<1>2. CASE trk[i].pc = "none"
  BY <1>2 DEF Signalled
<1>3. CASE trk[i].pc = "exec"
  <2> DEFINE t == [trk[i] EXCEPT !.pc = "none"]
  <2>1. trk' = [trk EXCEPT ![i] = t]
    BY <1>3 DEF Signalled
  <2>2. /\ t.pc = "none" /\ t.sig = trk[i].sig /\ t.score = trk[i].score
        /\ t.downEv = trk[i].downEv /\ t.report = trk[i].report /\ t.ret = trk[i].ret
    BY <1>1 DEF Tracker
  <2> HIDE DEF t
  <2>3. trk'[i] = t /\ \A j \in Ifaces \ {i} : trk'[j] = trk[j]
    BY <2>1 DEF TypeOK
  <2> QED BY <1>3, <2>2, <2>3
<1>4. CASE trk[i].pc \notin {"none", "exec"}
  <2> DEFINE t == [trk[i] EXCEPT !.sig = @ \union {s}]
  <2>1. trk' = [trk EXCEPT ![i] = t]
    BY <1>4 DEF Signalled
  <2>2. /\ t.sig = trk[i].sig \union {s} /\ t.score = trk[i].score /\ t.pc = trk[i].pc
        /\ t.downEv = trk[i].downEv /\ t.report = trk[i].report /\ t.ret = trk[i].ret
    BY <1>1 DEF Tracker
  <2> HIDE DEF t
  <2>3. trk'[i] = t /\ \A j \in Ifaces \ {i} : trk'[j] = trk[j]
    BY <2>1 DEF TypeOK
  <2> QED BY <1>4, <2>2, <2>3
<1> QED BY <1>2, <1>3, <1>4

\* The scores and reports do not mind a signal.
LEMMA SignalReports ==
  ASSUME NEW i \in Ifaces, ReportInv(i), wanState'[i] = wanState[i],
         trackDir'[i] = trackDir[i],
         trk'[i].score = trk[i].score, trk'[i].report = trk[i].report,
         trk'[i].ret = trk[i].ret,
         \/ trk[i].pc \in {"none", "exec"} /\ trk'[i].pc = "none"
         \/ trk[i].pc \notin {"none", "exec"} /\ trk'[i].pc = trk[i].pc
  PROVE  ReportInv(i)'
<1>1. trk[i].pc = "call" <=> trk'[i].pc = "call"
  OBVIOUS
<1>2. trk[i].pc \in {"none", "exec"} <=> trk'[i].pc \in {"none", "exec"}
  OBVIOUS
<1> QED BY <1>1, <1>2 DEF ReportInv, Calling, Reporting

\* A handler of a service that was not started notes the event and no more.
LEMMA IdleHandler ==
  ASSUME TypeOK, LinkInv, NEW i \in Ifaces, RunEvent(i), ~hook
  PROVE  LinkInv'
<1>1. /\ UNCHANGED <<up, pend, want, orphan, trk, trackDir, wanState, hook,
                     ifaceState, rules, routed>>
      /\ merged' = merged
      /\ cur' = [cur EXCEPT ![i] = "idle"]
      /\ last' \in {[last EXCEPT ![i] = "ifup"], [last EXCEPT ![i] = "ifdown"]}
  BY DEF RunEvent, HandleIfup, HandleIfdown, procdVars
<1>2. (\A j \in Ifaces \ {i} : Calm(j)) /\ cur'[i] = "idle"
  <2>1. cur \in [Ifaces -> {"idle", "ifup", "ifdown"}] /\ last \in [Ifaces -> {"ifup", "ifdown"}]
    BY DEF TypeOK
  <2>2. /\ cur'[i] = "idle"
        /\ \A j \in Ifaces \ {i} : cur'[j] = cur[j] /\ last'[j] = last[j]
    BY <1>1, <2>1
  <2> QED BY <1>1, <2>2 DEF Calm
<1>3. LinkKept(i)
  BY DEF LinkInv
<1>4. RunningInv(i)' /\ EventInv(i)' /\ NewsInv(i)'
  BY <1>1, <1>2, <1>3 DEF LinkKept, RunningInv, EventInv, NewsInv
<1>5. ReportInv(i)'
  BY <1>1, <1>3 DEF LinkKept, ReportInv, Calling, Reporting
<1>6. StaleInv(i)'
  BY <1>1, <1>3 DEF LinkKept, StaleInv, Calling
<1> QED BY <1>2, <1>4, <1>5, <1>6, OneInterface DEF LinkKept

\* An ifup sets the rules of its interface and sends USR2.
LEMMA IfupLink ==
  ASSUME TypeOK, PolicyInv, LinkInv, NEW i \in Ifaces, RunEvent(i), hook,
         cur[i] = "ifup"
  PROVE  LinkInv'
<1>1. LinkKept(i) /\ want[i]
  BY DEF LinkInv, LinkKept, RunningInv
<1>2. /\ UNCHANGED <<up, pend, want, orphan, trackDir, wanState, hook, merged>>
      /\ cur' = [cur EXCEPT ![i] = "idle"] /\ last' = [last EXCEPT ![i] = "ifup"]
      /\ ifaceState' = [ifaceState EXCEPT ![i] = IfupStatus(i)]
      /\ rules' = rules \union {i}
      /\ routed' \in {Online(ifaceState'), routed}
      /\ trk' = Signalled(i, "USR2")
  BY ZenonT(30) DEF RunEvent, HandleIfup, procdVars
<1>3. /\ cur'[i] = "idle" /\ i \in rules' /\ last'[i] = "ifup"
      /\ ifaceState'[i] = IfupStatus(i)
  BY <1>2 DEF TypeOK
<1>4. /\ \A j \in Ifaces \ {i} : trk'[j] = trk[j]
      /\ trk'[i].score = trk[i].score /\ trk'[i].downEv = trk[i].downEv
      /\ trk'[i].report = trk[i].report /\ trk'[i].ret = trk[i].ret
      /\ \/ /\ trk[i].pc \in {"none", "exec"} /\ trk'[i].pc = "none"
            /\ trk'[i].sig = trk[i].sig
         \/ /\ trk[i].pc \notin {"none", "exec"} /\ trk'[i].pc = trk[i].pc
            /\ trk'[i].sig = trk[i].sig \union {"USR2"}
  BY <1>1, <1>2, SignalOwn
<1>5. ASSUME NEW j \in Ifaces \ {i} PROVE Calm(j)
  <2>1. /\ cur'[j] = cur[j] /\ last'[j] = last[j] /\ ifaceState'[j] = ifaceState[j]
        /\ (j \in rules' <=> j \in rules)
    BY <1>2 DEF TypeOK
  <2>2. j \in routed' => j \in routed
    BY <1>2, <2>1, OnlyOnline
  <2> QED BY <1>2, <1>4, <2>1, <2>2 DEF Calm
<1>6. RunningInv(i)'
  BY <1>1, <1>2, <1>4 DEF LinkKept, RunningInv
<1>7. EventInv(i)'
  BY <1>1, <1>2, <1>3 DEF LinkKept, EventInv
<1>8. ReportInv(i)'
  BY <1>1, <1>2, <1>4, SignalReports DEF LinkKept
<1>9. StaleInv(i)'
  BY <1>1, <1>3, <1>4 DEF LinkKept, StaleInv, Calling
<1>10. NewsInv(i)'
  BY <1>3 DEF NewsInv, IfupStatus
<1> QED BY <1>5, <1>6, <1>7, <1>8, <1>9, <1>10, OneInterface DEF LinkKept

\* An ifdown removes rules and interface, and leaves a USR1 to a tracker that
\* might still report.
LEMMA IfdownLink ==
  ASSUME TypeOK, PolicyInv, LinkInv, NEW i \in Ifaces, RunEvent(i), hook,
         cur[i] = "ifdown"
  PROVE  LinkInv'
<1>1. LinkKept(i) /\ want[i]
  BY DEF LinkInv, LinkKept, RunningInv
<1>2. /\ UNCHANGED <<up, pend, want, orphan, trackDir, wanState, hook>>
      /\ cur' = [cur EXCEPT ![i] = "idle"] /\ last' = [last EXCEPT ![i] = "ifdown"]
      /\ ifaceState' = [ifaceState EXCEPT ![i] = "offline"]
      /\ rules' = rules \ {i}
      /\ routed' = Online(ifaceState')
      /\ trk' = Signalled(i, "USR1")
      /\ merged' = IF "USR2" \in trk[i].sig THEN merged \union {i} ELSE merged
  BY <1>1, ZenonT(30) DEF RunEvent, HandleIfdown, procdVars
<1>3. /\ cur'[i] = "idle" /\ i \notin rules' /\ last'[i] = "ifdown"
      /\ ifaceState'[i] = "offline" /\ i \notin routed'
  BY <1>2 DEF TypeOK, Online
<1>4. /\ \A j \in Ifaces \ {i} : trk'[j] = trk[j]
      /\ trk'[i].score = trk[i].score /\ trk'[i].downEv = trk[i].downEv
      /\ trk'[i].report = trk[i].report /\ trk'[i].ret = trk[i].ret
      /\ \/ /\ trk[i].pc \in {"none", "exec"} /\ trk'[i].pc = "none"
            /\ trk'[i].sig = trk[i].sig
         \/ /\ trk[i].pc \notin {"none", "exec"} /\ trk'[i].pc = trk[i].pc
            /\ trk'[i].sig = trk[i].sig \union {"USR1"}
  BY <1>1, <1>2, SignalOwn
<1>5. ASSUME NEW j \in Ifaces \ {i} PROVE Calm(j)
  <2>1. /\ cur'[j] = cur[j] /\ last'[j] = last[j] /\ ifaceState'[j] = ifaceState[j]
        /\ (j \in rules' <=> j \in rules) /\ (j \in merged => j \in merged')
    BY <1>2 DEF TypeOK
  <2>2. j \in routed' => j \in routed
    BY <1>2, <2>1, OnlyOnline
  <2> QED BY <1>2, <1>4, <2>1, <2>2 DEF Calm
<1>6. RunningInv(i)'
  BY <1>1, <1>2, <1>4 DEF LinkKept, RunningInv
<1>7. EventInv(i)'
  BY <1>1, <1>2, <1>3 DEF LinkKept, EventInv
<1>8. ReportInv(i)'
  BY <1>1, <1>2, <1>4, SignalReports DEF LinkKept
<1>9. StaleInv(i)'
  <2>1. "USR2" \in trk'[i].sig => i \in merged'
    BY <1>2, <1>4
  <2>2. trk'[i].pc = "call" => "USR1" \in trk'[i].sig
    BY <1>4
  <2> QED BY <1>1, <1>3, <1>4, <2>1, <2>2 DEF LinkKept, StaleInv, Unserved, Calling
<1>10. NewsInv(i)'
  BY <1>3 DEF NewsInv
<1> QED BY <1>5, <1>6, <1>7, <1>8, <1>9, <1>10, OneInterface DEF LinkKept


\* netifd: a change of the link is queued, or undoes what a running handler is
\* late to announce; a queued event goes to the handler.
LEMMA NetifdLink ==
  ASSUME TypeOK, LinkInv, NEW i \in Ifaces, Flip(i) \/ StartEvent(i)
  PROVE  LinkInv'
<1>1. UNCHANGED <<want, orphan, trk, trackDir, wanState, hook, ifaceState, rules,
                  routed, last, merged>>
  BY DEF Flip, StartEvent, procdVars, trackFiles, serviceVars, historyVars
<1>2. /\ \A j \in Ifaces \ {i} :
           up'[j] = up[j] /\ pend'[j] = pend[j] /\ cur'[j] = cur[j]
      /\ cur[i] \in {"idle", "ifup", "ifdown"}
      /\ \/ /\ up'[i] = ~up[i] /\ cur'[i] = cur[i]
            /\ pend'[i] = (cur[i] # IF up[i] THEN "ifdown" ELSE "ifup")
         \/ /\ up'[i] = up[i] /\ cur'[i] = IF up[i] THEN "ifup" ELSE "ifdown"
            /\ cur[i] = "idle"
  <2>1. CASE Flip(i)
    BY <2>1 DEF Flip, TypeOK
  <2>2. CASE StartEvent(i)
    BY <2>2 DEF StartEvent, TypeOK
  <2> QED BY <2>1, <2>2
<1>3. LinkKept(i) /\ \A j \in Ifaces \ {i} : Calm(j)
  BY <1>1, <1>2 DEF LinkInv, Calm
<1>4. RunningInv(i)' /\ NewsInv(i)'
  BY <1>1, <1>3 DEF LinkKept, RunningInv, NewsInv
<1>5. pend'[i] \/ cur'[i] # "idle"
  BY <1>2
<1>6. EventInv(i)'
  BY <1>2, <1>5 DEF EventInv
<1>7. ReportInv(i)'
  BY <1>1, <1>3 DEF LinkKept, ReportInv, Calling, Reporting
<1>8. StaleInv(i)'
  BY <1>1, <1>3, <1>5 DEF LinkKept, StaleInv, Unserved, Calling
<1> QED BY <1>3, <1>4, <1>6, <1>7, <1>8, OneInterface DEF LinkKept

\* procd starts a tracker that has reported nothing yet.
LEMMA LaunchLink ==
  ASSUME TypeOK, LinkInv, NEW i \in Ifaces, Launch(i)
  PROVE  LinkInv'
<1> DEFINE t == [NewTracker EXCEPT !.pc = "exec"]
<1>1. /\ trk' = [trk EXCEPT ![i] = t] /\ OnlyTracker(i)
      /\ trk[i].pc = "none" /\ want[i] /\ LinkKept(i)
  BY DEF Launch, OnlyTracker, trackFiles, LinkInv
<1>2. t.pc = "exec" /\ t.sig = {}
  BY DEF NewTracker
<1> HIDE DEF t
<1>3. (\A j \in Ifaces \ {i} : Calm(j)) /\ trk'[i] = t
  BY <1>1, OnlyTrackerCalm
<1>4. UNCHANGED <<up, pend, cur, want, orphan, hook, wanState, trackDir,
                  ifaceState, rules, routed, last, merged>>
  BY <1>1 DEF OnlyTracker, netVars, procdVars, serviceVars
<1>5. RunningInv(i)' /\ EventInv(i)' /\ NewsInv(i)'
  BY <1>1, <1>2, <1>3, <1>4 DEF LinkKept, RunningInv, EventInv, NewsInv
<1>6. wanState[i] = ""
  BY <1>1 DEF LinkKept, ReportInv
<1>7. ReportInv(i)'
  BY <1>2, <1>3, <1>4, <1>6 DEF ReportInv, Calling, Reporting
<1>8. StaleInv(i)'
  BY <1>1, <1>2, <1>3, <1>4, <1>6 DEF LinkKept, StaleInv, Calling
<1> QED BY <1>3, <1>5, <1>7, <1>8, OneInterface DEF LinkKept

\* The service starts with the interfaces that are up, before any tracker.
LEMMA StartLink ==
  ASSUME TypeOK, LinkInv, Start
  PROVE  LinkInv'
<1>1. /\ UNCHANGED <<up, pend, cur, orphan, trk, wanState, trackDir, merged>>
      /\ ~hook /\ hook'
      /\ ifaceState' = [i \in Ifaces |-> IF up[i] THEN IfupStatus(i) ELSE ifaceState[i]]
      /\ rules' = {i \in Ifaces : up[i]} /\ routed' = Online(ifaceState')
      /\ want' = [i \in Ifaces |-> TRUE]
      /\ last' = [i \in Ifaces |-> IF up[i] THEN "ifup" ELSE "ifdown"]
  BY DEF Start, netVars, trackFiles
<1>2. ASSUME NEW i \in Ifaces PROVE LinkKept(i)'
  <2>1. LinkKept(i) /\ trk[i].pc = "none" /\ trk[i].sig = {} /\ ifaceState[i] = "offline"
    BY <1>1 DEF LinkInv, LinkKept, RunningInv
  <2>2. want'[i] /\ (i \in rules' <=> up[i])
    BY <1>1
  <2>3. i \in routed' => i \in rules'
    BY <1>1, <2>1, <2>2 DEF Online
  <2>4. RunningInv(i)' /\ EventInv(i)'
    BY <1>1, <2>1, <2>2 DEF LinkKept, RunningInv, EventInv
  <2>5. wanState[i] = "" /\ wanState'[i] = ""
    BY <1>1, <2>1 DEF LinkKept, ReportInv
  <2>6. ReportInv(i)' /\ NewsInv(i)'
    BY <1>1, <2>1, <2>5 DEF ReportInv, Calling, Reporting, NewsInv
  <2>7. StaleInv(i)'
    BY <1>1, <2>1, <2>3 DEF StaleInv, Calling
  <2> QED BY <2>4, <2>6, <2>7 DEF LinkKept
<1> QED BY <1>2 DEF LinkInv, LinkChangesOnly

LEMMA LinkStep == TypeOK /\ PolicyInv /\ LinkInv /\ [Next]_vars => LinkInv'
<1> SUFFICES ASSUME TypeOK, PolicyInv, LinkInv, [Next]_vars PROVE LinkInv'
  OBVIOUS
<1>1. \A kind \in {"command", "restart", "kill"} : ~Disturb(kind)
  BY DEF LinkInv, LinkChangesOnly, Disturb
<1>2. CASE UNCHANGED vars
  <2>1. \A i \in Ifaces : Calm(i)
    BY <1>2 DEF vars, Calm, netVars, procdVars, trackFiles, serviceVars, historyVars
  <2> QED BY <2>1, CalmKept DEF LinkInv, LinkChangesOnly
<1>3. CASE Start \/ Stop
  BY <1>1, <1>3, StartLink DEF Stop
<1>4. ASSUME NEW i \in Ifaces, TrackerStep(i) PROVE LinkInv'
  BY <1>4, TrackerHarmless, BootLink, RoundLink, CallLink
<1>5. ASSUME NEW i \in Ifaces, HandlerStep(i) PROVE LinkInv'
  <2>1. CASE StartEvent(i)
    BY <2>1, NetifdLink
  <2>2. CASE RunEvent(i)
    <3>1. cur[i] \in {"ifup", "ifdown"}
      BY <2>2 DEF RunEvent
    <3> QED BY <2>2, <3>1, IdleHandler, IfupLink, IfdownLink
  <2>3. CASE OrphanCall(i)
    BY <2>3 DEF OrphanCall, LinkInv, LinkKept, RunningInv
  <2> QED BY <1>5, <2>1, <2>2, <2>3 DEF HandlerStep
<1>6. ASSUME NEW i \in Ifaces, Launch(i) PROVE LinkInv'
  BY <1>6, LaunchLink
<1>7. ASSUME NEW i \in Ifaces, EnvironmentStep(i) PROVE LinkInv'
  <2>1. CASE Flip(i)
    BY <2>1, NetifdLink
  <2>2. CASE ChangeReach(i)
    <3>1. \A j \in Ifaces : Calm(j)
      BY <2>2 DEF ChangeReach, Calm, procdVars, trackFiles, serviceVars, historyVars
    <3> QED BY <3>1, CalmKept DEF LinkInv, LinkChangesOnly
  <2>3. CASE Command(i) \/ Kill(i)
    BY <1>1, <2>3 DEF Command, Kill
  <2> QED BY <1>7, <2>1, <2>2, <2>3 DEF EnvironmentStep
<1> QED BY <1>2, <1>3, <1>4, <1>5, <1>6, <1>7 DEF Next

LEMMA LinkInit == LinkChangesOnly /\ Init => LinkInv
<1> SUFFICES ASSUME LinkChangesOnly, Init, NEW i \in Ifaces PROVE LinkKept(i)
  BY DEF LinkInv
<1>1. /\ orphan[i] = {} /\ ~hook /\ routed = {} /\ ~want[i] /\ ifaceState[i] = "offline"
      /\ trk[i].pc = "none" /\ trk[i].sig = {} /\ cur[i] = "idle" /\ wanState[i] = ""
  BY DEF Init, NewTracker
<1> QED BY <1>1 DEF LinkKept, RunningInv, EventInv, ReportInv, StaleInv, NewsInv,
                    Calling, Reporting

\* With link changes as the only disturbance the invariants hold always.
LEMMA LinkInvariance == LinkChangesOnly => (Spec => [](TypeOK /\ PolicyInv /\ LinkInv))
<1>1. Init => TypeOK /\ PolicyInv
  BY TypeInit DEF Init, PolicyInv, PoliciesCurrent, Online
<1>2. TypeOK /\ PolicyInv /\ LinkInv /\ [Next]_vars => (TypeOK /\ PolicyInv /\ LinkInv)'
  BY TypeStep, PolicyStep, LinkStep
<1>3. LinkChangesOnly /\ Init => LinkInv
  BY LinkInit
<1> QED BY <1>1, <1>2, <1>3, PTL DEF Spec

\* For any interfaces, hosts and thresholds, under any sequence of link
\* changes and answers: when a report that waited for procd's lock makes an
\* interface online after its ifdown has removed the rules (15-mwan3), the
\* tracker still has that ifdown to serve, netifd has more to tell, or the
\* ifdown's USR1 met a USR2 that was not trapped yet.
THEOREM Mwan3StaleOnline == LinkChangesOnly => (Spec => []StaleOnline)
<1>1. LinkInv => StaleOnline
  BY DEF LinkInv, LinkKept, StaleInv, Unserved, StaleOnline
<1> QED BY <1>1, LinkInvariance, PTL

\* For any interfaces, hosts and thresholds, with initial_state "online" and
\* link changes alone: a report that 15-mwan3 ignores because it repeats STATE
\* would have changed nothing.
THEOREM Mwan3IgnoredReports ==
  LinkChangesOnly /\ InitialState = "online" => (Spec => []IgnoredReportsChangeNothing)
<1> SUFFICES ASSUME LinkChangesOnly, InitialState = "online"
             PROVE  Spec => []IgnoredReportsChangeNothing
  OBVIOUS
<1>1. TypeOK /\ LinkInv => IgnoredReportsChangeNothing
  <2> SUFFICES ASSUME TypeOK, LinkInv, NEW i \in Ifaces
               PROVE  /\ Reporting(i, "disconnected") => wanState[i] # "disconnected"
                      /\ Reporting(i, "connected") /\ wanState[i] = "connected" =>
                           ifaceState[i] = "online" \/ last[i] = "ifdown"
    BY DEF IgnoredReportsChangeNothing
  <2>1. LinkKept(i) /\ last[i] \in {"ifup", "ifdown"}
    BY DEF LinkInv, TypeOK
  <2>2. Reporting(i, "connected") => hook
    BY <2>1 DEF LinkKept, RunningInv, Reporting, Calling
  <2> QED BY <2>1, <2>2 DEF LinkKept, ReportInv, NewsInv
<1> QED BY <1>1, LinkInvariance, PTL
============================================================================
