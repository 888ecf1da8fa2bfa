----------------------------- MODULE Mwan3Track -----------------------------
(***************************************************************************)
(* mwan3: the tracker of each WAN interface (usr/sbin/mwan3track), the     *)
(* hotplug handler that keeps the interface states and the policies        *)
(* (etc/hotplug.d/iface/15-mwan3) and the service script                   *)
(* (etc/init.d/mwan3), as the package builds them: the sources with the    *)
(* series in patches/ applied.                                             *)
(*                                                                         *)
(* The handler runs under procd's service lock from its first line to its  *)
(* last (sourcing procd.sh takes it), so a whole handler is one action;    *)
(* a tracker that calls it waits in the foreground, and the signals it     *)
(* gets meanwhile are trapped only when the call has returned.             *)
(*                                                                         *)
(* netifd, procd and the answers of the tracked hosts are the environment. *)
(***************************************************************************)
EXTENDS Integers, FiniteSets

CONSTANTS
    Ifaces,          \* the enabled interfaces of /etc/config/mwan3
    NHosts,          \* how many track_ip entries an interface has
    Reliability,     \* option reliability: hosts that must answer in a round
    Down, Up,        \* options down and up: rounds until offline, until online
    InitialState,    \* option initial_state
    CheckQuality,    \* option check_quality: a host can also be "skip"
    Disturbances,    \* which of flip, command, restart, kill may happen
    MaxDisturbances  \* bound: how many of them

ASSUME ThresholdsAssumption ==
    /\ Down \in Nat \ {0}
    /\ Up \in Nat \ {0}
    /\ InitialState \in {"online", "offline"}

ASSUME HostsAssumption ==
    /\ NHosts \in Nat \ {0}
    /\ Reliability \in 1..NHosts
    /\ CheckQuality \in BOOLEAN

ASSUME DisturbancesAssumption ==
    /\ Disturbances \subseteq {"flip", "command", "restart", "kill"}
    /\ MaxDisturbances \in Nat

VARIABLES
    up,          \* netifd: the interface is up and has a device
    pend,        \* netifd: an event of the interface is queued
    cur,         \* netifd: the event whose handler was started, or "idle"
    reach,       \* what the tests of the hosts of an interface return
    want,        \* procd: the instance track_<interface> should run
    trk,         \* the shell variables and the position of each tracker
    file,        \* /var/run/mwan3track/<interface>/STATUS
    wanState,    \* /var/run/mwan3track/<interface>/STATE
    trackDir,    \* /var/run/mwan3track/<interface> exists
    statusDir,   \* /var/run/mwan3 exists: "/etc/init.d/mwan3 running"
    hook,        \* the chain mwan3_hook exists: the service was started
    ifaceState,  \* /var/run/mwan3/iface_state/<interface>
    rules,       \* interfaces whose ip rules and routes are set
    routed,      \* interfaces that were online when the policies were built
    orphan,      \* handler calls that outlived their tracker
    spent,       \* disturbances so far
    fails,       \* history: failed rounds in a row, up to Down
    succs,       \* history: successful rounds in a row, up to Up
    last,        \* history: the last ifup or ifdown that was handled
    merged       \* history: USR1 was sent while a USR2 was still pending

netVars     == <<up, pend, cur, reach>>
procdVars   == <<want, orphan, spent>>
trackFiles  == <<file, wanState, trackDir>>
serviceVars == <<statusDir, hook, ifaceState, rules, routed>>
historyVars == <<fails, succs, last, merged>>
vars == <<netVars, procdVars, trk, trackFiles, serviceVars, historyVars>>

Hosts   == 1..NHosts
Results == IF CheckQuality THEN {"up", "down", "skip"} ELSE {"up", "down"}

States   == {"online", "offline"}
Statuses == States \union {"", "connecting", "disconnecting", "disabled"}
Reports  == {"connected", "disconnected"}
Top      == Down + Up          \* the score of a link that is fine

\* Where a tracker is.  exec: before its traps are set; first: inside
\* firstconnect, the state of the network already read; check, fork, nap:
\* around the endless sleep; test: a round of tests; rest: the pause between
\* rounds; ifdown, ifup: the two event checks; downDone, upDone: before their
\* flags are cleared; call: in /sbin/hotplug-call.
Places == {"none", "exec", "boot", "first", "check", "fork", "nap", "test",
           "rest", "ifdown", "downDone", "ifup", "upDone", "call"}

Tracker == [pc       : Places,
            ret      : {"check", "rest", "downDone", "upDone"},
            report   : Reports \union {"first"},
            net      : BOOLEAN,
            status   : Statuses,
            started  : BOOLEAN,
            score    : 0..Top,
            lost     : BOOLEAN,
            cut      : SUBSET Hosts,
            downEv   : BOOLEAN,
            upEv     : BOOLEAN,
            sig      : SUBSET {"USR1", "USR2", "TERM"}]

NewTracker == [pc |-> "none", ret |-> "check", report |-> "first",
               net |-> FALSE, status |-> "", started |-> FALSE,
               score |-> Top, lost |-> FALSE, cut |-> {},
               downEv |-> FALSE, upEv |-> FALSE, sig |-> {}]

\* Every variable has its type; whatever rounds, signals and restarts do, the
\* score of mwan3track stays within 0..down+up.
TypeOK ==
    /\ up \in [Ifaces -> BOOLEAN]
    /\ pend \in [Ifaces -> BOOLEAN]
    /\ cur \in [Ifaces -> {"idle", "ifup", "ifdown"}]
    /\ reach \in [Ifaces -> [Hosts -> Results]]
    /\ want \in [Ifaces -> BOOLEAN]
    /\ trk \in [Ifaces -> Tracker]
    /\ file \in [Ifaces -> Statuses]
    /\ wanState \in [Ifaces -> Reports \union {""}]
    /\ trackDir \in [Ifaces -> BOOLEAN]
    /\ statusDir \in BOOLEAN
    /\ hook \in BOOLEAN
    /\ ifaceState \in [Ifaces -> States]
    /\ rules \subseteq Ifaces
    /\ routed \subseteq Ifaces
    /\ orphan \in [Ifaces -> SUBSET Reports]
    /\ spent \in 0..MaxDisturbances
    /\ fails \in [Ifaces -> 0..Down]
    /\ succs \in [Ifaces -> 0..Up]
    /\ last \in [Ifaces -> {"ifup", "ifdown"}]
    /\ merged \subseteq Ifaces

-----------------------------------------------------------------------------
(* The handler /etc/hotplug.d/iface/15-mwan3, run under the service lock.  *)

Online(states) == {i \in DOMAIN states : states[i] = "online"}

\* Seeded fault: the policies are not rebuilt after a report.
HandleReport_bug(i, report) ==
    /\ statusDir' = TRUE
    /\ IF hook /\ wanState[i] # report
       THEN /\ wanState' = IF trackDir[i] THEN [wanState EXCEPT ![i] = report]
                                          ELSE wanState
            /\ ifaceState' = [ifaceState EXCEPT ![i] =
                 IF report = "connected" THEN "online" ELSE "offline"]
       ELSE UNCHANGED <<wanState, ifaceState>>
    /\ UNCHANGED <<hook, rules, routed>>

\* mwan3_init creates the status directory before "running" looks for it, so
\* the only guard left is that mwan3_hook exists.  An unchanged STATE ends
\* the handler of connected and disconnected.
HandleReport(i, report) ==
    /\ statusDir' = TRUE
    /\ IF hook /\ wanState[i] # report
       THEN /\ wanState' = IF trackDir[i] THEN [wanState EXCEPT ![i] = report]
                                          ELSE wanState
            /\ ifaceState' = [ifaceState EXCEPT ![i] =
                 IF report = "connected" THEN "online" ELSE "offline"]
            /\ routed' = Online(ifaceState')
       ELSE UNCHANGED <<wanState, ifaceState, routed>>
    /\ UNCHANGED <<hook, rules>>

\* procd_send_signal to track_<interface>: nothing without an instance; a
\* tracker that has not set its traps dies of USR1 and USR2.
Signalled(i, s) ==
    CASE ~want[i] \/ trk[i].pc = "none" -> trk
      [] want[i] /\ trk[i].pc = "exec"  -> [trk EXCEPT ![i].pc = "none"]
      [] OTHER -> [trk EXCEPT ![i].sig = @ \union {s}]

\* The status an ifup gives the interface.
IfupStatus(i) ==
    IF InitialState = "offline" /\ file[i] # "online" THEN "offline" ELSE "online"

HandleIfup(i) ==
    /\ statusDir' = TRUE
    /\ IF hook
       THEN /\ ifaceState' = [ifaceState EXCEPT ![i] = IfupStatus(i)]
            /\ rules' = rules \union {i}
            /\ routed' = IF IfupStatus(i) = "online" THEN Online(ifaceState')
                                                     ELSE routed
            /\ trk' = Signalled(i, "USR2")
       ELSE UNCHANGED <<ifaceState, rules, routed, trk>>
    /\ last' = [last EXCEPT ![i] = "ifup"]
    /\ UNCHANGED <<hook, wanState, merged>>

HandleIfdown(i) ==
    /\ statusDir' = TRUE
    /\ IF hook
       THEN /\ ifaceState' = [ifaceState EXCEPT ![i] = "offline"]
            /\ rules' = rules \ {i}
            /\ trk' = Signalled(i, "USR1")
            /\ routed' = Online(ifaceState')
       ELSE UNCHANGED <<ifaceState, rules, routed, trk>>
    /\ last' = [last EXCEPT ![i] = "ifdown"]
    /\ merged' = IF hook /\ want[i] /\ "USR2" \in trk[i].sig
                 THEN merged \union {i} ELSE merged
    /\ UNCHANGED <<hook, wanState>>

-----------------------------------------------------------------------------
(* The environment: netifd, the commands "mwan3 ifup" and "mwan3 ifdown",  *)
(* the tracked hosts, and procd killing a tracker.                         *)

Disturb(kind) ==
    /\ kind \in Disturbances
    /\ spent < MaxDisturbances
    /\ spent' = spent + 1

\* netifd keeps one queued event per interface; a change back to what the
\* running handler announces leaves nothing to announce.
Flip(i) ==
    /\ Disturb("flip")
    /\ up' = [up EXCEPT ![i] = ~@]
    /\ pend' = [pend EXCEPT ![i] =
                  cur[i] # IF up[i] THEN "ifdown" ELSE "ifup"]
    /\ UNCHANGED <<cur, reach, want, orphan, trk, trackFiles, serviceVars,
                   historyVars>>

StartEvent(i) ==
    /\ \A j \in Ifaces : cur[j] = "idle"
    /\ pend[i]
    /\ cur' = [cur EXCEPT ![i] = IF up[i] THEN "ifup" ELSE "ifdown"]
    /\ pend' = [pend EXCEPT ![i] = FALSE]
    /\ UNCHANGED <<up, reach, procdVars, trk, trackFiles, serviceVars,
                   historyVars>>

RunEvent(i) ==
    /\ \/ cur[i] = "ifup" /\ HandleIfup(i)
       \/ cur[i] = "ifdown" /\ HandleIfdown(i)
    /\ cur' = [cur EXCEPT ![i] = "idle"]
    /\ UNCHANGED <<up, pend, reach, procdVars, file, trackDir, fails, succs>>

\* "mwan3 ifup" runs the handler only for an interface that netifd has up and
\* a service that is running; "mwan3 ifdown" asks nothing.
Command(i) ==
    /\ Disturb("command")
    /\ \/ statusDir /\ up[i] /\ HandleIfup(i)
       \/ HandleIfdown(i)
    /\ UNCHANGED <<netVars, want, orphan, file, trackDir, fails, succs>>

\* The answers change at any time.
ChangeReach(i) ==
    /\ \E r \in [Hosts -> Results] :
          r # reach[i] /\ reach' = [reach EXCEPT ![i] = r]
    /\ UNCHANGED <<up, pend, cur, procdVars, trk, trackFiles, serviceVars,
                   historyVars>>

\* A tracker is killed (out of memory, or by procd when it ignores TERM for
\* too long); a handler it was waiting for goes on alone.
Kill(i) ==
    /\ Disturb("kill")
    /\ trk[i].pc # "none"
    /\ trk' = [trk EXCEPT ![i].pc = "none"]
    /\ orphan' = [orphan EXCEPT ![i] =
         IF trk[i].pc = "call" /\ trk[i].report # "first"
         THEN @ \union {trk[i].report} ELSE @]
    /\ UNCHANGED <<netVars, want, trackFiles, serviceVars, historyVars>>

OrphanCall(i) ==
    /\ \E report \in orphan[i] :
          /\ HandleReport(i, report)
          /\ orphan' = [orphan EXCEPT ![i] = @ \ {report}]
    /\ UNCHANGED <<netVars, want, spent, trk, file, trackDir, historyVars>>

-----------------------------------------------------------------------------
(* The service script, under the same lock.                                *)

\* start: the rules and the policies, and "ifup" for the interfaces that are
\* up; procd starts the trackers when the script closes the service.
Start ==
    /\ ~hook
    /\ hook' = TRUE
    /\ statusDir' = TRUE
    /\ ifaceState' = [i \in Ifaces |->
          IF up[i] THEN IfupStatus(i) ELSE ifaceState[i]]
    /\ rules' = {i \in Ifaces : up[i]}
    /\ routed' = Online(ifaceState')
    /\ want' = [i \in Ifaces |-> TRUE]
    /\ last' = [i \in Ifaces |-> IF up[i] THEN "ifup" ELSE "ifdown"]
    /\ UNCHANGED <<netVars, orphan, spent, trk, trackFiles, fails, succs, merged>>

\* procd sends TERM; a tracker that has no trap yet dies at once.
Terminated(t) ==
    CASE t.pc = "none" -> t
      [] t.pc = "exec" -> [t EXCEPT !.pc = "none"]
      [] OTHER         -> [t EXCEPT !.sig = @ \union {"TERM"}]

\* stop: everything is removed, then the instances.
Stop ==
    /\ Disturb("restart")
    /\ hook
    /\ hook' = FALSE
    /\ statusDir' = FALSE
    /\ ifaceState' = [i \in Ifaces |-> "offline"]
    /\ rules' = {}
    /\ routed' = {}
    /\ want' = [i \in Ifaces |-> FALSE]
    /\ file' = [i \in Ifaces |-> ""]
    /\ wanState' = [i \in Ifaces |-> ""]
    /\ trackDir' = [i \in Ifaces |-> FALSE]
    /\ trk' = [i \in Ifaces |-> Terminated(trk[i])]
    /\ UNCHANGED <<netVars, orphan, historyVars>>

\* procd starts an instance, and starts it again when it died (respawn).
Launch(i) ==
    /\ want[i]
    /\ trk[i].pc = "none"
    /\ trk' = [trk EXCEPT ![i] = [NewTracker EXCEPT !.pc = "exec"]]
    /\ fails' = [fails EXCEPT ![i] = 0]
    /\ succs' = [succs EXCEPT ![i] = 0]
    /\ UNCHANGED <<netVars, procdVars, trackFiles, serviceVars, last, merged>>

-----------------------------------------------------------------------------
(* The tracker.  A write to STATUS fails when stop removed the directory.  *)

Show(i, status) == file' = IF trackDir[i] THEN [file EXCEPT ![i] = status] ELSE file

\* The shell runs the traps of pending signals before its next command.
At(i, place) == trk[i].pc = place /\ trk[i].sig = {}

\* main: the directory, the traps, the options.
Boot(i) ==
    /\ At(i, "exec")
    /\ trk' = [trk EXCEPT ![i].pc = "boot"]
    /\ trackDir' = [trackDir EXCEPT ![i] = TRUE]
    /\ UNCHANGED <<netVars, procdVars, file, wanState, serviceVars, historyVars>>

\* firstconnect, up to its reading of the network ...
FirstConnect(i) ==
    /\ \/ At(i, "boot")
       \/ At(i, "ifup") /\ trk[i].upEv
    /\ trk' = [trk EXCEPT
         ![i].status = IF @ = "online" THEN @ ELSE InitialState,
         ![i].net = up[i],
         ![i].ret = IF trk[i].pc = "boot" THEN "check" ELSE "upDone",
         ![i].pc = "first"]
    /\ UNCHANGED <<netVars, procdVars, trackFiles, serviceVars, historyVars>>

\* ... the return to its caller ...
Return(t) ==
    [t EXCEPT !.pc = t.ret, !.ret = "check", !.report = "first", !.net = FALSE]

\* Seeded fault: "connected 1" starts from a full score.
FirstResult_bug(i) ==
    LET t == trk[i] IN
    /\ At(i, "first")
    /\ \/ /\ ~t.net
          /\ Show(i, "disabled")
          /\ trk' = [trk EXCEPT ![i] =
               Return([t EXCEPT !.status = "disabled", !.started = FALSE])]
       \/ /\ t.net
          /\ Show(i, "online")
          /\ trk' = [trk EXCEPT ![i] =
               [t EXCEPT !.started = TRUE, !.status = "online", !.lost = FALSE,
                         !.score = Top, !.pc = "call", !.report = "first"]]
    /\ UNCHANGED <<netVars, procdVars, wanState, trackDir, serviceVars, historyVars>>

\* ... and what it makes of what it read: "disabled", "disconnected 1" or
\* "connected 1".
FirstResult(i) ==
    LET t == trk[i] IN
    /\ At(i, "first")
    /\ \/ /\ ~t.net
          /\ Show(i, "disabled")
          /\ trk' = [trk EXCEPT ![i] =
               Return([t EXCEPT !.status = "disabled", !.started = FALSE])]
       \/ /\ t.net /\ t.status = "offline"
          /\ Show(i, "offline")
          /\ trk' = [trk EXCEPT ![i] =
               Return([t EXCEPT !.started = TRUE, !.score = 0])]
       \/ /\ t.net /\ t.status # "offline"
          /\ Show(i, "online")
          /\ trk' = [trk EXCEPT ![i] =
               [t EXCEPT !.started = TRUE, !.status = "online", !.lost = FALSE,
                         !.pc = "call", !.report = "first"]]
    /\ UNCHANGED <<netVars, procdVars, wanState, trackDir, serviceVars, historyVars>>

\* [ $STARTED -eq 0 ]
Check(i) ==
    /\ At(i, "check")
    /\ trk' = [trk EXCEPT ![i].pc = IF trk[i].started THEN "test" ELSE "fork",
                          ![i].cut = {}]
    /\ UNCHANGED <<netVars, procdVars, trackFiles, serviceVars, historyVars>>

\* sleep $MAX_SLEEP & SLEEP_PID=$!
Fork(i) ==
    /\ At(i, "fork")
    /\ trk' = [trk EXCEPT ![i].pc = "nap"]
    /\ UNCHANGED <<netVars, procdVars, trackFiles, serviceVars, historyVars>>

\* The tests of a round stop as soon as Reliability hosts have answered; a
\* test that a trap killed has failed, and so has one on a dead interface.
Answers(i) ==
    [h \in Hosts |-> IF h \in trk[i].cut \/ ~up[i] THEN "down" ELSE reach[i][h]]

Answered(r, h) == Cardinality({g \in 1..h : r[g] = "up"})

LostOne(r) == \E h \in Hosts : r[h] = "down" /\ Answered(r, h) < Reliability

Succeeded(r) == Answered(r, NHosts) >= Reliability

\* connecting() and disconnecting() do nothing when STATUS, the variable, is
\* already that; a pair is <<the variable, the file>>.
Become(pair, status) == IF pair[1] = status THEN pair ELSE <<status, status>>

\* Seeded fault: a score below Up is not reset.
AfterFailure_unclamped(t, f) ==
    IF t.score - 1 = Up
    THEN [status |-> "offline", file |-> "offline", score |-> 0, report |-> "disconnected"]
    ELSE [status |-> t.status, file |-> f, score |-> t.score - 1, report |-> "none"]

\* Seeded fault: "-le" for "-lt", the score is reset before it can equal Up.
AfterFailure_early(t, f) ==
    [status |-> t.status, file |-> f, report |-> "none",
     score |-> IF t.score <= Up + 1 THEN 0 ELSE t.score - 1]

\* Lines 340-375: what a round makes of the score, and whom it reports to.
AfterFailure(t, f) ==
    LET s == t.score - 1
        p == Become(<<t.status, f>>, "disconnecting") IN
    CASE t.score <= Up -> [status |-> t.status, file |-> f, score |-> 0, report |-> "none"]
      [] s = Up        -> [status |-> "offline", file |-> "offline", score |-> 0,
                           report |-> "disconnected"]
      [] OTHER         -> [status |-> p[1], file |-> p[2], score |-> s, report |-> "none"]

\* Seeded fault: a success above Up does not fill the score up again.
AfterSuccess_unfilled(t, f, lost) ==
    LET s == IF t.score < Top THEN t.score + 1 ELSE Top IN
    IF s = Up
    THEN [status |-> "online", file |-> "online", score |-> Up, report |-> "connected"]
    ELSE [status |-> t.status, file |-> f, score |-> s, report |-> "none"]

\* Seeded fault: "-ge" for "-gt", a link that reaches Up is not reported.
AfterSuccess_silent(t, f, lost) ==
    IF t.score + 1 >= Up
    THEN [status |-> t.status, file |-> "online", score |-> Top, report |-> "none"]
    ELSE [status |-> "connecting", file |-> "connecting", score |-> t.score + 1,
          report |-> "none"]

AfterSuccess(t, f, lost) ==
    LET s == t.score + 1
        p == IF t.score < Top /\ lost THEN Become(<<t.status, f>>, "connecting")
                                      ELSE <<t.status, f>>
        q == Become(p, "connecting") IN
    CASE s > Up -> [status |-> p[1], file |-> "online", score |-> Top, report |-> "none"]
      [] s = Up -> [status |-> "online", file |-> "online", score |-> Up, report |-> "connected"]
      [] OTHER  -> [status |-> q[1], file |-> q[2], score |-> s, report |-> "none"]

Bump(n, bound) == IF n < bound THEN n + 1 ELSE n

Round(i) ==
    LET t    == trk[i]
        r    == Answers(i)
        ok   == Succeeded(r)
        lost == t.lost \/ LostOne(r)
        a    == IF ok THEN AfterSuccess(t, file[i], lost) ELSE AfterFailure(t, file[i]) IN
    /\ At(i, "test")
    /\ Show(i, a.file)
    /\ trk' = [trk EXCEPT ![i] =
         [t EXCEPT !.status = a.status, !.score = a.score, !.cut = {},
                   !.lost = ~ok /\ lost,
                   !.pc = IF a.report = "none" THEN "rest" ELSE "call",
                   !.ret = IF a.report = "none" THEN @ ELSE "rest",
                   !.report = IF a.report = "none" THEN @ ELSE a.report]]
    /\ fails' = [fails EXCEPT ![i] = IF ok THEN 0 ELSE Bump(@, Down)]
    /\ succs' = [succs EXCEPT ![i] = IF ok THEN Bump(@, Up) ELSE 0]
    /\ UNCHANGED <<netVars, procdVars, wanState, trackDir, serviceVars, last, merged>>

\* The pause between two rounds, or none when an event waits.
Rest(i) ==
    /\ At(i, "rest")
    /\ trk' = [trk EXCEPT ![i].pc = "ifdown"]
    /\ UNCHANGED <<netVars, procdVars, trackFiles, serviceVars, historyVars>>

\* Seeded fault: "disabled" without "disconnected".
IfdownEvent_bug(i) ==
    /\ At(i, "ifdown")
    /\ IF trk[i].downEv
       THEN /\ trk' = [trk EXCEPT ![i] =
                 [@ EXCEPT !.status = "disabled", !.started = FALSE, !.score = 0,
                           !.pc = "downDone"]]
            /\ Show(i, "disabled")
       ELSE /\ trk' = [trk EXCEPT ![i].pc = "ifup"]
            /\ UNCHANGED file
    /\ UNCHANGED <<netVars, procdVars, wanState, trackDir, serviceVars, historyVars>>

\* IFDOWN_EVENT: "disabled", then "disconnected".
IfdownEvent(i) ==
    /\ At(i, "ifdown")
    /\ IF trk[i].downEv
       THEN /\ trk' = [trk EXCEPT ![i] =
                 [@ EXCEPT !.status = "offline", !.started = FALSE, !.score = 0,
                           !.pc = "call", !.ret = "downDone", !.report = "disconnected"]]
            /\ Show(i, "offline")
       ELSE /\ trk' = [trk EXCEPT ![i].pc = "ifup"]
            /\ UNCHANGED file
    /\ UNCHANGED <<netVars, procdVars, wanState, trackDir, serviceVars, historyVars>>

\* IFDOWN_EVENT=0 and IFUP_EVENT=0, whatever was trapped meanwhile.
ClearEvent(i) ==
    /\ \/ /\ At(i, "downDone")
          /\ trk' = [trk EXCEPT ![i].downEv = FALSE, ![i].pc = "ifup"]
       \/ /\ At(i, "upDone")
          /\ trk' = [trk EXCEPT ![i].upEv = FALSE, ![i].pc = "check"]
    /\ UNCHANGED <<netVars, procdVars, trackFiles, serviceVars, historyVars>>

\* No IFUP_EVENT (FirstConnect serves one).
NoIfupEvent(i) ==
    /\ At(i, "ifup")
    /\ ~trk[i].upEv
    /\ trk' = [trk EXCEPT ![i].pc = "check"]
    /\ UNCHANGED <<netVars, procdVars, trackFiles, serviceVars, historyVars>>

\* /sbin/hotplug-call iface, once the lock is free.  FIRSTCONNECT=1 ends the
\* handler at once.
Call(i) ==
    /\ trk[i].pc = "call"
    /\ IF trk[i].report = "first"
       THEN UNCHANGED <<serviceVars, wanState>>
       ELSE HandleReport(i, trk[i].report)
    /\ trk' = [trk EXCEPT ![i] = Return(@)]
    /\ UNCHANGED <<netVars, procdVars, file, trackDir, historyVars>>

\* The traps run between two commands and end a wait, lower numbers first.
\* They kill the sleep or the test that is being waited for.
Trap(i) ==
    LET t == trk[i] IN
    /\ t.pc \notin {"none", "exec", "call"}
    /\ \/ /\ "TERM" \in t.sig
          /\ trk' = [trk EXCEPT ![i].pc = "none", ![i].sig = {}]
       \/ /\ "TERM" \notin t.sig /\ t.sig # {}
          /\ LET s == IF "USR1" \in t.sig THEN "USR1" ELSE "USR2" IN
             \E cut \in {t.cut} \union
                   (IF t.pc = "test" THEN {t.cut \union {h} : h \in Hosts} ELSE {}) :
                trk' = [trk EXCEPT ![i] =
                  [t EXCEPT !.sig = @ \ {s},
                            !.cut = cut,
                            !.pc = IF @ = "nap" THEN "test" ELSE @,
                            !.downEv = (s = "USR1"),
                            !.upEv = @ \/ s = "USR2",
                            !.started = @ \/ s = "USR2"]]
    /\ UNCHANGED <<netVars, procdVars, trackFiles, serviceVars, historyVars>>

-----------------------------------------------------------------------------

Init ==
    /\ up \in [Ifaces -> BOOLEAN]
    /\ pend = [i \in Ifaces |-> FALSE]
    /\ cur = [i \in Ifaces |-> "idle"]
    /\ reach \in [Ifaces -> [Hosts -> Results]]
    /\ want = [i \in Ifaces |-> FALSE]
    /\ trk = [i \in Ifaces |-> NewTracker]
    /\ file = [i \in Ifaces |-> ""]
    /\ wanState = [i \in Ifaces |-> ""]
    /\ trackDir = [i \in Ifaces |-> FALSE]
    /\ statusDir = FALSE
    /\ hook = FALSE
    /\ ifaceState = [i \in Ifaces |-> "offline"]
    /\ rules = {}
    /\ routed = {}
    /\ orphan = [i \in Ifaces |-> {}]
    /\ spent = 0
    /\ fails = [i \in Ifaces |-> 0]
    /\ succs = [i \in Ifaces |-> 0]
    /\ last = [i \in Ifaces |-> "ifdown"]
    /\ merged = {}

TrackerStep(i) ==
    \/ Boot(i) \/ FirstConnect(i) \/ FirstResult(i) \/ Check(i) \/ Fork(i)
    \/ Round(i) \/ Rest(i) \/ IfdownEvent(i) \/ ClearEvent(i)
    \/ NoIfupEvent(i) \/ Call(i) \/ Trap(i)

HandlerStep(i) == StartEvent(i) \/ RunEvent(i) \/ OrphanCall(i)

EnvironmentStep(i) == Flip(i) \/ Command(i) \/ ChangeReach(i) \/ Kill(i)

Next ==
    \/ Start \/ Stop
    \/ \E i \in Ifaces :
         TrackerStep(i) \/ HandlerStep(i) \/ Launch(i) \/ EnvironmentStep(i)

Spec == Init /\ [][Next]_vars

\* The scheduler runs every process that can run, netifd and flock serve
\* everyone, procd respawns; the answers of the hosts, the interfaces, the
\* commands and the service script are owed by nobody.
Fairness ==
    /\ \A i \in Ifaces :
         /\ WF_vars(TrackerStep(i))
         /\ WF_vars(Launch(i))
         /\ WF_vars(StartEvent(i))
         /\ WF_vars(RunEvent(i))
         /\ WF_vars(OrphanCall(i))

FairSpec == Spec /\ Fairness

-----------------------------------------------------------------------------
(* Properties                                                              *)

Calling(i, report) == trk[i].pc = "call" /\ trk[i].report = report

Reporting(i, report) == Calling(i, report) /\ trk[i].ret = "rest"

\* What a round reports has been seen often enough (the rounds whose tests a
\* trap killed count as failed): "disconnected" after Down failed rounds in a
\* row, "connected" after Up successful ones.
ThresholdsRespected ==
    \A i \in Ifaces :
        /\ Reporting(i, "disconnected") => fails[i] = Down
        /\ Reporting(i, "connected") => succs[i] = Up

\* The policies route over the interfaces that are online, and over no other;
\* the exception is an ifup that says "offline", which rebuilds nothing.
PoliciesCurrent ==
    /\ Online(ifaceState) \subseteq routed
    /\ \A i \in routed : ifaceState[i] = "offline" =>
          InitialState = "offline" /\ last[i] = "ifup"

\* The handler ignores a report that repeats STATE.  A failure that a round
\* finds is always news; a success that is none finds the interface online
\* already, or taken down by an ifdown since.
IgnoredReportsChangeNothing ==
    \A i \in Ifaces :
        /\ Reporting(i, "disconnected") => wanState[i] # "disconnected"
        /\ Reporting(i, "connected") /\ wanState[i] = "connected" =>
              ifaceState[i] = "online" \/ last[i] = "ifdown"

\* A report that waited for the lock can make an interface online after its
\* ifdown has removed its rules.  Then the tracker still has that ifdown to
\* serve, unless netifd is about to tell more, or the order of two signals
\* that waited together was lost.
StaleOnline ==
    \A i \in Ifaces : hook /\ i \in routed \ rules =>
        \/ "USR1" \in trk[i].sig \/ trk[i].downEv \/ Calling(i, "disconnected")
        \/ pend[i] \/ cur[i] # "idle"
        \/ i \in merged

Answering(i) ==
    up[i] /\ Cardinality({h \in Hosts : reach[i][h] = "up"}) >= Reliability

\* An interface that came up and whose hosts answer is online in the end.
Recovers ==
    \A i \in Ifaces :
        <>[](hook /\ last[i] = "ifup" /\ Answering(i)) => <>[](ifaceState[i] = "online")

\* An interface that went down is offline in the end.
DownLeaves ==
    \A i \in Ifaces :
        <>[](hook /\ last[i] = "ifdown" /\ i \notin merged) => <>[](ifaceState[i] = "offline")

\* A link that was fine (a score above Up) and stops answering is offline in
\* the end, unless it answers again or an event of the interface intervenes.
Interrupted(i) ==
    \/ ~hook \/ ~up[i] \/ pend[i] \/ cur[i] # "idle"
    \/ trk[i].sig # {} \/ trk[i].upEv \/ trk[i].downEv

EstablishedFailsOver ==
    \A i \in Ifaces :
        trk[i].started /\ trk[i].score > Up /\ trk[i].pc = "test"
            ~> ifaceState[i] = "offline" \/ Answering(i) \/ Interrupted(i)

\* A link that stops answering for good is offline in the end.
FailsOver ==
    \A i \in Ifaces :
        <>[](hook /\ up[i] /\ ~Answering(i)) => <>[](ifaceState[i] = "offline")
============================================================================
