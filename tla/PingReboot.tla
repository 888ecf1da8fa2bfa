----------------------------- MODULE PingReboot -----------------------------
(***************************************************************************)
(* reboot_utils: the watchdog ping_reboot.  cron runs ping_reboot.sh once  *)
(* for every enabled section of the configuration; each run counts a try   *)
(* in UCI, tests the section's host by ping or by wget and, when the try   *)
(* before it was the last one allowed, acts: reboots, sends a message or   *)
(* restarts the modem or the mobile connection.                            *)
(*                                                                         *)
(* The runs of different sections overlap.  All wget sections download to  *)
(* the one file /tmp/wget_check_file.  A run of a section is taken to end  *)
(* before cron starts the next one of the same section: time is in         *)
(* minutes, time_out in seconds.                                           *)
(***************************************************************************)
EXTENDS Integers, FiniteSets

CONSTANTS
    Sections,         \* enabled sections of /etc/config/ping_reboot
    Rebooting,        \* those with action 1
    Messaging,        \* those with action 6
    RETRIES,          \* option retry
    MaxDisturbances   \* bound on power cuts and stops of the service

ASSUME SectionsAssumption ==
    /\ Rebooting \subseteq Sections
    /\ Messaging \subseteq Sections \ Rebooting
    /\ RETRIES \in Nat
    /\ MaxDisturbances \in Nat

VARIABLES
    wget,             \* sections with type wget; the others ping
    limited,          \* sections with stop_action
    current_try,      \* option current_try of a section, in flash
    pc,               \* where the run of a section is
    try,              \* CURRENT_TRY of that run
    fetched,          \* sections whose run has called wget
    file,             \* FILE; "left" is a full one whose run was killed
    crontab,          \* the service has its lines in the crontab
    disturbances,     \* power cuts and stops so far
    answered,         \* observer: the host answered the test of this run
    foul,             \* observer: the file of this run is not its own
    fails,            \* observer: tests in a row that the host failed
    excused           \* observer: a try was counted whose test had no result

run    == <<try, fetched, answered, foul>>
config == <<wget, limited>>
world  == <<config, crontab, disturbances>>
vars   == <<current_try, pc, file, run, world, fails, excused>>

\* A counter is compared with RETRIES only: all values above are one.
MaxTry == RETRIES + 1
Bump(n) == IF n < MaxTry THEN n + 1 ELSE n

Places == {"idle", "test", "look", "ok", "failed", "act", "rm"}
Files  == {"none", "empty", "full", "left"}

\* Every variable has its type; only wget sections have to do with the file.
TypeOK ==
    /\ wget \subseteq Sections
    /\ limited \subseteq Sections
    /\ current_try \in [Sections -> 0..MaxTry]
    /\ pc \in [Sections -> Places]
    /\ try \in [Sections -> 0..MaxTry]
    /\ fetched \subseteq wget
    /\ file \in Files
    /\ crontab \in BOOLEAN
    /\ disturbances \in 0..MaxDisturbances
    /\ answered \subseteq Sections
    /\ foul \subseteq wget
    /\ fails \in [Sections -> 0..RETRIES]
    /\ excused \subseteq Sections

Running == {s \in Sections : pc[s] # "idle"}

At(place) == {s \in Sections : pc[s] = place}

-----------------------------------------------------------------------------
(* The script                                                              *)

Goto(s, place) == pc' = [pc EXCEPT ![s] = place]

\* set_uci_fail_counter: uci_set and uci_commit.
Store(s, n) == current_try' = [current_try EXCEPT ![s] = n]

\* Processes end, and their variables with them.
Ended(S) ==
    /\ pc' = [s \in Sections |-> IF s \in S THEN "idle" ELSE pc[s]]
    /\ try' = [s \in Sections |-> IF s \in S THEN 0 ELSE try[s]]
    /\ fetched' = fetched \ S
    /\ answered' = answered \ S

\* What follows a test and its consequences: the rm of perform_wget, or the end.
Finish(s) ==
    \/ s \in fetched /\ Goto(s, "rm") /\ UNCHANGED run
    \/ s \notin fetched /\ Ended({s}) /\ foul' = foul \ {s}

\* cron starts the script, which loads its section and counts the try before
\* its test.
Load(s) ==
    /\ crontab
    /\ pc[s] = "idle"
    /\ try' = [try EXCEPT ![s] = Bump(current_try[s])]
    /\ Store(s, Bump(current_try[s]))
    /\ Goto(s, "test")
    /\ UNCHANGED <<fetched, answered, foul, file, world, fails, excused>>

\* The host's part in a test: it answers or not.
Answers(s) ==
    /\ answered' = answered \union {s}
    /\ fails' = [fails EXCEPT ![s] = 0]

Silent(s) ==
    /\ fails' = [fails EXCEPT ![s] = IF @ < RETRIES THEN @ + 1 ELSE @]
    /\ UNCHANGED answered

\* perform_ping
Ping(s) ==
    /\ pc[s] = "test"
    /\ s \notin wget
    /\ Answers(s)
    /\ Goto(s, "ok")
    /\ UNCHANGED <<current_try, try, fetched, foul, file, world, excused>>

\* perform_ping again, or no mobile data connection is active.
Unreachable(s) ==
    /\ pc[s] = "test"
    /\ Silent(s)
    /\ Goto(s, "failed")
    /\ UNCHANGED <<current_try, try, fetched, foul, file, world, excused>>

\* wget -O FILE, under the eyes of the runs that are about to look at it.  A
\* wget that gets no answer may or may not empty the file; if not, it finds
\* what other runs have left there.
Fetch(s) ==
    /\ pc[s] = "test"
    /\ s \in wget
    /\ fetched' = fetched \union {s}
    /\ \/ /\ Answers(s)
          /\ file' = "full"
          /\ foul' = foul \union At("look")
       \/ /\ Silent(s)
          /\ file' = "empty"
          /\ foul' = foul \union At("look")
       \/ /\ Silent(s)
          /\ foul' = IF fetched # {} \/ file = "left" THEN foul \union {s} ELSE foul
          /\ UNCHANGED file
    /\ Goto(s, "look")
    /\ UNCHANGED <<current_try, try, world, excused>>

\* [ -s FILE ]
Look(s) ==
    /\ pc[s] = "look"
    /\ \/ /\ file \in {"full", "left"}
          /\ Goto(s, "ok")
          /\ UNCHANGED excused
       \/ /\ file \notin {"full", "left"}
          /\ Goto(s, "failed")
          /\ excused' = excused \union ({s} \intersect answered)
    /\ UNCHANGED <<current_try, run, file, world, fails>>

\* Seeded fault: a success is logged only.
Succeed_bug(s) ==
    /\ pc[s] = "ok"
    /\ Finish(s)
    /\ UNCHANGED <<current_try, excused, file, world, fails>>

Succeed(s) ==
    /\ pc[s] = "ok"
    /\ Store(s, 0)
    /\ excused' = excused \ {s}
    /\ Finish(s)
    /\ UNCHANGED <<file, world, fails>>

\* Seeded fault: the counter is reset at the limit and the action forgotten.
CheckTries_bug(s) ==
    /\ pc[s] = "failed"
    /\ IF try[s] >= RETRIES THEN Store(s, 0) ELSE UNCHANGED current_try
    /\ Finish(s)
    /\ UNCHANGED <<file, world, fails, excused>>

\* check_tries; over the data limit, if that matters, the try stays counted.
CheckTries(s) ==
    /\ pc[s] = "failed"
    /\ \/ /\ try[s] >= RETRIES
          /\ Store(s, 0)
          /\ Goto(s, "act")
          /\ UNCHANGED run
       \/ /\ try[s] < RETRIES \/ s \in limited
          /\ Finish(s)
          /\ UNCHANGED current_try
    /\ UNCHANGED <<file, world, fails, excused>>

\* The runs that have counted a try and not stored its result.
Unsettled == {s \in Sections : pc[s] \in {"test", "look", "ok"}}

\* The device starts again: counters and crontab survive, /tmp does not.
Restarted ==
    /\ Ended(Sections)
    /\ foul' = {}
    /\ file' = "none"

\* exec_action with reboot.
Reboot(s) ==
    /\ pc[s] = "act"
    /\ s \in Rebooting
    /\ fails' = [fails EXCEPT ![s] = 0]
    /\ excused' = (excused \union Unsettled) \ {s}
    /\ Restarted
    /\ UNCHANGED <<current_try, world>>

\* exec_action with one of the other actions, when it works.
Act(s) ==
    /\ pc[s] = "act"
    /\ s \notin Rebooting
    /\ fails' = [fails EXCEPT ![s] = 0]
    /\ excused' = excused \ {s}
    /\ Finish(s)
    /\ UNCHANGED <<current_try, file, world>>

\* send_sms: a message that gsmctl does not send puts the counter back.
SendSmsFails(s) ==
    /\ pc[s] = "act"
    /\ s \in Messaging
    /\ Store(s, try[s])
    /\ Finish(s)
    /\ UNCHANGED <<file, world, fails, excused>>

\* Seeded fault: the file is left for the next run.
Remove_bug(s) ==
    /\ pc[s] = "rm"
    /\ Ended({s})
    /\ foul' = foul \ {s}
    /\ UNCHANGED <<current_try, file, world, fails, excused>>

\* rm FILE
Remove(s) ==
    /\ pc[s] = "rm"
    /\ file' = "none"
    /\ Ended({s})
    /\ foul' = (foul \union At("look")) \ {s}
    /\ UNCHANGED <<current_try, world, fails, excused>>

-----------------------------------------------------------------------------
(* The service and the device                                              *)

\* stop_service: the crontab is cleared.  pidof names every run, and the kill
\* of the quoted list fails unless there is just one.
Stop ==
    /\ crontab
    /\ disturbances < MaxDisturbances
    /\ disturbances' = disturbances + 1
    /\ crontab' = FALSE
    /\ \/ /\ \E s \in Sections : Running = {s}
          /\ Ended(Running)
          /\ foul' = {}
          /\ file' = IF file = "full" THEN "left" ELSE file
          /\ excused' = excused \union Unsettled
       \/ /\ \A s \in Sections : Running # {s}
          /\ UNCHANGED <<pc, run, file, excused>>
    /\ UNCHANGED <<config, current_try, fails>>

\* start_service; its config_set of current_try is never committed.
Start ==
    /\ ~crontab
    /\ crontab' = TRUE
    /\ UNCHANGED <<config, current_try, pc, run, file, disturbances, fails, excused>>

PowerCut ==
    /\ disturbances < MaxDisturbances
    /\ disturbances' = disturbances + 1
    /\ excused' = excused \union Unsettled
    /\ Restarted
    /\ UNCHANGED <<config, current_try, crontab, fails>>

-----------------------------------------------------------------------------

Init ==
    /\ wget \in SUBSET Sections
    /\ limited \in SUBSET Sections
    /\ current_try = [s \in Sections |-> 0]
    /\ pc = [s \in Sections |-> "idle"]
    /\ try = [s \in Sections |-> 0]
    /\ fetched = {}
    /\ file = "none"
    /\ crontab = TRUE
    /\ disturbances = 0
    /\ answered = {}
    /\ foul = {}
    /\ fails = [s \in Sections |-> 0]
    /\ excused = {}

Script(s) ==
    \/ Ping(s) \/ Unreachable(s) \/ Fetch(s) \/ Look(s)
    \/ Succeed(s) \/ CheckTries(s) \/ Reboot(s) \/ Act(s) \/ SendSmsFails(s)
    \/ Remove(s)

Next ==
    \/ \E s \in Sections : Load(s) \/ Script(s)
    \/ Stop \/ Start \/ PowerCut

Spec == Init /\ [][Next]_vars

\* cron runs every line in its time, and the kernel every process.
FairSpec ==
    /\ Spec
    /\ \A s \in Sections : WF_vars(Load(s)) /\ WF_vars(Script(s))

-----------------------------------------------------------------------------
(* Properties                                                              *)

\* The watchdog acts ("after CURRENT_TRY unsuccessful tries") only when the
\* host has failed RETRIES tests since it last answered or the last action;
\* but a try that was counted and then cut off, or whose file another section
\* removed, counts as well.
ActionEarned ==
    \A s \in Sections : pc[s] = "act" => fails[s] = RETRIES \/ s \in excused

\* "Wget URL successful." and "Can't wget URL." are true, unless another wget
\* section used the file in the meantime or a killed run has left it.  In
\* particular a run that ends leaves nothing for the next one.
ResultsTrue ==
    \A s \in Sections :
        /\ pc[s] = "ok" => s \in answered \union foul
        /\ pc[s] = "failed" /\ s \in answered => s \in foul

\* No answer that could keep the watchdog of a section from acting.
HostSilent(s) ==
    /\ s \notin limited
    /\ s \notin answered
    /\ s \in wget => wget \intersect answered = {}

\* While the host of a section does not answer (and, for wget, that of no wget
\* section does) the watchdog acts again and again, or else reboots for another
\* section for ever, which may cut off every run of this one.
WatchdogActs ==
    \A s \in Sections :
        <>[](crontab /\ HostSilent(s))
          => []<>(\E w \in Rebooting \union {s} : pc[w] = "act")
=============================================================================
