-------------------------- MODULE PingRebootProofs --------------------------
(***************************************************************************)
(* PingReboot for any sections, any limit of tries and any number of power *)
(* cuts and stops: the watchdog acts only when it should, and what it says *)
(* of a download is true unless the shared file explains it.               *)
(***************************************************************************)
EXTENDS PingReboot, TLAPS

----------------------------------------------------------------------------
(* The inductive invariant.                                                *)

\* The tries that are counted were all failures of the host.
Covered(s) ==
    s \in excused \/ fails[s] = RETRIES \/ current_try[s] <= fails[s]

\* The counter of a section against the failures of its host, at each place.
CountInv(s) ==
    /\ pc[s] \in {"idle", "failed", "rm"} => Covered(s)
    /\ pc[s] = "test" =>
         s \in excused \/ fails[s] = RETRIES \/ current_try[s] <= fails[s] + 1
    /\ pc[s] = "look" => s \in answered \/ Covered(s)
    /\ pc[s] \in {"test", "look", "failed"} => try[s] = current_try[s]
    /\ pc[s] = "act" =>
         current_try[s] = 0 /\ (s \in excused \/ fails[s] = RETRIES)

\* The file against the answer of the host, for a run that looks at it.
FileInv(s) ==
    /\ pc[s] \in {"idle", "test"} => s \notin fetched /\ s \notin answered
    /\ pc[s] = "look" =>
         /\ s \in fetched
         /\ s \in answered /\ file \notin {"full", "left"} => s \in foul
         /\ s \notin answered /\ file \in {"full", "left"} => s \in foul
    /\ pc[s] = "ok" => s \in answered \union foul
    /\ pc[s] = "failed" /\ s \in answered => s \in foul

Inv ==
    /\ TypeOK
    /\ file = "full" => fetched # {}
    /\ \A s \in Sections : CountInv(s) /\ FileInv(s)

----------------------------------------------------------------------------

LEMMA InvInit == Init => Inv
<1> SUFFICES ASSUME Init PROVE Inv
  OBVIOUS
<1>1. TypeOK
  BY SectionsAssumption DEF Init, TypeOK, MaxTry, Places, Files
<1>2. ASSUME NEW s \in Sections PROVE CountInv(s) /\ FileInv(s)
  BY SectionsAssumption DEF Init, CountInv, FileInv, Covered
<1>3. file # "full"
  BY DEF Init
<1> QED BY <1>1, <1>2, <1>3 DEF Inv

LEMMA InvLoad == ASSUME Inv, NEW s \in Sections, Load(s) PROVE Inv'
<1> USE SectionsAssumption DEF Inv
<1>1. TypeOK'
  BY DEF Load, Store, Goto, Bump, TypeOK, MaxTry, Places, run, world, config
<1>2. ASSUME NEW w \in Sections PROVE CountInv(w)'
  BY <1>1 DEF Load, Store, Goto, Bump, TypeOK, MaxTry, CountInv, FileInv, Covered
<1>3. ASSUME NEW w \in Sections PROVE FileInv(w)'
  BY DEF Load, Store, Goto, TypeOK, FileInv
<1>4. (file = "full" => fetched # {})'
  BY DEF Load
<1> QED BY <1>1, <1>2, <1>3, <1>4 DEF Inv

LEMMA InvPing == ASSUME Inv, NEW s \in Sections, Ping(s) PROVE Inv'
<1> USE SectionsAssumption DEF Inv
<1>1. TypeOK'
  BY DEF Ping, Answers, Goto, TypeOK, Places, world, config
<1>2. ASSUME NEW w \in Sections PROVE CountInv(w)'
  BY DEF Ping, Answers, Goto, TypeOK, CountInv, FileInv, Covered
<1>3. ASSUME NEW w \in Sections PROVE FileInv(w)'
  BY DEF Ping, Answers, Goto, TypeOK, FileInv
<1>4. (file = "full" => fetched # {})'
  BY DEF Ping
<1> QED BY <1>1, <1>2, <1>3, <1>4 DEF Inv

LEMMA InvUnreachable == ASSUME Inv, NEW s \in Sections, Unreachable(s) PROVE Inv'
<1> USE SectionsAssumption DEF Inv
<1>1. TypeOK'
  BY DEF Unreachable, Silent, Goto, TypeOK, Places, world, config
<1>2. ASSUME NEW w \in Sections PROVE CountInv(w)'
  BY DEF Unreachable, Silent, Goto, TypeOK, MaxTry, CountInv, FileInv, Covered
<1>3. ASSUME NEW w \in Sections PROVE FileInv(w)'
  BY DEF Unreachable, Silent, Goto, TypeOK, FileInv
<1>4. (file = "full" => fetched # {})'
  BY DEF Unreachable
<1> QED BY <1>1, <1>2, <1>3, <1>4 DEF Inv

LEMMA InvFetch == ASSUME Inv, NEW s \in Sections, Fetch(s) PROVE Inv'
<1> USE SectionsAssumption DEF Inv
<1>0. \A w \in At("look") : w \in wget
  BY DEF At, TypeOK, FileInv
<1>1. TypeOK'
  BY <1>0 DEF Fetch, Answers, Silent, Goto, TypeOK, Places, Files, world, config
<1>2. ASSUME NEW w \in Sections PROVE CountInv(w)'
  BY DEF Fetch, Answers, Silent, Goto, TypeOK, MaxTry, CountInv, FileInv, Covered
<1>3. ASSUME NEW w \in Sections PROVE FileInv(w)'
  BY DEF Fetch, Answers, Silent, Goto, TypeOK, Files, FileInv, At
<1>4. (file = "full" => fetched # {})'
  BY DEF Fetch
<1> QED BY <1>1, <1>2, <1>3, <1>4 DEF Inv

LEMMA InvLook == ASSUME Inv, NEW s \in Sections, Look(s) PROVE Inv'
<1> USE SectionsAssumption DEF Inv
<1>1. TypeOK'
  BY DEF Look, Goto, TypeOK, Places, run, world, config
<1>2. ASSUME NEW w \in Sections PROVE CountInv(w)'
  BY DEF Look, Goto, TypeOK, CountInv, FileInv, Covered, run
<1>3. ASSUME NEW w \in Sections PROVE FileInv(w)'
  BY DEF Look, Goto, TypeOK, FileInv, run
<1>4. (file = "full" => fetched # {})'
  BY DEF Look, run
<1> QED BY <1>1, <1>2, <1>3, <1>4 DEF Inv

----------------------------------------------------------------------------
(* Steps that may end the run.                                             *)

\* Finish leaves the other sections alone, and takes this one to a place where
\* the counter must be covered.
LEMMA FinishRun ==
  ASSUME TypeOK, NEW s \in Sections, Finish(s)
  PROVE  /\ pc' \in [Sections -> Places] /\ pc'[s] \in {"idle", "rm"}
         /\ try' \in [Sections -> 0..MaxTry]
         /\ fetched' = fetched
         /\ answered' \subseteq answered /\ foul' \subseteq foul
         /\ pc'[s] = "idle" => s \notin fetched' /\ s \notin answered'
         /\ \A w \in Sections \ {s} :
              /\ pc'[w] = pc[w] /\ try'[w] = try[w]
              /\ (w \in answered' <=> w \in answered) /\ (w \in foul' <=> w \in foul)
<1>1. CASE s \in fetched /\ Goto(s, "rm") /\ UNCHANGED run
  BY <1>1 DEF TypeOK, Goto, run, Places
<1>2. CASE s \notin fetched /\ Ended({s}) /\ foul' = foul \ {s}
  BY <1>2, SectionsAssumption DEF TypeOK, Ended, Places, MaxTry
<1> QED BY <1>1, <1>2 DEF Finish

\* What a step must show besides Finish.
LEMMA FinishInv ==
  ASSUME Inv, NEW s \in Sections, Finish(s),
         file' = file, UNCHANGED world,
         current_try' \in [Sections -> 0..MaxTry],
         fails' \in [Sections -> 0..RETRIES],
         excused' \subseteq Sections,
         Covered(s)',
         \A w \in Sections \ {s} :
            /\ current_try'[w] = current_try[w] /\ fails'[w] = fails[w]
            /\ w \in excused' <=> w \in excused
  PROVE  Inv'
<1> USE FinishRun
<1>1. TypeOK'
  BY DEF Inv, TypeOK, world, config
<1>2. ASSUME NEW w \in Sections PROVE CountInv(w)'
  BY DEF Inv, CountInv, Covered
<1>3. ASSUME NEW w \in Sections PROVE FileInv(w)'
  BY DEF Inv, FileInv
<1>4. (file = "full" => fetched # {})'
  BY DEF Inv
<1> QED BY <1>1, <1>2, <1>3, <1>4 DEF Inv

LEMMA InvSucceed == ASSUME Inv, NEW s \in Sections, Succeed(s) PROVE Inv'
<1> USE SectionsAssumption
<1>1. /\ current_try' \in [Sections -> 0..MaxTry] /\ current_try'[s] = 0
      /\ \A w \in Sections \ {s} : current_try'[w] = current_try[w]
  BY DEF Inv, TypeOK, Succeed, Store, MaxTry
<1>2. excused' \subseteq Sections /\ fails' = fails /\ file' = file /\ UNCHANGED world
  BY DEF Inv, TypeOK, Succeed
<1>3. Covered(s)'
  BY <1>1, <1>2 DEF Covered, Inv, TypeOK
<1>4. \A w \in Sections \ {s} : w \in excused' <=> w \in excused
  BY DEF Succeed
<1>5. Finish(s) /\ fails' \in [Sections -> 0..RETRIES]
  BY <1>2 DEF Succeed, Inv, TypeOK
<1> QED BY <1>1, <1>2, <1>3, <1>4, <1>5, FinishInv

LEMMA InvCheckTries == ASSUME Inv, NEW s \in Sections, CheckTries(s) PROVE Inv'
<1> USE SectionsAssumption
<1>1. CASE /\ try[s] >= RETRIES
           /\ Store(s, 0) /\ Goto(s, "act") /\ UNCHANGED run
  <2>1. TypeOK'
    BY <1>1 DEF Inv, CheckTries, Store, Goto, TypeOK, Places, MaxTry, run, world, config
  <2>2. s \in excused \/ fails[s] = RETRIES
    BY <1>1 DEF Inv, CheckTries, TypeOK, CountInv, Covered, MaxTry
  <2>3. ASSUME NEW w \in Sections PROVE CountInv(w)'
    BY <1>1, <2>2 DEF Inv, CheckTries, Store, Goto, TypeOK, CountInv, Covered, run
  <2>4. ASSUME NEW w \in Sections PROVE FileInv(w)'
    BY <1>1 DEF Inv, CheckTries, Goto, TypeOK, FileInv, run
  <2>5. (file = "full" => fetched # {})'
    BY <1>1 DEF Inv, CheckTries, run
  <2> QED BY <2>1, <2>3, <2>4, <2>5 DEF Inv
<1>2. CASE Finish(s) /\ UNCHANGED current_try
  <2>1. UNCHANGED <<current_try, file, fails, excused>> /\ UNCHANGED world
    BY <1>2 DEF CheckTries
  <2>2. Covered(s)'
    BY <2>1 DEF Inv, CheckTries, CountInv, Covered
  <2>3. /\ current_try' \in [Sections -> 0..MaxTry] /\ fails' \in [Sections -> 0..RETRIES]
        /\ excused' \subseteq Sections
    BY <2>1 DEF Inv, TypeOK
  <2> QED BY <1>2, <2>1, <2>2, <2>3, FinishInv
<1> QED BY <1>1, <1>2 DEF CheckTries

LEMMA InvAct == ASSUME Inv, NEW s \in Sections, Act(s) PROVE Inv'
<1> USE SectionsAssumption
<1>1. UNCHANGED <<current_try, file>> /\ UNCHANGED world /\ current_try[s] = 0
  BY DEF Act, Inv, CountInv
<1>2. /\ fails' \in [Sections -> 0..RETRIES] /\ excused' \subseteq Sections
      /\ fails'[s] = 0
      /\ \A w \in Sections \ {s} : fails'[w] = fails[w] /\ (w \in excused' <=> w \in excused)
  BY DEF Act, Inv, TypeOK
<1>3. Covered(s)'
  BY <1>1, <1>2 DEF Covered
<1>4. Finish(s) /\ current_try' \in [Sections -> 0..MaxTry]
  BY <1>1 DEF Act, Inv, TypeOK
<1> QED BY <1>1, <1>2, <1>3, <1>4, FinishInv

LEMMA InvSendSmsFails == ASSUME Inv, NEW s \in Sections, SendSmsFails(s) PROVE Inv'
<1> USE SectionsAssumption
<1>1. UNCHANGED <<file, fails, excused>> /\ UNCHANGED world /\ Finish(s)
  BY DEF SendSmsFails
<1>2. /\ current_try' \in [Sections -> 0..MaxTry]
      /\ \A w \in Sections \ {s} : current_try'[w] = current_try[w]
  BY DEF SendSmsFails, Store, Inv, TypeOK
<1>3. Covered(s)'
  BY <1>1 DEF SendSmsFails, Inv, CountInv, Covered
<1>4. fails' \in [Sections -> 0..RETRIES] /\ excused' \subseteq Sections
  BY <1>1 DEF Inv, TypeOK
<1> QED BY <1>1, <1>2, <1>3, <1>4, FinishInv

LEMMA InvRemove == ASSUME Inv, NEW s \in Sections, Remove(s) PROVE Inv'
<1> USE SectionsAssumption DEF Inv
<1>0. \A w \in At("look") : w \in wget
  BY DEF At, TypeOK, FileInv
<1>1. TypeOK'
  BY <1>0 DEF Remove, Ended, TypeOK, Places, Files, MaxTry, world, config
<1>2. ASSUME NEW w \in Sections PROVE CountInv(w)'
  BY DEF Remove, Ended, TypeOK, CountInv, Covered
<1>3. ASSUME NEW w \in Sections PROVE FileInv(w)'
  BY DEF Remove, Ended, TypeOK, FileInv, At
<1>4. (file = "full" => fetched # {})'
  BY DEF Remove
<1> QED BY <1>1, <1>2, <1>3, <1>4 DEF Inv

----------------------------------------------------------------------------
(* Steps that end all runs.                                                *)

LEMMA AllEnded ==
  ASSUME Inv, NEW S, Running \subseteq S, Ended(S), foul' = {},
         file' \in Files \ {"full"}, current_try' = current_try,
         config' = config, crontab' \in BOOLEAN, disturbances' \in 0..MaxDisturbances,
         fails' \in [Sections -> 0..RETRIES], excused' \subseteq Sections,
         \A w \in Sections : Covered(w)'
  PROVE  Inv'
<1>1. \A w \in Sections : pc'[w] = "idle"
  BY DEF Ended, Running
<1>2. \A w \in Sections : w \notin fetched' /\ w \notin answered'
  BY DEF Inv, TypeOK, FileInv, Ended, Running
<1>3. TypeOK'
  BY SectionsAssumption DEF Inv, TypeOK, Ended, Places, MaxTry, config
<1>4. ASSUME NEW w \in Sections PROVE CountInv(w)' /\ FileInv(w)'
  BY <1>1, <1>2 DEF CountInv, FileInv
<1> QED BY <1>3, <1>4 DEF Inv

\* Whoever is cut off before its result is stored is excused.
LEMMA CutOff ==
  ASSUME Inv, NEW w \in Sections, current_try' = current_try, fails'[w] = fails[w],
         w \in excused \union Unsettled => w \in excused'
  PROVE  Covered(w)'
BY SectionsAssumption DEF Inv, TypeOK, CountInv, Covered, Unsettled, Places

LEMMA InvReboot == ASSUME Inv, NEW s \in Sections, Reboot(s) PROVE Inv'
<1>1. Ended(Sections) /\ foul' = {} /\ file' = "none" /\ UNCHANGED <<current_try, world>>
  BY DEF Reboot, Restarted
<1>2. fails' \in [Sections -> 0..RETRIES] /\ excused' \subseteq Sections /\ fails'[s] = 0
  BY SectionsAssumption DEF Reboot, Inv, TypeOK, Unsettled
<1>3. Covered(s)'
  BY <1>1, <1>2, SectionsAssumption DEF Reboot, Inv, TypeOK, CountInv, Covered
<1>4. ASSUME NEW w \in Sections, w # s PROVE Covered(w)'
  BY <1>1, <1>4, CutOff DEF Reboot, Inv, TypeOK
<1>5. \A w \in Sections : Covered(w)'
  BY <1>3, <1>4
<1>6. /\ config' = config /\ crontab' \in BOOLEAN /\ disturbances' \in 0..MaxDisturbances
      /\ Running \subseteq Sections /\ file' \in Files \ {"full"}
  BY <1>1 DEF Inv, TypeOK, world, Running, Files
<1> QED BY <1>1, <1>2, <1>5, <1>6, AllEnded

LEMMA InvPowerCut == ASSUME Inv, PowerCut PROVE Inv'
<1>1. Ended(Sections) /\ foul' = {} /\ file' = "none"
      /\ UNCHANGED <<config, current_try, crontab, fails>>
  BY DEF PowerCut, Restarted
<1>2. fails' \in [Sections -> 0..RETRIES] /\ excused' \subseteq Sections
  BY <1>1 DEF PowerCut, Inv, TypeOK, Unsettled
<1>3. ASSUME NEW w \in Sections PROVE Covered(w)'
  BY <1>1, CutOff DEF PowerCut
<1>4. /\ crontab' \in BOOLEAN /\ disturbances' \in 0..MaxDisturbances
      /\ Running \subseteq Sections /\ file' \in Files \ {"full"}
  BY <1>1, SectionsAssumption DEF PowerCut, Inv, TypeOK, Running, Files
<1> QED BY <1>1, <1>2, <1>3, <1>4, AllEnded

LEMMA InvStop == ASSUME Inv, Stop PROVE Inv'
<1>0. UNCHANGED <<config, current_try, fails>> /\ crontab' = FALSE
  BY Zenon DEF Stop
<1>a. disturbances < MaxDisturbances /\ disturbances' = disturbances + 1
  BY Zenon DEF Stop
<1>b. disturbances \in 0..MaxDisturbances
  BY DEF Inv, TypeOK
<1>c. disturbances' \in 0..MaxDisturbances
  BY <1>a, <1>b, SectionsAssumption
<1>1. /\ UNCHANGED <<config, current_try, fails>> /\ crontab' \in BOOLEAN
      /\ disturbances' \in 0..MaxDisturbances
  BY <1>0, <1>c
<1>2. CASE /\ Ended(Running) /\ foul' = {}
           /\ file' = IF file = "full" THEN "left" ELSE file
           /\ excused' = excused \union Unsettled
  <2>1. fails' \in [Sections -> 0..RETRIES] /\ excused' \subseteq Sections
        /\ file' \in Files \ {"full"}
    BY <1>1, <1>2 DEF Inv, TypeOK, Unsettled, Files
  <2>2. ASSUME NEW w \in Sections PROVE Covered(w)'
    BY <1>1, <1>2, CutOff
  <2> QED BY <1>1, <1>2, <2>1, <2>2, AllEnded
<1>3. CASE UNCHANGED <<pc, run, file, excused>>
  <2>1. TypeOK'
    BY <1>1, <1>3 DEF Inv, TypeOK, run, config
  <2>2. ASSUME NEW w \in Sections PROVE CountInv(w)' /\ FileInv(w)'
    BY <1>1, <1>3 DEF Inv, CountInv, FileInv, Covered, run
  <2>3. (file = "full" => fetched # {})'
    BY <1>3 DEF Inv, run
  <2> QED BY <2>1, <2>2, <2>3 DEF Inv
<1> QED BY <1>2, <1>3 DEF Stop

LEMMA InvStart == ASSUME Inv, Start PROVE Inv'
<1>1. TypeOK'
  BY DEF Start, Inv, TypeOK, run, config
<1>2. ASSUME NEW w \in Sections PROVE CountInv(w)' /\ FileInv(w)'
  BY DEF Start, Inv, CountInv, FileInv, Covered, run
<1>3. (file = "full" => fetched # {})'
  BY DEF Start, Inv, run
<1> QED BY <1>1, <1>2, <1>3 DEF Inv

LEMMA InvStutter == ASSUME Inv, UNCHANGED vars PROVE Inv'
<1>1. TypeOK'
  BY DEF vars, Inv, TypeOK, run, world, config
<1>2. ASSUME NEW w \in Sections PROVE CountInv(w)' /\ FileInv(w)'
  BY DEF vars, Inv, CountInv, FileInv, Covered, run, world
<1>3. (file = "full" => fetched # {})'
  BY DEF vars, Inv, run
<1> QED BY <1>1, <1>2, <1>3 DEF Inv

LEMMA InvNext == ASSUME Inv, [Next]_vars PROVE Inv'
<1>1. ASSUME NEW s \in Sections, Load(s) \/ Script(s) PROVE Inv'
  BY <1>1, InvLoad, InvPing, InvUnreachable, InvFetch, InvLook, InvSucceed,
     InvCheckTries, InvReboot, InvAct, InvSendSmsFails, InvRemove DEF Script
<1> QED BY <1>1, InvStop, InvStart, InvPowerCut, InvStutter DEF Next

LEMMA InvAlways == Spec => []Inv
BY InvInit, InvNext, PTL DEF Spec

----------------------------------------------------------------------------
(* The theorems.                                                           *)

\* Every variable of the script, of UCI and of the service keeps its type.
THEOREM WatchdogTypeCorrect == Spec => []TypeOK
<1>1. Inv => TypeOK
  BY DEF Inv
<1> QED BY <1>1, InvAlways, PTL

\* exec_action is reached only after RETRIES failures of the host, or when a
\* counted try had no result.
THEOREM WatchdogActsRightly == Spec => []ActionEarned
<1>1. Inv => ActionEarned
  BY DEF Inv, CountInv, ActionEarned
<1> QED BY <1>1, InvAlways, PTL

\* What perform_ping and perform_wget take for the result of the test is the
\* answer of the host, but for the shared file.
THEOREM WatchdogResults == Spec => []ResultsTrue
<1>1. Inv => ResultsTrue
  BY DEF Inv, FileInv, ResultsTrue
<1> QED BY <1>1, InvAlways, PTL
=============================================================================
