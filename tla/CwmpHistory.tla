---------------------------- MODULE CwmpHistory ----------------------------
(***************************************************************************)
(* EasyCwmp with three history variables, which tell where the ids of      *)
(* transfers that outlive a process confuse the event list of the next.    *)
(* No guard reads them: HistorySpec allows the behaviours of Spec.         *)
(***************************************************************************)
EXTENDS EasyCwmp

VARIABLES
  inherited,  \* keys of the TransferCompletes that this process found on file
  behind,     \* nodes it loaded from behind a node with a method_id
  shared      \* keys of reports that were pending when the answer to another
              \* report with their method_id was taken out of the file

IsM(e) == e.code \in {"M_DOWNLOAD", "M_UPLOAD"}

\* An event that backup_load_event gave the method_id of another node.
Stray(e) == e.mid # 0 /\ e.node \in behind

\* The nodes that backup_load_event is going to reach with its local method_id
\* set by a node in front of them (backup.c:676).
BehindId ==
  {backup.evs[j] : j \in {i \in 1..Len(backup.evs) :
                            \E l \in 1..(i - 1) : backup.evs[l].mid # 0}}

\* method_id counts from 0 in every process (cwmp.c:462) while the ids of
\* earlier processes live on in the file.  The removal that follows the answer
\* to the report tc takes the M events of all pending reports with the id of
\* tc, and "7 TRANSFER COMPLETE" if that is a stray with this id.
SharesId(tc) ==
  {backup'.tcs[i].key :
     i \in {j \in 1..Len(backup'.tcs) :
              \/ /\ backup'.tcs[j].mid = tc.mid
                 /\ {tc.key, backup'.tcs[j].key} \cap inherited # {}
              \/ \E l \in 1..Len(events) : /\ events[l].code = "TRANSFER_COMPLETE"
                                           /\ events[l].mid = tc.mid
                                           /\ Stray(events[l])}}

Loaded(old, new) == IF pc = "down" /\ pc' = "load_event" THEN new
                    ELSE IF pc' = "down" THEN {} ELSE old
Records ==
  /\ inherited' = Loaded(inherited, TcKeys)
  /\ behind' = Loaded(behind, BehindId)
  /\ shared' = IF pc = "tc_remove" /\ pc' = "rm_mid"
               THEN shared \cup SharesId(Head(backup.tcs)) ELSE shared

HistoryVars == <<vars, inherited, behind, shared>>
HistorySpec ==
  /\ Init /\ inherited = {} /\ behind = {} /\ shared = {}
  /\ [][Next /\ Records]_HistoryVars

\* Every Inform names the completed transfers that the session is going to
\* report, restarts included: "7 TRANSFER COMPLETE" and the M event with the
\* command key.  Two things lose them: a power cut before cwmp_download_launch
\* has saved them, and the answer to a report of another process that has the
\* same method_id.
AnnouncesTransfers ==
  pc = "inform" =>
    \A k \in TcKeys :
      \/ k \in shared
      \/ <<"x_event", k>> \in cut
      \/ /\ HasCode("TRANSFER_COMPLETE")
         /\ \/ <<"x_m_event", k>> \in cut
            \/ \E i \in 1..Len(events) : IsM(events[i]) /\ events[i].key = k

\* After an InformResponse the only events left whose policy is removal after
\* Inform are those that this process loaded with the method_id of another node.
InformClearsOwnEvents ==
  pc = "loop" =>
    \A i \in 1..Len(events) :
      "AFTER_INFORM" \in remove_policy(events[i].code) =>
        Stray(events[i])
============================================================================
