-------------------------- MODULE TransferLedger --------------------------
(***************************************************************************)
(* What easycwmpd promises the ACS about file transfers, without events,   *)
(* sessions, files or restarts.  A transfer that was accepted is executed, *)
(* then reported, each once and in this order.  It may disappear in two    *)
(* ways only: it is dropped together with every other unreported transfer  *)
(* (the backup is discarded), or lost alone while it is being completed (a *)
(* power cut).                                                             *)
(***************************************************************************)
EXTENDS Naturals, FiniteSets

CONSTANTS Keys,     \* transfers
          Kind,     \* downloads and uploads
          Capacity  \* how many of each kind may wait for execution

VARIABLE status

\* A transfer that waits for execution has its kind as status.
Status == Kind \cup {"none", "done", "reported", "lost", "dropped"}
Waiting(kind) == {k \in Keys : status[k] = kind}

Init == status = [k \in Keys |-> "none"]

\* DownloadResponse or UploadResponse with Status 1.
Accept(k, kind) ==
  /\ status[k] = "none" /\ Cardinality(Waiting(kind)) < Capacity
  /\ status' = [status EXCEPT ![k] = kind]

\* Executed; its TransferComplete is on file.
Complete(k) ==
  /\ status[k] \in Kind
  /\ status' = [status EXCEPT ![k] = "done"]

\* The ACS has answered the TransferComplete.
Report(k) ==
  /\ status[k] = "done"
  /\ status' = [status EXCEPT ![k] = "reported"]

Lose(k) ==
  /\ status[k] \in Kind
  /\ status' = [status EXCEPT ![k] = "lost"]

DropAll ==
  status' = [k \in Keys |-> IF status[k] \in Kind \cup {"done"} THEN "dropped"
                            ELSE status[k]]

Next == \/ DropAll
        \/ \E k \in Keys : \/ \E kind \in Kind : Accept(k, kind)
                           \/ Complete(k) \/ Report(k) \/ Lose(k)

Spec == Init /\ [][Next]_status
============================================================================
