---------------------------- MODULE CwmpBackup ----------------------------
(***************************************************************************)
(* The backup file of easycwmpd (backup.c): what it holds, and each backup *)
(* operation as a function of its contents.  The XML elements of one tag   *)
(* are found by tag, in document order, and new ones are added at the end, *)
(* so the elements of each tag form a list of their own.  The order of the *)
(* download and upload elements decides nothing and they form a set.       *)
(***************************************************************************)
EXTENDS Integers, FiniteSets, SequencesExt, EventCodes

CONSTANTS
  Keys,         \* command keys; the ACS uses each in one request
  Urls,         \* ACS URLs the configuration may name
  NoKey, NoUrl  \* "no command key", "no acs_url element"

ASSUME KeysAssumption == NoKey \notin Keys
ASSUME UrlsAssumption == NoUrl \notin Urls /\ Urls # {}

Kind == {"download", "upload"}

\* <event>, <download> or <upload>, <transfer_complete>
Node == [code : Code, key : Keys \cup {NoKey}, mid : Nat]
TransferNode == [key : Keys, kind : Kind]
TransferComplete == [key : Keys, mid : Nat, fault : BOOLEAN, complete : BOOLEAN]
Backup == [url : Urls \cup {NoUrl}, transfers : SUBSET TransferNode,
           tcs : Seq(TransferComplete), evs : Seq(Node)]

\* A missing, empty or truncated file: mxmlLoadFile yields no tree.
NoBackup == [url |-> NoUrl, transfers |-> {}, tcs |-> <<>>, evs |-> <<>>]

\* Below, an operator whose name ends in _bug is a seeded fault of the one
\* that follows it; nothing else uses it.

backup_add_acsurl_bug(b, url) == [NoBackup EXCEPT !.url = url, !.tcs = b.tcs]

\* The tree is deleted and made anew with the URL only.
backup_add_acsurl(b, url) == [NoBackup EXCEPT !.url = url]

\* backup_add_download, backup_add_upload
backup_add_transfer(b, key, kind) ==
  [b EXCEPT !.transfers = @ \cup {[key |-> key, kind |-> kind]}]

backup_remove_transfer_bug(b, key) == b

\* backup_remove_download, backup_remove_upload
backup_remove_transfer(b, key) ==
  [b EXCEPT !.transfers = {t \in @ : t.key # key}]

\* Always with FAULT_0 and an unknown complete_time.
backup_add_transfer_complete(b, key, mid) ==
  [b EXCEPT !.tcs = Append(@, [key |-> key, mid |-> mid, fault |-> FALSE,
                               complete |-> FALSE])]

backup_update_fault_bug(b) == b

\* Both updates are of the node that was added last.
backup_update_fault(b) == [b EXCEPT !.tcs[Len(b.tcs)].fault = TRUE]
backup_update_complete_time(b) == [b EXCEPT !.tcs[Len(b.tcs)].complete = TRUE]

backup_update_all_complete_time_bug(b) == b

\* At start: every complete_time that is still unknown.
backup_update_all_complete_time(b) ==
  [b EXCEPT !.tcs = [i \in 1..Len(@) |-> [@[i] EXCEPT !.complete = TRUE]]]

extract_method_id_bug(tc) == 0

\* The method_id that backup_extract_transfer_complete hands back.
extract_method_id(tc) == tc.mid

remove_every_transfer_complete_bug(b) == [b EXCEPT !.tcs = <<>>]
remove_no_transfer_complete_bug(b) == b

\* backup_remove_transfer_complete of the node that was found first.
backup_remove_first_transfer_complete(b) == [b EXCEPT !.tcs = Tail(@)]

backup_add_event_bug(b, node) == b

backup_add_event(b, node) == [b EXCEPT !.evs = Append(@, node)]

\* Nothing is deleted when the event has no node.
backup_remove_event(b, node) == [b EXCEPT !.evs = RemoveFirst(@, node)]

\* Keys of transfers to be executed, and of TransferCompletes to be sent.
TransferKeysOf(b) == {t.key : t \in b.transfers}
TcKeysOf(b) == {b.tcs[i].key : i \in 1..Len(b.tcs)}
============================================================================
