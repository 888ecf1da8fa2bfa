----------------------------- MODULE EasyCwmp -----------------------------
(***************************************************************************)
(* easycwmpd, the TR-069 agent of the router: its event list, its queue of *)
(* file transfers, the session with the ACS, and the backup file from      *)
(* which it resumes after a restart or a power cut.                        *)
(*                                                                         *)
(* The daemon is one thread (a uloop).  `pc' says where that thread is;    *)
(* one step is one write of the backup file, one exchange with the ACS or  *)
(* one call of an external script, because a power cut can fall between    *)
(* any two of these.  Every change of the XML tree in memory is followed   *)
(* at once by backup_save_file, so tree and file are one variable.         *)
(***************************************************************************)
EXTENDS CwmpBackup

CONSTANTS
  MaxTransfer,  \* MAX_DOWNLOAD and MAX_UPLOAD
  Max8005,      \* how often a request is repeated on fault 8005
  RetryCap,     \* retry_count saturates here (the C interval table does at 10)
  Requests,     \* the kinds of RPC the ACS may issue
  InformCodes,  \* the codes that ubus clients and connection requests raise
  Triggers,     \* other stimuli: "periodic", "notify", "reload"
  ApplyStatus,  \* what the apply-download script may answer
  MaxCrash,     \* bound on power cuts
  MayFail       \* may external_init or reading the configuration fail?

ASSUME BoundsAssumption ==
  /\ MaxTransfer \in Nat \ {0} /\ Max8005 \in Nat
  /\ RetryCap \in Nat \ {0} /\ MaxCrash \in Nat
ASSUME StimuliAssumption ==
  /\ Requests \subseteq {"Download", "Upload", "Reboot", "FactoryReset",
                         "ScheduleInform", "SetURL"}
  /\ InformCodes \subseteq UbusCode
  /\ Triggers \subseteq {"periodic", "notify", "reload"}
  /\ ApplyStatus \subseteq {"exit", "fault", "ok"}
  /\ MayFail \in BOOLEAN

VARIABLES
  backup,          \* contents of BACKUP_FILE
  cfg_url,         \* config->acs->url as UCI holds it
  pc, ret,         \* program point; where config_load returns to
  events,          \* cwmp->events
  notifications,   \* is cwmp->notifications non-empty?
  transfers,       \* cwmp->downloads and cwmp->uploads
  count,           \* cwmp->download_count, cwmp->upload_count
  scheduled,       \* cwmp->scheduled_informs
  timers,          \* which of inform_timer, inform_timer_retry are pending
  retry_count, method_id, hold_requests, get_rpc_methods, end_session,
  tries,           \* local `count' of the three rpc_ functions
  cur,             \* the transfer being executed or reported
  mid,             \* local `method_id' of cwmp_inform and backup_load_event
  loaded           \* event nodes backup_load_event has gone through

\* Observers: they record history and no guard reads them, except that
\* `used' and `crashes' implement the bounds on keys and power cuts.
VARIABLES
  used,       \* command keys the ACS has used
  accepted,   \* keys of transfers answered with Status 1
  acked,      \* <<key, fault>> of TransferCompletes the ACS has answered
  dropped,    \* transfers discarded with the whole backup
  failed,     \* transfers whose last execution ended in a fault
  cut,        \* <<pc, key>>: where a stop hit while working on a key
  announced,  \* was BOOTSTRAP answered since acs_url was last written?
  crashes

session  == <<hold_requests, get_rpc_methods, end_session, retry_count>>
locals   == <<tries, cur, mid, loaded>>
queues   == <<notifications, transfers, count, scheduled, method_id>>
observed == <<accepted, acked, dropped, failed, cut, announced>>
vars == <<backup, cfg_url, pc, ret, events, timers, session, locals, queues,
          used, observed, crashes>>

----------------------------------------------------------------------------
\* Data.  An operator whose name ends in _bug is a seeded fault of the one
\* that follows it; nothing else uses it.

NoNode == [code |-> "none", key |-> NoKey, mid |-> 0]
Event == [code : Code, key : Keys \cup {NoKey}, mid : Nat,
          node : Node \cup {NoNode}]

NoCur == [key |-> NoKey, kind |-> "download", fault |-> FALSE]
MEvent == [download |-> "M_DOWNLOAD", upload |-> "M_UPLOAD"]
KindOf == [Download |-> "download", Upload |-> "upload"]

HasCode(code) == \E i \in 1..Len(events) : events[i].code = code
TcKeys == TcKeysOf(backup)
TransferKeys == TransferKeysOf(backup)

Init ==
  /\ backup = NoBackup /\ cfg_url \in Urls
  /\ pc = "down" /\ ret = "main"
  /\ events = <<>> /\ notifications = FALSE
  /\ transfers = {} /\ count = [k \in Kind |-> 0] /\ scheduled = {}
  /\ timers = {} /\ retry_count = 0 /\ method_id = 0
  /\ hold_requests = FALSE /\ get_rpc_methods = FALSE /\ end_session = {}
  /\ tries = 0 /\ cur = NoCur /\ mid = 0 /\ loaded = 0
  /\ used = {} /\ accepted = {} /\ acked = {} /\ dropped = {} /\ failed = {}
  /\ cut = {} /\ announced = FALSE /\ crashes = 0

\* The process is gone: everything but the file and the UCI configuration.
ProcessGone ==
  /\ pc' = "down" /\ ret' = "main"
  /\ events' = <<>> /\ notifications' = FALSE
  /\ transfers' = {} /\ count' = [k \in Kind |-> 0] /\ scheduled' = {}
  /\ timers' = {} /\ retry_count' = 0 /\ method_id' = 0
  /\ hold_requests' = FALSE /\ get_rpc_methods' = FALSE /\ end_session' = {}
  /\ tries' = 0 /\ cur' = NoCur /\ mid' = 0 /\ loaded' = 0

----------------------------------------------------------------------------
\* The event list.

\* cwmp_add_event, with the backup node it creates when `save'.
cwmp_add_event(code, key, m, save) ==
  LET node == [code |-> code, key |-> key, mid |-> m] IN
  IF code \in SingleCode /\ HasCode(code)
  THEN UNCHANGED <<events, backup>>
  ELSE /\ events' = Append(events,
                      [code |-> code, key |-> key, mid |-> m,
                       node |-> IF save THEN node ELSE NoNode])
       /\ backup' = IF save THEN backup_add_event(backup, node) ELSE backup

cwmp_add_inform_timer == timers' = timers \cup {"inform"}

Removable(e, policy, m) == policy \in remove_policy(e.code) /\ e.mid = m
AnyRemovable_bug(policy, m) ==
  events # <<>> /\ Removable(events[1], policy, m)

AnyRemovable(policy, m) ==
  \E i \in 1..Len(events) : Removable(events[i], policy, m)

\* One turn of the loop of cwmp_remove_event: each deletion saves the file.
RemoveOneEvent(policy, m) ==
  LET i == SelectInSeq(events, LAMBDA e : Removable(e, policy, m)) IN
  /\ events' = RemoveAt(events, i)
  /\ backup' = backup_remove_event(backup, events[i].node)

----------------------------------------------------------------------------
\* Start of the process: main, backup_init, config_load.

CountsOf_bug(nodes) == [k \in Kind |-> 0]

\* cwmp_add_download and cwmp_add_upload count what backup_load_ hands them.
CountsOf(nodes) == [k \in Kind |-> Cardinality({t \in nodes : t.kind = k})]

\* backup_init up to backup_load_event: transfers and their timers come back.
BackupInit ==
  /\ pc = "down"
  /\ pc' = "load_event"
  /\ transfers' = {[key |-> t.key, kind |-> t.kind, armed |-> TRUE] :
                     t \in backup.transfers}
  /\ count' = CountsOf(backup.transfers)
  /\ UNCHANGED <<backup, cfg_url, ret, events, notifications, scheduled, timers,
                 method_id, session, locals, used, observed, crashes>>

LoadedEvent_bug(n, m) ==
  [code |-> n.code, key |-> n.key, mid |-> m, node |-> NoNode]
LoadedEvent_early_bug(n, m) ==
  [code |-> n.code, key |-> n.key, mid |-> mid, node |-> n]

\* The list entry of a node, tied to it by backup_node.
LoadedEvent(n, m) == [code |-> n.code, key |-> n.key, mid |-> m, node |-> n]

\* One turn of backup_load_event.  Its local method_id is assigned only when
\* the node carries one, and keeps the previous node's value otherwise.
LoadEvent ==
  /\ pc = "load_event" /\ loaded < Len(backup.evs)
  /\ LET n == backup.evs[loaded + 1]
         m == IF n.mid # 0 THEN n.mid ELSE mid
     IN /\ mid' = m
        /\ events' = IF n.code \in SingleCode /\ HasCode(n.code) THEN events
                     ELSE Append(events, LoadedEvent(n, m))
  /\ loaded' = loaded + 1
  /\ cwmp_add_inform_timer
  /\ UNCHANGED <<backup, cfg_url, pc, ret, tries, cur, session, queues, used,
                 observed, crashes>>

\* The end of backup_init: backup_update_all_complete_time_transfer_complete.
BackupInitDone ==
  /\ pc = "load_event" /\ loaded = Len(backup.evs)
  /\ pc' = "config_load" /\ ret' = "main"
  /\ backup' = backup_update_all_complete_time(backup)
  /\ mid' = 0 /\ loaded' = 0
  /\ UNCHANGED <<cfg_url, events, timers, tries, cur, session, queues, used,
                 observed, crashes>>

Return == IF ret = "main" THEN "boot"
          ELSE IF ret = "reload" THEN "idle" ELSE "end_session"

\* config_load with an unchanged acs_url.
ConfigLoadSame ==
  /\ pc = "config_load" /\ backup.url = cfg_url
  /\ pc' = Return
  /\ UNCHANGED <<backup, cfg_url, ret, events, timers, locals, session, queues,
                 used, observed, crashes>>

\* backup_add_acsurl up to its save: cwmp_clean, then a tree with only the URL.
BackupAddAcsUrl ==
  /\ pc = "config_load" /\ backup.url # cfg_url
  /\ pc' = "bootstrap"
  /\ backup' = backup_add_acsurl(backup, cfg_url)
  /\ events' = <<>> /\ notifications' = FALSE
  /\ transfers' = {} /\ count' = [k \in Kind |-> 0] /\ scheduled' = {}
  /\ retry_count' = 0 /\ end_session' = {}
  /\ hold_requests' = FALSE /\ get_rpc_methods' = FALSE
  /\ dropped' = dropped \cup TransferKeys \cup TcKeys
  /\ announced' = FALSE
  /\ UNCHANGED <<cfg_url, ret, timers, method_id, locals, used, accepted, acked,
                 failed, cut, crashes>>

\* The rest of backup_add_acsurl.
AddBootstrap ==
  /\ pc = "bootstrap"
  /\ pc' = Return
  /\ cwmp_add_event("BOOTSTRAP", NoKey, 0, TRUE)
  /\ cwmp_add_inform_timer
  /\ UNCHANGED <<cfg_url, ret, locals, session, queues, used, observed, crashes>>

\* main after config_load; the init script passes --boot and --getrpcmethod.
StartBoot ==
  /\ pc = "boot"
  /\ pc' = "getrpcmethod"
  /\ cwmp_add_event("BOOT", NoKey, 0, TRUE)
  /\ cwmp_add_inform_timer
  /\ UNCHANGED <<cfg_url, ret, locals, session, queues, used, observed, crashes>>

StartGetRpcMethod ==
  /\ pc = "getrpcmethod"
  /\ pc' = "idle"
  /\ get_rpc_methods' = TRUE
  /\ cwmp_add_event("PERIODIC", NoKey, 0, TRUE)
  /\ cwmp_add_inform_timer
  /\ UNCHANGED <<cfg_url, ret, locals, hold_requests, end_session, retry_count,
                 queues, used, observed, crashes>>

\* main when external_init fails, and config_load's error exit.
ConfigLoadFails ==
  /\ MayFail /\ pc = "config_load"
  /\ ProcessGone
  /\ UNCHANGED <<backup, cfg_url, used, observed, crashes>>

----------------------------------------------------------------------------
\* Callbacks the uloop runs while no session is open.

\* cwmp_connection_request, from ubus or from an authorised HTTP request; the
\* netlink handler does the same with VALUE_CHANGE.
cwmp_connection_request(code) ==
  /\ pc = "idle" /\ code \in InformCodes
  /\ cwmp_add_event(code, NoKey, 0, FALSE)
  /\ cwmp_add_inform_timer
  /\ UNCHANGED <<cfg_url, pc, ret, locals, session, queues, used, observed,
                 crashes>>

\* easycwmp_do_notify finding a changed parameter: active notification (2)
\* asks for an Inform, passive (1) waits for the next one.
Notify(active) ==
  /\ pc = "idle" /\ "notify" \in Triggers
  /\ notifications' = TRUE
  /\ cwmp_add_event("VALUE_CHANGE", NoKey, 0, FALSE)
  /\ IF active THEN cwmp_add_inform_timer ELSE UNCHANGED timers
  /\ UNCHANGED <<cfg_url, pc, ret, locals, session, transfers, count, scheduled,
                 method_id, used, observed, crashes>>

\* cwmp_periodic_inform; the timer is always re-armed while periodic_enable.
cwmp_periodic_inform ==
  /\ pc = "idle" /\ "periodic" \in Triggers
  /\ cwmp_add_event("PERIODIC", NoKey, 0, TRUE)
  /\ cwmp_add_inform_timer
  /\ UNCHANGED <<cfg_url, pc, ret, locals, session, queues, used, observed,
                 crashes>>

\* easycwmp_do_reload, after the configuration was edited to name url.
Reload(url) ==
  /\ pc = "idle" /\ "reload" \in Triggers
  /\ cfg_url' = url
  /\ pc' = "config_load" /\ ret' = "reload"
  /\ UNCHANGED <<backup, events, timers, locals, session, queues, used, observed,
                 crashes>>

\* cwmp_scheduled_inform: two events, two saves.
ScheduledInform(key) ==
  /\ pc = "idle" /\ key \in scheduled
  /\ pc' = "m_scheduleinform"
  /\ cur' = [NoCur EXCEPT !.key = key]
  /\ cwmp_add_event("SCHEDULED", NoKey, 0, TRUE)
  /\ UNCHANGED <<cfg_url, ret, timers, tries, mid, loaded, session, queues, used,
                 observed, crashes>>

ScheduledInformDone ==
  /\ pc = "m_scheduleinform"
  /\ pc' = "idle"
  /\ cwmp_add_event("M_SCHEDULEINFORM", cur.key, 0, TRUE)
  /\ cwmp_add_inform_timer
  /\ scheduled' = scheduled \ {cur.key}
  /\ cur' = NoCur
  /\ UNCHANGED <<cfg_url, ret, tries, mid, loaded, session, notifications,
                 transfers, count, method_id, used, observed, crashes>>

----------------------------------------------------------------------------
\* cwmp_download_launch and cwmp_upload_launch.

\* external_init fails: the entry stays in the list but its timer is spent.
LaunchFails(t) ==
  /\ MayFail /\ pc = "idle" /\ t \in transfers /\ t.armed
  /\ transfers' = (transfers \ {t}) \cup {[t EXCEPT !.armed = FALSE]}
  /\ UNCHANGED <<backup, cfg_url, pc, ret, events, notifications, count,
                 scheduled, timers, method_id, session, locals, used, observed,
                 crashes>>

\* The transfer script has run and reports success or a fault.
Launch(t, fault) ==
  /\ pc = "idle" /\ t \in transfers /\ t.armed
  /\ pc' = "x_remove"
  /\ cur' = [key |-> t.key, kind |-> t.kind, fault |-> fault]
  /\ failed' = IF fault THEN failed \cup {t.key} ELSE failed \ {t.key}
  /\ UNCHANGED <<backup, cfg_url, ret, events, timers, tries, mid, loaded,
                 session, queues, used, accepted, acked, dropped, cut,
                 announced, crashes>>

\* backup_remove_download / backup_remove_upload, list_del, count--.
LaunchRemove ==
  /\ pc = "x_remove"
  /\ pc' = "x_tc"
  /\ backup' = backup_remove_transfer(backup, cur.key)
  /\ transfers' = {t \in transfers : t.key # cur.key}
  /\ count' = [count EXCEPT ![cur.kind] = @ - 1]
  /\ UNCHANGED <<cfg_url, ret, events, notifications, scheduled, timers,
                 method_id, locals, session, used, observed, crashes>>

\* ++cwmp->method_id
NextMethodId == method_id + 1

LaunchAddTransferComplete ==
  /\ pc = "x_tc"
  /\ pc' = "x_event"
  /\ method_id' = NextMethodId
  /\ backup' = backup_add_transfer_complete(backup, cur.key, NextMethodId)
  /\ UNCHANGED <<cfg_url, ret, events, notifications, transfers, count,
                 scheduled, timers, locals, session, used, observed, crashes>>

LaunchAddEvent ==
  /\ pc = "x_event"
  /\ pc' = "x_m_event"
  /\ cwmp_add_event("TRANSFER_COMPLETE", NoKey, 0, TRUE)
  /\ UNCHANGED <<cfg_url, ret, timers, locals, session, queues, used, observed,
                 crashes>>

LaunchAddMEvent ==
  /\ pc = "x_m_event"
  /\ pc' = IF cur.fault THEN "x_fault"
           ELSE IF cur.kind = "download" THEN "x_apply" ELSE "x_complete"
  /\ cwmp_add_event(MEvent[cur.kind], cur.key, method_id, TRUE)
  /\ UNCHANGED <<cfg_url, ret, timers, locals, session, queues, used, observed,
                 crashes>>

\* The apply script for a downloaded file.  Status 1 means that the device is
\* about to restart: the daemon exits, and complete_time is left to backup_init.
LaunchApply(status) ==
  /\ pc = "x_apply" /\ status \in ApplyStatus
  /\ \/ /\ status = "exit"
        /\ ProcessGone
        /\ UNCHANGED failed
     \/ /\ status = "ok"
        /\ pc' = "x_complete"
        /\ UNCHANGED <<ret, events, timers, locals, session, queues, failed>>
     \/ /\ status = "fault"
        /\ pc' = "x_fault"
        /\ failed' = failed \cup {cur.key}
        /\ UNCHANGED <<ret, events, timers, locals, session, queues>>
  /\ UNCHANGED <<backup, cfg_url, used, accepted, acked, dropped, cut, announced,
                 crashes>>

\* backup_update_fault_transfer_complete.  After it a failed upload is done
\* (its complete_time stays unknown); a failed download goes on to `out'.
LaunchFault ==
  /\ pc = "x_fault"
  /\ backup' = backup_update_fault(backup)
  /\ IF cur.kind = "download"
     THEN pc' = "x_complete" /\ UNCHANGED <<timers, cur>>
     ELSE pc' = "idle" /\ cwmp_add_inform_timer /\ cur' = NoCur
  /\ UNCHANGED <<cfg_url, ret, events, tries, mid, loaded, session, queues, used,
                 observed, crashes>>

LaunchComplete ==
  /\ pc = "x_complete"
  /\ pc' = "idle"
  /\ backup' = backup_update_complete_time(backup)
  /\ cwmp_add_inform_timer
  /\ cur' = NoCur
  /\ UNCHANGED <<cfg_url, ret, events, tries, mid, loaded, session, queues, used,
                 observed, crashes>>

----------------------------------------------------------------------------
\* The session: cwmp_inform.

\* cwmp_do_inform, the callback of both timers.
cwmp_do_inform(t) ==
  /\ pc = "idle" /\ t \in timers
  /\ pc' = "inform"
  /\ timers' = timers \ {t, "retry"}
  /\ UNCHANGED <<backup, cfg_url, ret, events, locals, session, queues, used,
                 observed, crashes>>

\* rpc_inform answered by an InformResponse that says HoldRequests = hold.
InformAnswered(hold) ==
  /\ pc = "inform"
  /\ pc' = "rm_after_inform"
  /\ hold_requests' = hold /\ tries' = 0
  /\ announced' = (announced \/ HasCode("BOOTSTRAP"))
  /\ UNCHANGED <<backup, cfg_url, ret, events, timers, cur, mid, loaded,
                 get_rpc_methods, end_session, retry_count, queues, used,
                 accepted, acked, dropped, failed, cut, crashes>>

\* cwmp_remove_event(EVENT_REMOVE_AFTER_INFORM, 0), then the notifications.
RemoveAfterInform ==
  /\ pc = "rm_after_inform" /\ AnyRemovable("AFTER_INFORM", 0)
  /\ RemoveOneEvent("AFTER_INFORM", 0)
  /\ UNCHANGED <<cfg_url, pc, ret, timers, locals, session, queues, used,
                 observed, crashes>>

ClearNotifications ==
  /\ pc = "rm_after_inform" /\ ~AnyRemovable("AFTER_INFORM", 0)
  /\ pc' = "loop"
  /\ notifications' = FALSE
  /\ UNCHANGED <<backup, cfg_url, ret, events, timers, locals, session,
                 transfers, count, scheduled, method_id, used, observed, crashes>>

\* backup_check_transfer_complete() && !hold_requests
SendsTransferComplete == pc = "loop" /\ backup.tcs # <<>> /\ ~hold_requests

SendsGetRpcMethods_bug ==
  pc = "loop" /\ backup.tcs = <<>> /\ get_rpc_methods /\ hold_requests

\* get_rpc_methods && !hold_requests, once no TransferComplete is to be sent
SendsGetRpcMethods ==
  pc = "loop" /\ backup.tcs = <<>> /\ get_rpc_methods /\ ~hold_requests

\* rpc_transfer_complete succeeds: a response, an empty reply, or any fault
\* but 8005.  Only a response changes hold_requests.
TransferCompleteAnswered(hold) ==
  /\ SendsTransferComplete
  /\ pc' = "tc_remove"
  /\ LET tc == Head(backup.tcs) IN
     /\ mid' = extract_method_id(tc)
     /\ cur' = [NoCur EXCEPT !.key = tc.key]
     /\ acked' = acked \cup {<<tc.key, tc.fault>>}
  /\ hold_requests' = hold /\ tries' = 0
  /\ UNCHANGED <<backup, cfg_url, ret, events, timers, loaded, get_rpc_methods,
                 end_session, retry_count, queues, used, accepted, dropped,
                 failed, cut, announced, crashes>>

backup_remove_transfer_complete ==
  /\ pc = "tc_remove"
  /\ pc' = "rm_mid"
  /\ backup' = backup_remove_first_transfer_complete(backup)
  /\ UNCHANGED <<cfg_url, ret, events, timers, locals, session, queues, used,
                 observed, crashes>>

\* cwmp_remove_event(EVENT_REMOVE_AFTER_TRANSFER_COMPLETE, method_id)
RemoveAfterTransferComplete ==
  /\ pc = "rm_mid" /\ AnyRemovable("AFTER_TRANSFER_COMPLETE", mid)
  /\ RemoveOneEvent("AFTER_TRANSFER_COMPLETE", mid)
  /\ UNCHANGED <<cfg_url, pc, ret, timers, locals, session, queues, used,
                 observed, crashes>>

\* ... and, with no TransferComplete left, the same with method_id 0.
RemoveMidDone ==
  /\ pc = "rm_mid" /\ ~AnyRemovable("AFTER_TRANSFER_COMPLETE", mid)
  /\ IF backup.tcs = <<>> /\ mid # 0
     THEN pc' = "rm_mid" /\ mid' = 0 /\ UNCHANGED cur
     ELSE pc' = "loop" /\ mid' = 0 /\ cur' = NoCur
  /\ UNCHANGED <<backup, cfg_url, ret, events, timers, tries, loaded, session,
                 queues, used, observed, crashes>>

\* rpc_get_rpc_methods succeeds, under the same conditions.
GetRpcMethodsAnswered(hold) ==
  /\ SendsGetRpcMethods
  /\ pc' = "messages"
  /\ get_rpc_methods' = FALSE /\ hold_requests' = hold /\ tries' = 0
  /\ UNCHANGED <<backup, cfg_url, ret, events, timers, cur, mid, loaded,
                 end_session, retry_count, queues, used, observed, crashes>>

\* Nothing to send, or the ACS has asked us to hold: cwmp_handle_messages.
HandleMessages ==
  /\ pc = "loop" /\ ~SendsTransferComplete /\ ~SendsGetRpcMethods
  /\ pc' = "messages"
  /\ UNCHANGED <<backup, cfg_url, ret, events, timers, locals, session, queues,
                 used, observed, crashes>>

Exchanging == pc = "inform" \/ SendsTransferComplete \/ SendsGetRpcMethods

MayRepeat_bug == tries <= Max8005

\* (count++) < 10
MayRepeat == tries < Max8005

\* Fault 8005 (retry request): the same message again, at most Max8005 times.
Fault8005 ==
  /\ Exchanging /\ MayRepeat
  /\ tries' = tries + 1
  /\ UNCHANGED <<backup, cfg_url, pc, ret, events, timers, cur, mid, loaded,
                 session, queues, used, observed, crashes>>

\* A request fails for good: HTTP error, unreadable reply, 8005 once too often,
\* another Inform fault, http_client_init or external_init failing.  An
\* InformResponse without MaxEnvelopes fails after hold_requests was set.
ExchangeFails ==
  /\ Exchanging \/ pc = "messages"
  /\ pc' = "end" /\ ret' = "end_error"
  /\ tries' = 0
  /\ \/ UNCHANGED hold_requests
     \/ pc = "inform" /\ hold_requests' \in BOOLEAN
  /\ UNCHANGED <<backup, cfg_url, events, timers, cur, mid, loaded,
                 get_rpc_methods, end_session, retry_count, queues, used,
                 observed, crashes>>

\* The ACS has no more requests; another turn of cwmp_inform's outer loop when
\* there is something left to send.
EmptyMessage ==
  /\ pc = "messages"
  /\ hold_requests' = FALSE
  /\ IF get_rpc_methods \/ backup.tcs # <<>>
     THEN pc' = "loop" /\ UNCHANGED ret
     ELSE pc' = "end" /\ ret' = "end_ok"
  /\ UNCHANGED <<backup, cfg_url, events, timers, locals, get_rpc_methods,
                 end_session, retry_count, queues, used, observed, crashes>>

----------------------------------------------------------------------------
\* Requests of the ACS, answered inside cwmp_handle_messages.

FreshKey(k) == k \in Keys \ used

\* xml_handle_download / xml_handle_upload with well-formed arguments.
HandleTransfer(request, k) ==
  /\ pc = "messages" /\ request \in Requests \cap {"Download", "Upload"}
  /\ FreshKey(k) /\ used' = used \cup {k}
  /\ LET kind == KindOf[request] IN
     IF count[kind] >= MaxTransfer
     THEN UNCHANGED <<backup, transfers, count, accepted>>
     ELSE /\ backup' = backup_add_transfer(backup, k, kind)
          /\ transfers' = transfers \cup
                            {[key |-> k, kind |-> kind, armed |-> TRUE]}
          /\ count' = [count EXCEPT ![kind] = @ + 1]
          /\ accepted' = accepted \cup {k}
  /\ UNCHANGED <<cfg_url, pc, ret, events, notifications, scheduled, timers,
                 method_id, session, locals, acked, dropped, failed, cut,
                 announced, crashes>>

\* xml_handle_reboot: the event goes to the file only, for the next start.
HandleReboot(k) ==
  /\ pc = "messages" /\ "Reboot" \in Requests
  /\ FreshKey(k) /\ used' = used \cup {k}
  /\ backup' = backup_add_event(backup,
                  [code |-> "M_REBOOT", key |-> k, mid |-> 0])
  /\ end_session' = end_session \cup {"reboot"}
  /\ UNCHANGED <<cfg_url, pc, ret, events, timers, locals, hold_requests,
                 get_rpc_methods, retry_count, queues, observed, crashes>>

HandleFactoryReset ==
  /\ pc = "messages" /\ "FactoryReset" \in Requests
  /\ end_session' = end_session \cup {"factory_reset"}
  /\ UNCHANGED <<backup, cfg_url, pc, ret, events, timers, locals, hold_requests,
                 get_rpc_methods, retry_count, queues, used, observed, crashes>>

\* xml_handle_schedule_inform: the entry lives in memory only.
HandleScheduleInform(k) ==
  /\ pc = "messages" /\ "ScheduleInform" \in Requests
  /\ FreshKey(k) /\ used' = used \cup {k}
  /\ scheduled' = scheduled \cup {k}
  /\ UNCHANGED <<backup, cfg_url, pc, ret, events, notifications, transfers,
                 count, timers, method_id, session, locals, observed, crashes>>

\* SetParameterValues on the ACS URL: written to UCI, reload asked for.
HandleSetUrl(url) ==
  /\ pc = "messages" /\ "SetURL" \in Requests
  /\ cfg_url' = url
  /\ end_session' = end_session \cup {"reload"}
  /\ UNCHANGED <<backup, pc, ret, events, timers, locals, hold_requests,
                 get_rpc_methods, retry_count, queues, used, observed, crashes>>

----------------------------------------------------------------------------
\* cwmp_handle_end_session and what follows it in cwmp_inform.

EndFactoryReset ==
  /\ pc = "end" /\ "factory_reset" \in end_session
  /\ ProcessGone
  /\ backup' = NoBackup
  /\ dropped' = dropped \cup TransferKeys \cup TcKeys
  /\ UNCHANGED <<cfg_url, used, accepted, acked, failed, cut, announced, crashes>>

EndReboot ==
  /\ pc = "end" /\ "factory_reset" \notin end_session /\ "reboot" \in end_session
  /\ ProcessGone
  /\ UNCHANGED <<backup, cfg_url, used, observed, crashes>>

EndReload ==
  /\ pc = "end" /\ end_session = {"reload"}
  /\ pc' = "config_load"
  /\ UNCHANGED <<backup, cfg_url, ret, events, timers, locals, session, queues,
                 used, observed, crashes>>

EndPlain ==
  /\ pc = "end" /\ end_session = {}
  /\ pc' = "end_session"
  /\ UNCHANGED <<backup, cfg_url, ret, events, timers, locals, session, queues,
                 used, observed, crashes>>

SessionSuccess ==
  /\ pc = "end_session" /\ ret = "end_ok"
  /\ pc' = "idle"
  /\ end_session' = {} /\ retry_count' = 0
  /\ UNCHANGED <<backup, cfg_url, ret, events, timers, locals, hold_requests,
                 get_rpc_methods, queues, used, observed, crashes>>

NothingToRetry_bug ==
  \E i \in 1..Len(events) : "NO_RETRY" \in remove_policy(events[i].code)

\* The loop of cwmp_retry_session leaves retry = 0 only when it saw events and
\* all of them are of the kind that is not worth a retry.
NothingToRetry ==
  /\ events # <<>>
  /\ \A i \in 1..Len(events) : "NO_RETRY" \in remove_policy(events[i].code)

RetryWanted_bug == ~NothingToRetry

\* if (retry == 0 && cwmp->retry_count == 0) return;
RetryWanted == ~NothingToRetry \/ retry_count # 0

cwmp_retry_session ==
  /\ pc = "end_session" /\ ret = "end_error"
  /\ pc' = "idle"
  /\ end_session' = {}
  /\ IF AnyRemovable("NO_RETRY", 0) THEN RemoveOneEvent("NO_RETRY", 0)
                                    ELSE UNCHANGED <<events, backup>>
  /\ IF RetryWanted
     THEN /\ retry_count' = IF retry_count < RetryCap THEN retry_count + 1
                                                      ELSE retry_count
          /\ timers' = timers \cup {"retry"}
     ELSE UNCHANGED <<retry_count, timers>>
  /\ UNCHANGED <<cfg_url, ret, locals, hold_requests, get_rpc_methods, queues,
                 used, observed, crashes>>

----------------------------------------------------------------------------
\* Power cuts.

\* Where a cut leaves a transfer, or the announcement of a new ACS, half done.
CutPoint == {"x_tc", "x_event", "x_m_event", "x_apply", "x_fault", "x_complete",
             "tc_remove", "rm_mid", "bootstrap"}

Crash ==
  /\ pc # "down" /\ crashes < MaxCrash
  /\ crashes' = crashes + 1
  /\ ProcessGone
  /\ cut' = IF pc \in CutPoint THEN cut \cup {<<pc, cur.key>>} ELSE cut
  /\ UNCHANGED <<backup, cfg_url, used, accepted, acked, dropped, failed,
                 announced>>

\* Does a step that the thread may take now call backup_save_file?
Saving ==
  \/ pc \in {"bootstrap", "m_scheduleinform", "x_remove", "x_tc", "x_m_event",
             "x_fault", "x_complete", "tc_remove"}
  \/ pc = "load_event" /\ loaded = Len(backup.evs)
  \/ pc = "config_load" /\ backup.url # cfg_url
  \/ pc = "boot" /\ ~HasCode("BOOT")
  \/ pc = "getrpcmethod" /\ ~HasCode("PERIODIC")
  \/ pc = "x_event" /\ ~HasCode("TRANSFER_COMPLETE")
  \/ pc = "idle" /\ "periodic" \in Triggers /\ ~HasCode("PERIODIC")
  \/ pc = "idle" /\ scheduled # {} /\ ~HasCode("SCHEDULED")
  \/ pc = "rm_after_inform" /\ AnyRemovable("AFTER_INFORM", 0)
  \/ pc = "rm_mid" /\ AnyRemovable("AFTER_TRANSFER_COMPLETE", mid)
  \/ pc = "messages" /\ Requests \cap {"Download", "Upload", "Reboot"} # {}
  \/ pc = "end_session" /\ ret = "end_error" /\ AnyRemovable("NO_RETRY", 0)

\* A cut inside backup_save_file: fopen "w" has truncated the file.
CrashInSave ==
  /\ Saving /\ crashes < MaxCrash
  /\ crashes' = crashes + 1
  /\ ProcessGone
  /\ backup' = NoBackup
  /\ dropped' = dropped \cup TransferKeys \cup TcKeys \cup ({cur.key} \ {NoKey})
  /\ UNCHANGED <<cfg_url, used, accepted, acked, failed, cut, announced>>

----------------------------------------------------------------------------
Startup ==
  \/ BackupInit \/ LoadEvent \/ BackupInitDone \/ ConfigLoadSame
  \/ BackupAddAcsUrl \/ AddBootstrap \/ StartBoot \/ StartGetRpcMethod

Transfer ==
  \/ LaunchRemove \/ LaunchAddTransferComplete \/ LaunchAddEvent
  \/ LaunchAddMEvent \/ LaunchFault \/ LaunchComplete
  \/ \E s \in ApplyStatus : LaunchApply(s)

Session ==
  \/ RemoveAfterInform \/ ClearNotifications \/ backup_remove_transfer_complete
  \/ RemoveAfterTransferComplete \/ RemoveMidDone \/ HandleMessages
  \/ EndFactoryReset \/ EndReboot \/ EndReload \/ EndPlain
  \/ SessionSuccess \/ cwmp_retry_session

AcsAnswers ==
  \E hold \in BOOLEAN : \/ InformAnswered(hold)
                        \/ TransferCompleteAnswered(hold)
                        \/ GetRpcMethodsAnswered(hold)

AcsRequests ==
  \/ \E k \in Keys : \/ \E r \in Requests : HandleTransfer(r, k)
                     \/ HandleReboot(k)
                     \/ HandleScheduleInform(k)
  \/ HandleFactoryReset
  \/ \E url \in Urls : HandleSetUrl(url)

Callbacks ==
  \/ \E t \in timers : cwmp_do_inform(t)
  \/ \E t \in transfers : LaunchFails(t) \/ \E fault \in BOOLEAN : Launch(t, fault)
  \/ \E k \in scheduled : ScheduledInform(k)
  \/ ScheduledInformDone
  \/ \E code \in InformCodes : cwmp_connection_request(code)
  \/ \E active \in BOOLEAN : Notify(active)
  \/ cwmp_periodic_inform
  \/ \E url \in Urls : Reload(url)

Failures == ExchangeFails \/ Fault8005 \/ ConfigLoadFails \/ Crash \/ CrashInSave

Next ==
  \/ Startup \/ Callbacks \/ Transfer \/ Session
  \/ AcsAnswers \/ EmptyMessage \/ AcsRequests \/ Failures

Spec == Init /\ [][Next]_vars

\* The thread never stops between two steps and procd always starts a new
\* process; uloop runs every timer that is due, though not necessarily before
\* other callbacks; an ACS that is asked again and again answers in the end.
Fairness ==
  /\ WF_vars(Startup) /\ WF_vars(Transfer) /\ WF_vars(Session)
  /\ WF_vars(ScheduledInformDone)
  /\ SF_vars(\E t \in timers : cwmp_do_inform(t))
  /\ \A k \in Keys :
       /\ SF_vars(\E t \in transfers, f \in BOOLEAN : t.key = k /\ Launch(t, f))
       /\ SF_vars(ScheduledInform(k))
  /\ SF_vars(\E hold \in BOOLEAN : InformAnswered(hold))
  /\ SF_vars(\E hold \in BOOLEAN : TransferCompleteAnswered(hold))
  /\ SF_vars(\E hold \in BOOLEAN : GetRpcMethodsAnswered(hold))
  /\ SF_vars(EmptyMessage)

FairSpec == Spec /\ Fairness

----------------------------------------------------------------------------
\* Properties.

Point == CutPoint \cup
  {"down", "load_event", "config_load", "boot", "getrpcmethod", "idle",
   "m_scheduleinform", "x_remove", "inform", "rm_after_inform", "loop",
   "messages", "end", "end_session"}
KeyOrNone == Keys \cup {NoKey}

\* Every variable holds a value of its C type.
TypeOK ==
  /\ backup \in Backup /\ cfg_url \in Urls
  /\ pc \in Point /\ ret \in {"main", "reload", "end_ok", "end_error"}
  /\ events \in Seq(Event) /\ notifications \in BOOLEAN
  /\ transfers \subseteq [key : Keys, kind : Kind, armed : BOOLEAN]
  /\ count \in [Kind -> Int] /\ scheduled \subseteq Keys
  /\ timers \subseteq {"inform", "retry"}
  /\ retry_count \in 0..RetryCap /\ method_id \in Nat
  /\ hold_requests \in BOOLEAN /\ get_rpc_methods \in BOOLEAN
  /\ end_session \subseteq {"reboot", "factory_reset", "reload"}
  /\ tries \in 0..Max8005 /\ mid \in Nat /\ loaded \in Nat
  /\ cur \in [key : KeyOrNone, kind : Kind, fault : BOOLEAN]
  /\ used \subseteq Keys /\ accepted \subseteq Keys
  /\ acked \subseteq Keys \X BOOLEAN
  /\ dropped \subseteq Keys /\ failed \subseteq Keys
  /\ cut \subseteq CutPoint \X KeyOrNone
  /\ announced \in BOOLEAN /\ crashes \in 0..MaxCrash

AckedKeys == {a[1] : a \in acked}

\* A transfer the ACS was told is accepted (DownloadResponse, Status 1) is
\* still to be executed, or waits to be reported, or has been reported, or was
\* discarded with its whole backup (new ACS URL, factory reset, torn file).
\* The one hole is between backup_remove_download and
\* backup_add_transfer_complete of cwmp_download_launch.
TransferNeverLost ==
  \A k \in accepted :
    \/ k \in TransferKeys \cup TcKeys \cup AckedKeys \cup dropped
    \/ pc = "x_tc" /\ k = cur.key
    \/ <<"x_tc", k>> \in cut

\* A transfer is never both waiting for execution and already completed or
\* reported, and completes once: a restart does not execute it again after its
\* TransferComplete exists.
TransferOnce ==
  /\ TransferKeys \cap (TcKeys \cup AckedKeys) = {}
  /\ \A i, j \in 1..Len(backup.tcs) :
       backup.tcs[i].key = backup.tcs[j].key => i = j

\* The list entries with a backup_node, the nodes that backup_load_event has
\* come to, and which node an entry points to.
Saved == {i \in 1..Len(events) : events[i].node # NoNode}
Reached == 1..(IF pc = "load_event" THEN loaded ELSE Len(backup.evs))
Tied(i, j) == events[i].node = backup.evs[j]

\* cwmp->events and the event nodes of the file agree, in order: no two nodes
\* are the same, no backup_node pointer dangles, and no node is left that
\* nothing will delete.  Only the M Reboot node of xml_handle_reboot has no list
\* entry; it comes last, and then the process is going to exit.
NodesInSync ==
  /\ \A j, k \in 1..Len(backup.evs) : backup.evs[j] = backup.evs[k] => j = k
  /\ pc = "down" => events = <<>>
  /\ pc # "down" =>
       /\ \A i \in Saved : \E j \in Reached : Tied(i, j)
       /\ \A i, l \in Saved, j, k \in Reached :
            Tied(i, j) /\ Tied(l, k) /\ i < l => j < k
       /\ \A j \in Reached :
            \/ \E i \in Saved : Tied(i, j)
            \/ /\ backup.evs[j].code = "M_REBOOT" /\ "reboot" \in end_session
               /\ \A i \in Saved, k \in Reached : Tied(i, k) => k < j

\* download_count and upload_count are the lengths of the lists, the lists are
\* what the file holds, and neither passes MAX_DOWNLOAD / MAX_UPLOAD, restarts
\* included: no slot leaks.
SlotAccounting ==
  pc # "down" =>
    /\ {[key |-> t.key, kind |-> t.kind] : t \in transfers} = backup.transfers
    /\ \A k \in Kind : /\ count[k] = Cardinality({t \in transfers : t.kind = k})
                       /\ count[k] <= MaxTransfer

\* While the daemon sits in uloop with something to tell the ACS (a completed
\* transfer, GetRPCMethods, an event that an Inform delivers and that is not a
\* passive value change, a failed session) a session is on a timer.
WakeupPending ==
  pc = "idle" /\ timers = {} =>
    /\ backup.tcs = <<>> /\ ~get_rpc_methods /\ retry_count = 0
    /\ \A i \in 1..Len(events) :
         events[i].mid = 0 => events[i].code \in TransferCode \cup {"VALUE_CHANGE"}

\* A TransferComplete the ACS has answered told the truth about the outcome,
\* unless a power cut fell between backup_add_transfer_complete, which writes
\* FAULT_0, and backup_update_fault_transfer_complete.
TruthfulReport ==
  \A a \in acked :
    ~a[2] /\ a[1] \in failed =>
      \E p \in {"x_event", "x_m_event", "x_apply", "x_fault"} : <<p, a[1]>> \in cut

\* A TransferComplete without fault is sent only once its complete_time is set.
CompleteTimeKnown ==
  SendsTransferComplete => Head(backup.tcs).fault \/ Head(backup.tcs).complete

\* An answered TransferComplete is not sent again, except after a power cut
\* between the answer and backup_remove_transfer_complete.
NotReportedTwice ==
  [][pc = "loop" /\ pc' = "tc_remove" =>
       \/ cur'.key \notin AckedKeys
       \/ <<"tc_remove", cur'.key>> \in cut]_vars

\* "M Download" and "M Upload" leave the list with the TransferComplete they
\* belong to: an event without one is being removed right now, or a power cut
\* fell between backup_remove_transfer_complete and that removal.
NoOrphanEvent ==
  \A i \in 1..Len(events) :
    events[i].code \in {"M_DOWNLOAD", "M_UPLOAD"} =>
      \/ events[i].key \in TcKeys
      \/ pc = "rm_mid" /\ cur.key = events[i].key
      \/ <<"rm_mid", events[i].key>> \in cut

\* After an InformResponse no event whose policy is removal after Inform is
\* left in the list.
InformClearsEvents ==
  pc = "loop" =>
    \A i \in 1..Len(events) : "AFTER_INFORM" \notin remove_policy(events[i].code)

\* An ACS URL that is on file has been told "0 BOOTSTRAP", or the event is on
\* file too and will be sent, restarts included.  The hole is a power cut
\* between the two saves of backup_add_acsurl.
BootstrapNotLost ==
  backup.url # NoUrl =>
    \/ announced \/ pc = "bootstrap"
    \/ \E i \in 1..Len(backup.evs) : backup.evs[i].code = "BOOTSTRAP"
    \/ <<"bootstrap", NoKey>> \in cut

\* Notified parameters wait together with the VALUE CHANGE event that makes the
\* next Inform carry them, across failed sessions and retries.
NotificationHasEvent ==
  notifications /\ pc \in {"idle", "inform"} => HasCode("VALUE_CHANGE")

\* An accepted transfer is reported in the end, through failed sessions, held
\* requests, retries and restarts, unless its backup is discarded or a power
\* cut hits the hole of TransferNeverLost.
TransferReported ==
  \A k \in Keys : k \in accepted ~>
    k \in AckedKeys \cup dropped \/ <<"x_tc", k>> \in cut

\* Every session ends, whatever the ACS holds, repeats or refuses.
SessionEnds == pc = "inform" ~> pc \in {"idle", "down"}

\* The transfers as the ACS may think of them.
LedgerStatus(k) ==
  CASE k \in AckedKeys -> "reported"
    [] k \in TcKeys \ AckedKeys -> "done"
    [] k \in TransferKeys \ (TcKeys \cup AckedKeys) ->
         (CHOOSE t \in backup.transfers : t.key = k).kind
    [] OTHER -> IF pc = "x_tc" /\ k = cur.key THEN cur.kind
                ELSE IF k \in accepted \cap dropped THEN "dropped"
                ELSE IF k \in accepted THEN "lost" ELSE "none"

Ledger == INSTANCE TransferLedger WITH
            Capacity <- MaxTransfer,
            status <- [k \in Keys |-> LedgerStatus(k)]

\* easycwmpd keeps the promise of TransferLedger.
ImplementsLedger == Ledger!Spec
============================================================================
