---------------------------- MODULE EventCodes ----------------------------
(***************************************************************************)
(* The CWMP event codes of easycwmpd and what the daemon knows of each:    *)
(* whether the event list may hold it twice, and the occasions on which    *)
(* cwmp_remove_event deletes it.  KICKED, REQUEST DOWNLOAD and AUTONOMOUS  *)
(* TRANSFER COMPLETE are in the C table but nothing in the program raises  *)
(* them.                                                                   *)
(***************************************************************************)

\* EVENT_MULTIPLE: one list entry per command key.
MultipleCode == {"M_REBOOT", "M_SCHEDULEINFORM", "M_DOWNLOAD", "M_UPLOAD"}

\* EVENT_SINGLE: at most one list entry.
SingleCode ==
  {"BOOTSTRAP", "BOOT", "PERIODIC", "SCHEDULED", "VALUE_CHANGE",
   "CONNECTION_REQUEST", "TRANSFER_COMPLETE", "DIAGNOSTICS_COMPLETE"}

Code == SingleCode \cup MultipleCode

\* The codes whose events stay until a TransferComplete has been answered.
TransferCode == {"TRANSFER_COMPLETE", "M_DOWNLOAD", "M_UPLOAD"}

\* A seeded fault of the operator that follows; nothing else uses it.
remove_policy_bug(code) ==
  (IF code \in TransferCode THEN {"AFTER_TRANSFER_COMPLETE"}
                            ELSE {"AFTER_INFORM"})
    \cup (IF code \in {"CONNECTION_REQUEST", "VALUE_CHANGE"} THEN {"NO_RETRY"}
                                                           ELSE {})

\* The remove_policy bit mask of event_code_array, as a set of bits.
remove_policy(code) ==
  (IF code \in TransferCode THEN {"AFTER_TRANSFER_COMPLETE"}
                            ELSE {"AFTER_INFORM"})
    \cup (IF code = "CONNECTION_REQUEST" THEN {"NO_RETRY"} ELSE {})

\* What `ubus call tr069 inform` and an authorised connection request raise.
UbusCode ==
  {"BOOT", "PERIODIC", "SCHEDULED", "VALUE_CHANGE", "CONNECTION_REQUEST",
   "DIAGNOSTICS_COMPLETE", "BOOTSTRAP"}
============================================================================
