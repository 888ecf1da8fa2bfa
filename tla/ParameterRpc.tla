---------------------------- MODULE ParameterRpc ----------------------------
(***************************************************************************)
(* One CWMP session seen from the pipe between easycwmpd and its script.   *)
(*                                                                         *)
(* The daemon forks "easycwmp --json-input" for a session (external_init), *)
(* writes one command per line into the script's standard input and reads  *)
(* lines from its standard output until the prompt.  SetParameterValues,   *)
(* SetParameterAttributes, AddObject, DeleteObject and the Get methods are *)
(* conversations over these two bounded pipes; what a Set asks for goes    *)
(* through files in /tmp and UCI's staged changes before it is committed.  *)
(* The script may be killed, or exit inside a command it evaluates, at any *)
(* point; the files it leaves are found by the script of the next session. *)
(*                                                                         *)
(* A slot of the configuration holds the number of the request that wrote  *)
(* it; the same number tags commands and lines.  The daemon never sees it. *)
(***************************************************************************)
EXTENDS Naturals, Sequences, FiniteSets

CONSTANTS Params,     \* the parameter (object) names the ACS uses
          InCap,      \* lines the script's input pipe holds
          OutCap,     \* lines the script's output pipe holds
          MaxReq,     \* bound: requests of the ACS
          MaxDeath    \* bound: times a script dies

ASSUME PipeAssumption == /\ InCap \in Nat \ {0}
                         /\ OutCap \in Nat \ {0}
                         /\ MaxReq \in Nat
                         /\ MaxDeath \in Nat

VARIABLES
  dpc,          \* where the daemon is: down, idle, write, read, wait
  task,         \* what the conversation is for: init, rpc, service, exit
  toSend,       \* commands still to be written
  req,          \* the current, or last, request of the ACS
  rest,         \* names a Get method has not asked for yet
  list,         \* external_list_parameter
  status,       \* external_method_status: the tag of the line, 0 when NULL
  inp, outp,    \* pfds_in and pfds_out
  cpc,          \* the script: none, zombie, read, print, eval, revert, ...
  ccmd,         \* the command the script works on
  say,          \* lines the script is about to print
  todo,         \* lines of set_command_tmp_file not evaluated yet
  rev,          \* the script's variable of that name
  command_file, \* set_command_tmp_file
  fault_file,   \* set_fault_tmp_file
  staged,       \* UCI with the uncommitted changes in /tmp/.uci
  config        \* UCI as committed

\* Observers: requests accepted, script deaths, the answers given, the names
\* the last Get answer listed, and the requests that found the script dead or
\* on which it died.
VARIABLES nreq, deaths, verdict, listed, orphaned

daemon == <<dpc, task, toSend, req, rest, list, status>>
script == <<cpc, ccmd, say, todo, rev>>
stores == <<command_file, fault_file, staged, config>>
pipes == <<inp, outp>>
observers == <<nreq, deaths, verdict, listed, orphaned>>
vars == <<daemon, script, stores, pipes, observers>>

Id == 0 .. MaxReq

\* SetParameterValues and SetParameterAttributes; AddObject and DeleteObject;
\* GetParameterValues, GetParameterNames and GetParameterAttributes, which
\* hold the same conversation for each name they carry.
SetKind == {"value", "notification"}
ObjectKind == {"add", "delete"}
GetKind == {"get"}
Kind == SetKind \cup ObjectKind \cup GetKind

\* What a request of each kind writes: parameter values, the notification
\* lists of the easycwmp package, sections added or deleted.
ClassOf(kind) == IF kind \in ObjectKind THEN "object" ELSE kind
Slot == (SetKind \cup {"object"}) \X Params

Op == {"set", "add", "delete", "get", "apply", "apply_object",
       "apply_service", "end", "exit"}
NoName == "noname"
NoKind == "nokind"
Name == Params \cup {NoName}
Cmd == [op: Op, kind: Kind \cup {NoKind}, name: Name, id: Id]
Line == [what: {"prompt", "status", "noinstance", "fault", "value"}, name: Name, id: Id]
Entry == [name: Params, id: Id]

Command(op, r, name) == [op |-> op, kind |-> r.kind, name |-> name, id |-> r.id]
Plain(op) == [op |-> op, kind |-> NoKind, name |-> NoName, id |-> 0]
Say(what, name, id) == [what |-> what, name |-> name, id |-> id]

NoReq == [id |-> 0, kind |-> NoKind, names |-> <<>>]
Names(s) == {s[i] : i \in DOMAIN s}

\* The script's end of the pipes is open.
Alive == cpc \notin {"none", "zombie"}

Init ==
  /\ dpc = "down" /\ task = "init" /\ toSend = <<>> /\ req = NoReq
  /\ rest = <<>> /\ list = <<>> /\ status = 0
  /\ inp = <<>> /\ outp = <<>>
  /\ cpc = "none" /\ ccmd = Plain("end") /\ say = <<>> /\ todo = <<>>
  /\ rev = FALSE
  /\ command_file = <<>> /\ fault_file = <<>>
  /\ staged = [s \in Slot |-> 0] /\ config = [s \in Slot |-> 0]
  /\ nreq = 0 /\ deaths = 0 /\ verdict = [i \in Id |-> "none"]
  /\ listed = {} /\ orphaned = {}

-----------------------------------------------------------------------------
(* The daemon *)

\* Seeded fault: the first prompt is not awaited.
ExternalInit_bug ==
  /\ dpc = "down"
  /\ dpc' = "idle" /\ task' = "init"
  /\ cpc' = "print" /\ say' = <<Say("prompt", NoName, 0)>>
  /\ ccmd' = Plain("end") /\ todo' = <<>> /\ rev' = FALSE
  /\ inp' = <<>> /\ outp' = <<>>
  /\ UNCHANGED <<toSend, req, rest, list, status, stores, observers>>

\* external_init: two pipes, a child, and the wait for its first prompt.
ExternalInit ==
  /\ dpc = "down"
  /\ dpc' = "read" /\ task' = "init"
  /\ cpc' = "print" /\ say' = <<Say("prompt", NoName, 0)>>
  /\ ccmd' = Plain("end") /\ todo' = <<>> /\ rev' = FALSE
  /\ inp' = <<>> /\ outp' = <<>>
  /\ UNCHANGED <<toSend, req, rest, list, status, stores, observers>>

\* The commands a handler writes before it reads: a Set writes every "set",
\* then "apply"; the object methods write one command; the Get methods one
\* per name, and read the answer to each.
Conversation(r) ==
  LET body == CASE r.kind \in SetKind ->
                     [i \in DOMAIN r.names |-> Command("set", r, r.names[i])]
                       \o <<Command("apply", r, NoName)>>
                [] r.kind \in ObjectKind -> <<Command(r.kind, r, Head(r.names))>>
                [] r.kind \in GetKind -> <<Command("get", r, Head(r.names))>>
  IN  Append(body, Plain("end"))

\* Name lists a request may carry, as long as there are names: AddObject and
\* DeleteObject have one; a Set may have none, and then is only an "apply"; a
\* SetParameterValues that repeats a name is refused before the script is
\* asked (xml_check_duplicated_parameter), the other methods take repeats.
NameLists(kind) ==
  LET least == IF kind \in SetKind THEN 0 ELSE 1
      most == IF kind \in ObjectKind THEN 1 ELSE Cardinality(Params)
  IN  {s \in UNION {[1 .. n -> Params] : n \in least .. most} :
         kind = "value" => \A i, j \in DOMAIN s : s[i] = s[j] => i = j}

\* xml_handle_message dispatches a request to its handler.
Request(kind, names) ==
  /\ dpc = "idle" /\ nreq < MaxReq
  /\ nreq' = nreq + 1
  /\ req' = [id |-> nreq + 1, kind |-> kind, names |-> names]
  /\ toSend' = Conversation(req')
  /\ rest' = IF kind \in GetKind THEN Tail(names) ELSE <<>>
  /\ dpc' = "write" /\ task' = "rpc"
  /\ listed' = {}
  /\ orphaned' = IF Alive THEN orphaned ELSE orphaned \cup {nreq + 1}
  /\ UNCHANGED <<list, status, script, stores, pipes, deaths, verdict>>

\* external_write_pipe: blocks while the pipe is full; fails, with a log line
\* and nothing else, when the script is gone (SIGPIPE is ignored).  After
\* "end" and "exit" the daemon reads; a lone "apply object" is not answered.
ExternalWritePipe ==
  /\ dpc = "write"
  /\ IF Alive THEN Len(inp) < InCap /\ inp' = Append(inp, Head(toSend))
              ELSE UNCHANGED inp
  /\ toSend' = Tail(toSend)
  /\ dpc' = CASE Tail(toSend) # <<>> -> "write"
              [] Tail(toSend) = <<>> /\ Head(toSend).op \in {"end", "exit"} -> "read"
              [] OTHER -> "idle"
  /\ UNCHANGED <<task, req, rest, list, status, outp, script, stores, observers>>

\* external_add_list_paramameter: a name listed without a fault is not listed
\* again; otherwise the line is appended.
external_add_list_paramameter(l, line) ==
  LET same == {i \in DOMAIN l : l[i].name = line.name}
      first == CHOOSE i \in same : \A j \in same : i <= j
  IN  IF same # {} /\ l[first].what # "fault" THEN l ELSE Append(l, line)

\* xml_check_fault_in_list_parameter looks at the last entry only.
FaultInList(l) == l # <<>> /\ l[Len(l)].what = "fault"

\* The json_handle_ functions.  The calls made to start a session, to apply
\* services and to exit pass no handler.  For an object method the fault is
\* external_method_fault: kept in list, which that method does not use, as is
\* the status of an AddObject that came without an instance number.
HandleLine(line) ==
  IF task = "rpc" /\ line.what = "status"
    THEN status' = line.id /\ UNCHANGED list
    ELSE /\ UNCHANGED status
         /\ list' = IF task = "rpc" THEN external_add_list_paramameter(list, line)
                                    ELSE list

\* The handler's end: an answer for the ACS, the list freed.
Answer(v) ==
  /\ verdict' = [verdict EXCEPT ![req.id] = v]
  /\ listed' = IF v = "list" THEN {list[i].name : i \in DOMAIN list} ELSE listed
  /\ list' = <<>> /\ rest' = <<>>

\* A Set method: a fault line is a fault, no status line is fault 9002.
DecideSet ==
  /\ req.kind \in SetKind
  /\ dpc' = "idle" /\ toSend' = <<>>
  /\ IF FaultInList(list) \/ status = 0
       THEN Answer("fault") /\ UNCHANGED status
       ELSE Answer("status") /\ status' = 0

\* Seeded fault: the handler returns before "apply object" is written.
DecideObject_bug ==
  /\ req.kind \in ObjectKind
  /\ dpc' = "idle" /\ status' = 0
  /\ IF FaultInList(list) \/ status = 0
       THEN Answer("fault") /\ toSend' = <<>>
       ELSE /\ Answer("status")
            /\ toSend' = <<Command("apply_object", req, NoName)>>

\* AddObject and DeleteObject: status and fault are fetched together; "apply
\* object" is written before the handler returns.
DecideObject ==
  /\ req.kind \in ObjectKind
  /\ status' = 0
  /\ IF FaultInList(list) \/ status = 0
       THEN Answer("fault") /\ dpc' = "idle" /\ toSend' = <<>>
       ELSE /\ Answer("status") /\ dpc' = "write"
            /\ toSend' = <<Command("apply_object", req, NoName)>>

\* A Get method: a fault ends it, the next name is asked, or the list is the
\* answer; an end of file counts as an answer without lines.
DecideGet ==
  /\ req.kind \in GetKind
  /\ UNCHANGED status
  /\ IF FaultInList(list)
       THEN Answer("fault") /\ dpc' = "idle" /\ toSend' = <<>>
     ELSE IF rest # <<>>
       THEN /\ toSend' = <<Command("get", req, Head(rest)), Plain("end")>>
            /\ rest' = Tail(rest) /\ dpc' = "write"
            /\ UNCHANGED <<list, verdict, listed>>
       ELSE Answer("list") /\ dpc' = "idle" /\ toSend' = <<>>

\* external_read_pipe has returned: what its caller does next.
ReadDone ==
  CASE task = "init" -> /\ dpc' = "idle"
                        /\ UNCHANGED <<task, toSend, rest, list, status, verdict, listed>>
    [] task = "rpc" -> UNCHANGED task /\ (DecideSet \/ DecideObject \/ DecideGet)
    [] task = "service" -> /\ task' = "exit" /\ toSend' = <<Plain("exit")>>
                           /\ dpc' = "write"
                           /\ UNCHANGED <<rest, list, status, verdict, listed>>
    [] task = "exit" -> /\ dpc' = "wait"
                        /\ UNCHANGED <<task, toSend, rest, list, status, verdict, listed>>

\* A line for the handler.
ReadLine ==
  /\ dpc = "read" /\ outp # <<>> /\ Head(outp).what # "prompt"
  /\ outp' = Tail(outp)
  /\ HandleLine(Head(outp))
  /\ UNCHANGED <<dpc, task, toSend, req, rest, inp, script, stores, observers>>

\* The prompt.
ReadPrompt ==
  /\ dpc = "read" /\ outp # <<>> /\ Head(outp).what = "prompt"
  /\ outp' = Tail(outp)
  /\ ReadDone
  /\ UNCHANGED <<req, inp, script, stores, nreq, deaths, orphaned>>

\* Seeded fault: the daemon keeps the write end of pfds_out open and sees no
\* end of file while the child is not reaped.
ReadEof_bug ==
  /\ dpc = "read" /\ outp = <<>> /\ cpc = "none"
  /\ ReadDone
  /\ UNCHANGED <<req, pipes, script, stores, nreq, deaths, orphaned>>

\* End of file: the loop ends as it does at the prompt, with return value 0.
ReadEof ==
  /\ dpc = "read" /\ outp = <<>> /\ ~Alive
  /\ ReadDone
  /\ UNCHANGED <<req, pipes, script, stores, nreq, deaths, orphaned>>

\* cwmp_handle_end_session, at the end of a session that succeeded or failed.
EndSession ==
  /\ dpc = "idle"
  /\ dpc' = "write" /\ task' = "service"
  /\ toSend' = <<Plain("apply_service"), Plain("end")>>
  /\ UNCHANGED <<req, rest, list, status, script, stores, pipes, observers>>

\* external_exit's wait() returns the child; the pipes are closed.
ExternalExit ==
  /\ dpc = "wait" /\ cpc = "zombie"
  /\ dpc' = "down" /\ cpc' = "none"
  /\ inp' = <<>> /\ outp' = <<>>
  /\ UNCHANGED <<task, toSend, req, rest, list, status, ccmd, say, todo, rev,
                 stores, observers>>

-----------------------------------------------------------------------------
(* The script *)

Took == inp' = Tail(inp) /\ ccmd' = Head(inp)

\* The script has the next command in hand and does not answer it.
ReadOn == cpc' = "read" /\ UNCHANGED <<say, todo, rev>>

\* echo: the lines are printed one by one; then the script goes on as the
\* command in hand says.
Echo(lines) == cpc' = "print" /\ say' = lines /\ UNCHANGED <<todo, rev>>

ScriptReads(op) == cpc = "read" /\ inp # <<>> /\ Head(inp).op = op

\* Seeded fault: an invalid name is answered on standard output at once.
SetValue_bug ==
  /\ ScriptReads("set") /\ Head(inp).kind = "value"
  /\ Took
  /\ \/ /\ command_file' = Append(command_file,
                                  [name |-> Head(inp).name, id |-> Head(inp).id])
        /\ ReadOn
     \/ /\ Echo(<<Say("fault", Head(inp).name, Head(inp).id)>>)
        /\ UNCHANGED command_file
  /\ UNCHANGED <<fault_file, staged, config, outp, daemon, observers>>

\* set_value: a valid name and value become a line of the command file, any
\* other a line of the fault file.
SetValue ==
  /\ ScriptReads("set") /\ Head(inp).kind = "value"
  /\ Took /\ ReadOn
  /\ \/ /\ command_file' = Append(command_file,
                                  [name |-> Head(inp).name, id |-> Head(inp).id])
        /\ UNCHANGED fault_file
     \/ /\ fault_file' = Append(fault_file,
                                Say("fault", Head(inp).name, Head(inp).id))
        /\ UNCHANGED command_file
  /\ UNCHANGED <<staged, config, outp, daemon, observers>>

\* set_notification changes the lists of the easycwmp package at once.
SetNotification ==
  /\ ScriptReads("set") /\ Head(inp).kind = "notification"
  /\ Took /\ ReadOn
  /\ \/ /\ staged' = [staged EXCEPT ![<<"notification", Head(inp).name>>] = Head(inp).id]
        /\ UNCHANGED fault_file
     \/ /\ fault_file' = Append(fault_file,
                                Say("fault", Head(inp).name, Head(inp).id))
        /\ UNCHANGED staged
  /\ UNCHANGED <<command_file, config, outp, daemon, observers>>

\* apply_value and apply_notification: the fault file is printed if there is
\* one, otherwise the command file is evaluated line by line.
Apply ==
  /\ ScriptReads("apply") /\ Took
  /\ IF fault_file # <<>>
       THEN cpc' = "print" /\ say' = fault_file /\ UNCHANGED todo
       ELSE cpc' = "eval" /\ todo' = command_file /\ UNCHANGED say
  /\ rev' = FALSE
  /\ UNCHANGED <<stores, outp, daemon, observers>>

\* One line of the command file: its UCI changes, or a fault line and rev.
EvalLine ==
  /\ cpc = "eval" /\ todo # <<>>
  /\ todo' = Tail(todo)
  /\ \/ /\ staged' = [staged EXCEPT ![<<"value", Head(todo).name>>] = Head(todo).id]
        /\ UNCHANGED <<cpc, say, rev>>
     \/ /\ rev' = TRUE /\ cpc' = "print"
        /\ say' = <<Say("fault", Head(todo).name, Head(todo).id)>>
        /\ UNCHANGED staged
  /\ UNCHANGED <<ccmd, command_file, fault_file, config, pipes, daemon, observers>>

\* The loop is over: revert, or the status line and after it the commit.
EvalDone ==
  /\ cpc = "eval" /\ todo = <<>>
  /\ IF rev THEN cpc' = "revert" /\ UNCHANGED say
            ELSE cpc' = "print" /\ say' = <<Say("status", NoName, ccmd.id)>>
  /\ UNCHANGED <<ccmd, todo, rev, stores, pipes, daemon, observers>>

\* Seeded fault: the changes stay staged.
Revert_bug ==
  /\ cpc = "revert" /\ cpc' = "rm_fault"
  /\ UNCHANGED <<ccmd, say, todo, rev, stores, pipes, daemon, observers>>

\* UCI_REVERT of every package with changes, whoever made them.
Revert ==
  /\ cpc = "revert" /\ cpc' = "rm_fault"
  /\ staged' = config
  /\ UNCHANGED <<ccmd, say, todo, rev, command_file, fault_file, config, pipes,
                 daemon, observers>>

\* UCI_COMMIT of everything staged.
Commit ==
  /\ cpc = "commit"
  /\ config' = staged
  /\ cpc' = IF ccmd.op = "apply" THEN "rm_fault" ELSE "read"
  /\ UNCHANGED <<ccmd, say, todo, rev, command_file, fault_file, staged, pipes,
                 daemon, observers>>

\* The two rm commands that end an apply.
RemoveFaultFile ==
  /\ cpc = "rm_fault" /\ cpc' = "rm_command"
  /\ fault_file' = <<>>
  /\ UNCHANGED <<ccmd, say, todo, rev, command_file, staged, config, pipes,
                 daemon, observers>>

\* Seeded fault: only the fault file is removed.
RemoveCommandFile_bug ==
  /\ cpc = "rm_command" /\ cpc' = "read"
  /\ UNCHANGED <<ccmd, say, todo, rev, stores, pipes, daemon, observers>>

RemoveCommandFile ==
  /\ cpc = "rm_command" /\ cpc' = "read"
  /\ command_file' = <<>>
  /\ UNCHANGED <<ccmd, say, todo, rev, fault_file, staged, config, pipes,
                 daemon, observers>>

\* Seeded fault: after the status line the files are removed, not committed.
AfterEcho_bug ==
  CASE ccmd.op # "apply" -> "read"
    [] ccmd.op = "apply" /\ Head(say).what = "fault" /\ rev -> "eval"
    [] OTHER -> "rm_fault"

\* Where the script goes when its lines are out: an apply that printed the
\* fault file removes the files, one that printed a fault of its own goes on
\* evaluating, one that printed the status commits.
AfterEcho ==
  CASE ccmd.op # "apply" -> "read"
    [] ccmd.op = "apply" /\ Head(say).what = "status" -> "commit"
    [] ccmd.op = "apply" /\ Head(say).what = "fault" /\ rev -> "eval"
    [] OTHER -> "rm_fault"

\* One line into the output pipe, when there is room.
EchoLine ==
  /\ cpc = "print" /\ Len(outp) < OutCap
  /\ outp' = Append(outp, Head(say))
  /\ say' = Tail(say)
  /\ cpc' = IF Tail(say) = <<>> THEN AfterEcho ELSE "print"
  /\ UNCHANGED <<ccmd, todo, rev, inp, stores, daemon, observers>>

\* add_object and delete_object: staged and a status line, or a fault line.
\* An add whose command fails prints a status line without an instance.
AddOrDeleteObject ==
  /\ \E op \in ObjectKind : ScriptReads(op)
  /\ Took
  /\ LET c == Head(inp)
     IN  \/ /\ staged' = [staged EXCEPT ![<<"object", c.name>>] = c.id]
            /\ Echo(<<Say("status", NoName, c.id)>>)
         \/ /\ UNCHANGED staged
            /\ \E what \in {"fault"} \cup (IF c.op = "add" THEN {"noinstance"} ELSE {}) :
                 Echo(<<Say(what, c.name, c.id)>>)
  /\ UNCHANGED <<command_file, fault_file, config, outp, daemon, observers>>

\* Seeded fault: the parameter key is set and nothing is committed.
ApplyObject_bug ==
  /\ ScriptReads("apply_object") /\ Took /\ ReadOn
  /\ UNCHANGED <<stores, outp, daemon, observers>>

\* apply_object: the parameter key and a commit, without an answer.
ApplyObject ==
  /\ ScriptReads("apply_object") /\ Took
  /\ cpc' = "commit" /\ UNCHANGED <<say, todo, rev>>
  /\ UNCHANGED <<stores, outp, daemon, observers>>

\* get_value, get_notification, get_name: lines for the name, or a fault.
GetParameter ==
  /\ ScriptReads("get") /\ Took
  /\ \E what \in {"value", "fault"} : Echo(<<Say(what, Head(inp).name, Head(inp).id)>>)
  /\ UNCHANGED <<stores, outp, daemon, observers>>

\* apply_service restarts services and prints nothing; "end" is answered with
\* the prompt.
ApplyService ==
  /\ ScriptReads("apply_service") /\ Took /\ ReadOn
  /\ UNCHANGED <<stores, outp, daemon, observers>>

End ==
  /\ ScriptReads("end") /\ Took
  /\ Echo(<<Say("prompt", NoName, 0)>>)
  /\ UNCHANGED <<stores, outp, daemon, observers>>

\* The process is over: killed, or exited.
Gone == cpc' = "zombie" /\ ccmd' = Plain("end") /\ say' = <<>> /\ todo' = <<>> /\ rev' = FALSE

Exit ==
  /\ ScriptReads("exit")
  /\ inp' = Tail(inp) /\ Gone
  /\ UNCHANGED <<stores, outp, daemon, observers>>

\* Requests a script would leave unfinished if it died now.
Unfinished ==
  (IF task = "rpc" /\ dpc \in {"write", "read"} THEN {req.id} ELSE {})
    \cup {inp[i].id : i \in DOMAIN inp}
    \cup (IF cpc = "commit" THEN {ccmd.id} ELSE {})

\* The script is killed, or a command it evaluates exits.  What it printed
\* can still be read; what it has not read is lost.
ScriptDies ==
  /\ Alive /\ deaths < MaxDeath
  /\ deaths' = deaths + 1
  /\ orphaned' = orphaned \cup (Unfinished \ {0})
  /\ Gone /\ inp' = <<>>
  /\ UNCHANGED <<outp, stores, daemon, nreq, verdict, listed>>

-----------------------------------------------------------------------------
DaemonStep == \/ ExternalWritePipe \/ ReadLine \/ ReadPrompt \/ ReadEof
              \/ ExternalExit

ScriptStep == \/ SetValue \/ SetNotification \/ Apply \/ EvalLine \/ EvalDone
              \/ Revert \/ Commit \/ RemoveFaultFile \/ RemoveCommandFile
              \/ EchoLine \/ AddOrDeleteObject \/ ApplyObject \/ GetParameter
              \/ ApplyService \/ End \/ Exit

Next == \/ ExternalInit
        \/ \E kind \in Kind : \E names \in NameLists(kind) : Request(kind, names)
        \/ EndSession
        \/ DaemonStep
        \/ ScriptStep
        \/ ScriptDies

Spec == Init /\ [][Next]_vars

\* Neither process is starved by the kernel, and the commands the script runs
\* return.
FairSpec == Spec /\ WF_vars(DaemonStep) /\ WF_vars(ScriptStep)
-----------------------------------------------------------------------------
(* Properties *)

\* Every variable has its type; the pipes respect their capacity.
TypeOK ==
  /\ dpc \in {"down", "idle", "write", "read", "wait"}
  /\ task \in {"init", "rpc", "service", "exit"}
  /\ toSend \in Seq(Cmd) /\ (toSend = <<>> <=> dpc # "write")
  /\ req \in [id: Id, kind: Kind \cup {NoKind}, names: Seq(Params)]
  /\ rest \in Seq(Params) /\ list \in Seq(Line) /\ status \in Id
  /\ inp \in Seq(Cmd) /\ Len(inp) <= InCap
  /\ outp \in Seq(Line) /\ Len(outp) <= OutCap
  /\ cpc \in {"none", "zombie", "read", "print", "eval", "revert", "commit",
              "rm_fault", "rm_command"}
  /\ ccmd \in Cmd /\ say \in Seq(Line) /\ todo \in Seq(Entry) /\ rev \in BOOLEAN
  /\ command_file \in Seq(Entry) /\ fault_file \in Seq(Line)
  /\ staged \in [Slot -> Id] /\ config \in [Slot -> Id]
  /\ nreq \in Id /\ deaths \in 0 .. MaxDeath
  /\ verdict \in [Id -> {"none", "status", "fault", "list"}]
  /\ listed \subseteq Params /\ orphaned \subseteq Id

\* The daemon never waits for room in the script's input while the script
\* waits for room in its output: external_write_pipe and the script's echo
\* both block, so a handler may write several commands in a row only because
\* "set" prints nothing.
NeverBothBlocked ==
  ~(/\ dpc = "write" /\ Len(inp) = InCap
    /\ cpc = "print" /\ Len(outp) = OutCap)

\* Between two conversations nothing of the last one is left: no line in the
\* output pipe, no "end" unanswered, no status and no list in the daemon, so
\* that a request cannot be given the answer to an earlier one.
ConversationsInStep ==
  dpc = "idle" => /\ outp = <<>> /\ list = <<>> /\ status = 0
                  /\ \A i \in DOMAIN inp : inp[i].op = "apply_object"
                  /\ Alive /\ inp = <<>> => cpc \in {"read", "commit"}

\* What the ACS is told was done is done.  The answer to a Set is given after
\* the script committed all it asked for; AddObject and DeleteObject are
\* answered with the commit still on its way; a Get lists every name asked
\* for.  Excepted is a request on which the script died: the status line is
\* printed before the commit, and an end of file is read as an answer.
AnswersAreTrue ==
  (dpc = "idle" /\ req.id \notin orphaned) =>
    /\ (verdict[req.id] = "status" /\ req.kind \in SetKind) =>
         \A n \in Names(req.names) : config[<<req.kind, n>>] = req.id
    /\ (verdict[req.id] = "status" /\ req.kind \in ObjectKind) =>
         \A n \in Names(req.names) :
            \/ config[<<"object", n>>] = req.id
            \/ /\ staged[<<"object", n>>] = req.id
               /\ \/ \E i \in DOMAIN inp : inp[i].op = "apply_object"
                  \/ cpc = "commit"
    /\ verdict[req.id] = "list" => listed = Names(req.names)

\* What the ACS is told failed stays undone, in this request and in every
\* later one: no commit ever lands a change of a request answered with a
\* fault.  Excepted are a request on which the script died (its command file
\* is evaluated by the next apply) and notifications, which set_notification
\* stages at once and nothing reverts when another name of the request fails.
FaultsLeaveNoTrace ==
  \A s \in Slot : verdict[config[s]] = "fault" =>
                    s[1] = "notification" \/ config[s] \in orphaned

\* Between two conversations nothing waits that a later apply or commit could
\* land or report by accident: no staged change of an answered request, and no
\* command or fault file, except as in FaultsLeaveNoTrace.
NothingLeftBehind ==
  dpc = "idle" =>
    /\ cpc = "read" /\ inp = <<>> =>
         \A s \in Slot : staged[s] # config[s] =>
                           s[1] = "notification" \/ staged[s] \in orphaned
    /\ \A i \in DOMAIN command_file : command_file[i].id \in orphaned
    /\ \A i \in DOMAIN fault_file : fault_file[i].id \in orphaned

\* Every conversation ends, whether the script answers or dies: the daemon,
\* which has one thread and no timeout on the pipe, gets back to the ACS or
\* closes the session.
ConversationsEnd == dpc \in {"write", "read", "wait"} ~> dpc \in {"idle", "down"}

\* An object the ACS was told is added or deleted gets committed, although
\* "apply object" is never awaited, unless the script dies first.
ObjectsLand ==
  \A i \in 1 .. MaxReq : \A n \in Params :
    (/\ req.id = i /\ req.kind \in ObjectKind /\ req.names = <<n>>
     /\ verdict[i] = "status")
      ~> (config[<<"object", n>>] >= i \/ i \in orphaned)
=============================================================================
