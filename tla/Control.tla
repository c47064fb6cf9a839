------------------------------ MODULE Control ------------------------------
(***************************************************************************)
(* What the web pages set in motion: the delayed functions of web_srv.c    *)
(* (webserver_qfn, qfnk_task), the restart of the server on another port,  *)
(* the change of the WiFi mode (wifi_run), and the settings these work     *)
(* on, in RAM and in flash, up to the restart of the module.               *)
(*                                                                         *)
(* Three kinds of threads meet here.  Requests run in lwIP's thread; the   *)
(* delayed functions run in the tasks web_qfn, of which every restart of   *)
(* the server makes one more; and user_init_thrd, actor 0, brings the      *)
(* module up.  A request is one step, a delayed function one step for each *)
(* call that takes time or that another thread can see.                    *)
(*                                                                         *)
(* Of a WiFi setting the model keeps whether its value has worked since it *)
(* was last changed, in RAM (worked) and in flash (saved).  One write of   *)
(* the flash is one step; FlashEep is about what happens inside it.        *)
(***************************************************************************)
EXTENDS Integers, Sequences, FiniteSets

CONSTANTS
  Ports,      \* TCP ports other than 0
  Modes,      \* sets of what a WiFi mode starts: RTW_MODE_NONE is {}
  QLen,       \* length of the queue
  MaxTasks,   \* bound: tasks the heap has room for
  MaxReqs,    \* bound: requests and power failures
  Faults      \* "heap": no memory for a server; "bind": its port is not
              \* free; "power": it fails

NoPort == 0
Part == {"ap", "st"}
Obj == Part \cup {"mode"}

ASSUME ControlAssumption ==
  /\ Ports \subseteq Nat \ {0} /\ Ports # {}
  /\ Modes \subseteq SUBSET Part
  /\ {QLen, MaxTasks, MaxReqs} \subseteq Nat \ {0}
  /\ Faults \subseteq {"heap", "bind", "power"}

VARIABLES
  queue,      \* xQueueWebSrv
  tasks,      \* tasks web_qfn, numbered from 1
  pend, due,  \* qfnt of each task, and whether its pause is over
  job,        \* what each thread is doing
  port,       \* syscfg.web_port
  savedPort,  \* the same in flash
  servers,    \* ports a server listens on
  promised,   \* servers with a connection that has SCB_SYSSAVE
  missed,     \* history: why a restart of the server did not take place
  mode, savedMode,  \* wifi_cfg.mode
  wifiMode,   \* the radio's own wifi_mode
  runMode,    \* wifi_run_mode
  worked, saved,    \* settings in RAM, in flash, that have worked
  cause,      \* history: what else than success got settings saved
  reqs        \* bound

delayed == <<queue, tasks, pend, due>>
web == <<port, savedPort, servers, promised, missed>>
wifi == <<mode, savedMode, wifiMode, runMode, worked, saved, cause>>
vars == <<delayed, job, web, wifi, reqs>>

Actor == 0 .. MaxTasks
Task == 1 .. MaxTasks

Item == [fn : {"reset", "reinit", "run", "host"}, port : Ports \cup {NoPort},
         mode : Modes \cup {{}}, wait : BOOLEAN]

NoItem == [fn |-> "none"]

Job == [pc : {"idle", "reset", "host", "close", "queue", "task", "listen",
              "off", "on", "start", "part", "wait", "save"},
        port : Ports \cup {NoPort}, mode : Modes \cup {{}}, left : SUBSET Part,
        part : Part \cup {"none"}, ok : BOOLEAN, tried : SUBSET Obj]

TypeOK ==
  /\ queue \in Seq(Item) /\ Len(queue) <= QLen
  /\ tasks \in Actor
  /\ pend \in [Task -> Item \cup {NoItem}] /\ due \in [Task -> BOOLEAN]
  /\ job \in [Actor -> Job]
  /\ port \in Ports \cup {NoPort} /\ savedPort \in Ports \cup {NoPort}
  /\ servers \subseteq Ports /\ promised \subseteq servers
  /\ missed \subseteq {"full", "replaced", "lost", "overtaken", "failed"}
  /\ {mode, savedMode, wifiMode, runMode} \subseteq Modes \cup {{}}
  /\ worked \subseteq Obj /\ saved \subseteq Obj
  /\ cause \subseteq {"asked", "edited", "ignored", "crossed"}
  /\ reqs \in 0 .. MaxReqs

-----------------------------------------------------------------------------
(* webserver_qfn and the queue.                                            *)

Delayed(fn) == [fn |-> fn, port |-> NoPort, mode |-> {}, wait |-> TRUE]

Reinit(p) == [Delayed("reinit") EXCEPT !.port = p]

(* a restart of the server among the items, given up for a reason          *)
Miss(items, why) == IF \E i \in items : i.fn = "reinit" THEN {why} ELSE {}

\* Mutant: the test for a full queue is off by one
QueuedPast(i) ==
  \/ /\ Len(queue) <= QLen
     /\ queue' = Append(queue, i)
     /\ UNCHANGED missed
  \/ /\ Len(queue) > QLen
     /\ missed' = missed \cup Miss({i}, "full")
     /\ UNCHANGED queue

Queued(i) ==
  \/ /\ Len(queue) < QLen
     /\ queue' = Append(queue, i)
     /\ UNCHANGED missed
  \/ /\ Len(queue) = QLen
     /\ missed' = missed \cup Miss({i}, "full")
     /\ UNCHANGED queue

-----------------------------------------------------------------------------
(* Requests, in lwIP's thread.  They come through a server.                *)

Request == servers # {} /\ reqs < MaxReqs /\ reqs' = reqs + 1

\* Mutant: the new port is written before the old one is handed over
CfgPortLate(p) ==
  /\ Request /\ p # port
  /\ Queued(Reinit(p))
  /\ port' = p
  /\ UNCHANGED <<tasks, pend, due, job, savedPort, servers, promised, wifi>>

CfgPort(p) ==
  /\ Request /\ p # port
  /\ Queued(Reinit(port))
  /\ port' = p
  /\ UNCHANGED <<tasks, pend, due, job, savedPort, servers, promised, wifi>>

(* sys_restart; wifi_newcfg; the host name of the access point, whose      *)
(* pause_ms is not initialized, or of the station, with none               *)
Ask(i) ==
  /\ Request
  /\ Queued(i)
  /\ UNCHANGED <<tasks, pend, due, job, port, savedPort, servers, promised, wifi>>

SysRestart == Ask(Delayed("reset"))
NewCfg == Ask([Delayed("run") EXCEPT !.mode = mode])
Hostname == \E wait \in BOOLEAN : Ask([Delayed("host") EXCEPT !.wait = wait])

(* cfg_save: at once, or when the connection closes                        *)
SaveNow ==
  /\ Request
  /\ savedPort' = port
  /\ UNCHANGED <<delayed, job, port, servers, promised, missed, wifi>>

SaveAtClose(p) ==
  /\ Request /\ p \in servers
  /\ promised' = promised \cup {p}
  /\ UNCHANGED <<delayed, job, port, savedPort, servers, missed, wifi>>

ConnCloses(p) ==
  /\ p \in promised
  /\ promised' = promised \ {p}
  /\ savedPort' = port
  /\ UNCHANGED <<delayed, job, port, servers, missed, wifi, reqs>>

(* values in RAM change that some of the threads are trying                *)
Changed(objs, threads) ==
  /\ cause' = cause \cup IF \E a \in threads : job[a].tried \cap objs # {}
                         THEN {"edited"} ELSE {}
  /\ job' = [a \in Actor |->
               IF a \in threads THEN [job[a] EXCEPT !.tried = @ \ objs] ELSE job[a]]

\* of the access point, the station, or the radio in general
Edit(o) ==
  /\ Request /\ o \in Obj
  /\ worked' = worked \ {o}
  /\ Changed({o}, Actor)
  /\ UNCHANGED <<delayed, web, mode, savedMode, wifiMode, runMode, saved>>

\* wifi_run writes its own mode over it before it saves
SetMode(m) ==
  /\ Request /\ m # mode
  /\ mode' = m /\ worked' = worked \ {"mode"}
  /\ Changed({"mode"}, {a \in Actor : job[a].pc = "save"})
  /\ UNCHANGED <<delayed, web, savedMode, wifiMode, runMode, saved>>

(* wifi_rdcfg and wifi_save, for some of the settings                      *)
Put(to, from, objs) == (to \ objs) \cup (from \cap objs)

RdCfg(objs) ==
  /\ Request /\ objs # {}
  /\ worked' = Put(worked, saved, objs)
  /\ mode' = IF "mode" \in objs THEN savedMode ELSE mode
  /\ Changed(objs, Actor)
  /\ UNCHANGED <<delayed, web, savedMode, wifiMode, runMode, saved>>

WifiSave(objs) ==
  /\ Request /\ objs # {}
  /\ saved' = Put(saved, worked, objs)
  /\ savedMode' = IF "mode" \in objs THEN mode ELSE savedMode
  /\ cause' = cause \cup {"asked"}
  /\ UNCHANGED <<delayed, job, web, mode, wifiMode, runMode, worked>>

-----------------------------------------------------------------------------
(* qfnk_task.                                                              *)

Idle == [pc |-> "idle", port |-> NoPort, mode |-> {}, left |-> {},
         part |-> "none", ok |-> TRUE, tried |-> {}]

WifiRun(m) == [Idle EXCEPT !.pc = "off", !.mode = m, !.left = m]
WebserverInit(p) == [Idle EXCEPT !.pc = "queue", !.port = p]

Called(i) ==
  CASE i.fn = "reset"  -> [Idle EXCEPT !.pc = "reset"]
    [] i.fn = "host"   -> [Idle EXCEPT !.pc = "host"]
    [] i.fn = "reinit" -> [Idle EXCEPT !.pc = "close", !.port = i.port]
    [] i.fn = "run"    -> WifiRun(i.mode)

Free(t) == t \in 1 .. tasks /\ job[t].pc = "idle"

(* an item with a pause takes the place of the one that waits              *)
ReceiveWait(t) ==
  /\ Free(t) /\ queue # <<>> /\ Head(queue).wait
  /\ queue' = Tail(queue)
  /\ missed' = missed \cup Miss({pend[t]}, "replaced")
  /\ pend' = [pend EXCEPT ![t] = Head(queue)]
  /\ due' = [due EXCEPT ![t] = FALSE]
  /\ UNCHANGED <<tasks, job, port, savedPort, servers, promised, wifi, reqs>>

ReceiveRun(t) ==
  /\ Free(t) /\ queue # <<>> /\ ~Head(queue).wait
  /\ queue' = Tail(queue)
  /\ job' = [job EXCEPT ![t] = Called(Head(queue))]
  /\ UNCHANGED <<tasks, pend, due, web, wifi, reqs>>

\* Mutant: the time of the last look is kept, not that of the request
PassesAnew(t) ==
  /\ t \in 1 .. tasks /\ pend[t] # NoItem /\ ~due[t]
  /\ due' = [due EXCEPT ![t] = FALSE]
  /\ UNCHANGED <<queue, tasks, pend, job, web, wifi, reqs>>

Passes(t) ==
  /\ t \in 1 .. tasks /\ pend[t] # NoItem /\ ~due[t]
  /\ due' = [due EXCEPT ![t] = TRUE]
  /\ UNCHANGED <<queue, tasks, pend, job, web, wifi, reqs>>

RunPending(t) ==
  /\ Free(t) /\ queue = <<>> /\ due[t] /\ pend[t] # NoItem
  /\ job' = [job EXCEPT ![t] = Called(pend[t])]
  /\ pend' = [pend EXCEPT ![t] = NoItem]
  /\ UNCHANGED <<queue, tasks, due, web, wifi, reqs>>

(* user_init_thrd goes on with webserver_init; a task goes back to the     *)
(* queue                                                                   *)
Returned(a) == IF a = 0 THEN WebserverInit(port) ELSE Idle

WriteHost(t) ==
  /\ job[t].pc = "host"
  /\ job' = [job EXCEPT ![t] = Idle]
  /\ UNCHANGED <<delayed, web, wifi, reqs>>

-----------------------------------------------------------------------------
(* webserver_reinit and webserver_init.                                    *)

Opening(p) == {a \in Actor : job[a].pc \in {"queue", "task", "listen"} /\ job[a].port = p}

(* tcpsrv_close ends the connections of the server, which may save; the    *)
(* new port is read after that.  A server that another task is about to    *)
(* open is not found yet.                                                  *)
\* Mutant: ending a connection here does not save
CloseServerForgets(t) ==
  /\ job[t].pc = "close"
  /\ servers' = servers \ {job[t].port}
  /\ promised' = promised \ {job[t].port}
  /\ job' = [job EXCEPT ![t] = IF port = NoPort THEN Idle ELSE WebserverInit(port)]
  /\ UNCHANGED <<delayed, port, savedPort, missed, wifi, reqs>>

CloseServer(t) ==
  /\ job[t].pc = "close"
  /\ servers' = servers \ {job[t].port}
  /\ promised' = promised \ {job[t].port}
  /\ savedPort' = IF job[t].port \in promised THEN port ELSE savedPort
  /\ missed' = missed \cup IF Opening(job[t].port) # {} THEN {"overtaken"} ELSE {}
  /\ job' = [job EXCEPT ![t] = IF port = NoPort THEN Idle ELSE WebserverInit(port)]
  /\ UNCHANGED <<delayed, port, wifi, reqs>>

(* the queue in use is left behind with what is in it                      *)
CreateQueue(a) ==
  /\ job[a].pc = "queue"
  /\ queue' = <<>>
  /\ missed' = missed \cup Miss({queue[i] : i \in DOMAIN queue}, "lost")
  /\ job' = [job EXCEPT ![a].pc = "task"]
  /\ UNCHANGED <<tasks, pend, due, port, savedPort, servers, promised, wifi, reqs>>

CreateTask(a) ==
  /\ job[a].pc = "task"
  /\ \/ /\ tasks < MaxTasks
        /\ tasks' = tasks + 1
        /\ job' = [job EXCEPT ![a].pc = "listen"]
        /\ UNCHANGED missed
     \/ /\ tasks = MaxTasks
        /\ missed' = missed \cup {"failed"}
        /\ job' = [job EXCEPT ![a] = Idle]
        /\ UNCHANGED tasks
  /\ UNCHANGED <<queue, pend, due, port, savedPort, servers, promised, wifi, reqs>>

(* tcpsrv_init refuses port 0 and a port that has a server; it fails when  *)
(* there is no memory, or when lwIP does not give the port free because    *)
(* connections of the server before are in TIME_WAIT or not ended yet      *)
Listen(a) ==
  /\ job[a].pc = "listen"
  /\ \/ /\ servers' = servers \cup ({job[a].port} \ {NoPort})
        /\ UNCHANGED missed
     \/ /\ Faults \cap {"heap", "bind"} # {}
        /\ missed' = missed \cup {"failed"}
        /\ UNCHANGED servers
  /\ job' = [job EXCEPT ![a] = Idle]
  /\ UNCHANGED <<delayed, port, savedPort, promised, wifi, reqs>>

-----------------------------------------------------------------------------
(* wifi_run.                                                               *)

(* wifi_off; for RTW_MODE_NONE that is all                                 *)
RadioOff(a) ==
  /\ job[a].pc = "off"
  /\ wifiMode' = {}
  /\ \/ /\ job[a].mode # {}
        /\ job' = [job EXCEPT ![a].pc = "on"]
        /\ UNCHANGED runMode
     \/ /\ job[a].mode = {}
        /\ runMode' = {}
        /\ job' = [job EXCEPT ![a] = Returned(a)]
  /\ UNCHANGED <<delayed, web, mode, savedMode, worked, saved, cause, reqs>>

(* _wifi_on                                                                *)
RadioOn(a) ==
  /\ job[a].pc = "on"
  /\ wifiMode' = job[a].mode
  /\ job' = [job EXCEPT ![a].pc = "start"]
  /\ UNCHANGED <<delayed, web, mode, savedMode, runMode, worked, saved, cause, reqs>>

RadioFails(a) ==
  /\ job[a].pc = "start"
  /\ wifiMode' = {} /\ runMode' = {}
  /\ job' = [job EXCEPT ![a] = Returned(a)]
  /\ UNCHANGED <<delayed, web, mode, savedMode, worked, saved, cause, reqs>>

(* The driver runs; the settings of the radio and the address of the       *)
(* access point are applied.  A setting counts as tried from here, or from *)
(* the begin of its part, unless a call fails whose error is only printed. *)
RadioStarts(a) ==
  /\ job[a].pc = "start"
  /\ \E ignored \in BOOLEAN :
       /\ job' = [job EXCEPT ![a].pc = "part",
                    ![a].tried = ({"ap"} \cap job[a].left) \cup IF ignored THEN {} ELSE {"mode"}]
       /\ cause' = cause \cup IF ignored THEN {"ignored"} ELSE {}
  /\ UNCHANGED <<delayed, web, mode, savedMode, wifiMode, runMode, worked, saved, reqs>>

(* wifi_run_ap and wifi_run_st: C leaves open which one is called first    *)
BeginPart(a, o) ==
  /\ job[a].pc = "part" /\ o \in job[a].left
  /\ o \in wifiMode
  /\ \E ignored \in BOOLEAN :
       /\ job' = [job EXCEPT ![a].pc = "wait", ![a].part = o,
                    ![a].tried = IF ignored THEN @ \ {o}
                                 ELSE IF o = "ap" THEN @ ELSE @ \cup {o}]
       /\ cause' = cause \cup IF ignored THEN {"ignored"} ELSE {}
  /\ UNCHANGED <<delayed, web, mode, savedMode, wifiMode, runMode, worked, saved, reqs>>

(* another thread has set wifi_mode meanwhile: the access point reports an *)
(* error, the station does not                                             *)
SkipPart(a, o) ==
  /\ job[a].pc = "part" /\ o \in job[a].left
  /\ o \notin wifiMode
  /\ job' = [job EXCEPT ![a].left = @ \ {o}, ![a].ok = @ /\ o = "st",
                        ![a].tried = @ \ {"mode"}]
  /\ cause' = cause \cup {"crossed"}
  /\ UNCHANGED <<delayed, web, mode, savedMode, wifiMode, runMode, worked, saved, reqs>>

Ended(a, ok) ==
  job' = [job EXCEPT ![a].pc = "part", ![a].part = "none",
                     ![a].left = @ \ {job[a].part}, ![a].ok = @ /\ ok,
                     ![a].tried = @ \ {job[a].part}]

PartFails(a) ==
  /\ job[a].pc = "wait"
  /\ Ended(a, FALSE)
  /\ UNCHANGED <<delayed, web, wifi, reqs>>

\* what works is the value the start was made with
Proven(a, o) == {o} \cap job[a].tried

PartWorks(a) ==
  /\ job[a].pc = "wait"
  /\ Ended(a, TRUE)
  /\ worked' = worked \cup Proven(a, job[a].part)
  /\ saved' = Put(saved, worked', {job[a].part})
  /\ UNCHANGED <<delayed, web, mode, savedMode, wifiMode, runMode, cause, reqs>>

\* Mutant: a mode is kept although a part of it did not start
KeepsFailed(a) == TRUE

Keeps(a) == job[a].ok

\* wifi_cfg with this mode: the value that was there, or another one
Replaced(m) == IF m = mode THEN worked ELSE worked \ {"mode"}

SetRunMode(a) ==
  /\ job[a].pc = "part" /\ job[a].left = {}
  /\ runMode' = job[a].mode
  /\ \/ /\ Keeps(a)
        /\ mode' = job[a].mode
        /\ worked' = Replaced(job[a].mode)
                       \cup IF job[a].ok THEN Proven(a, "mode") ELSE {}
        /\ job' = [job EXCEPT ![a].pc = "save"]
     \/ /\ ~Keeps(a)
        /\ job' = [job EXCEPT ![a] = Returned(a)]
        /\ UNCHANGED <<mode, worked>>
  /\ UNCHANGED <<delayed, web, savedMode, wifiMode, saved, cause, reqs>>

SaveMode(a) ==
  /\ job[a].pc = "save"
  /\ savedMode' = mode
  /\ saved' = Put(saved, worked, {"mode"})
  /\ job' = [job EXCEPT ![a] = Returned(a)]
  /\ UNCHANGED <<delayed, web, mode, wifiMode, runMode, worked, cause, reqs>>

-----------------------------------------------------------------------------
(* The start of the module: settings are read, the radio is started, and   *)
(* only then is there a server.                                            *)

Booted ==
  /\ queue' = <<>> /\ tasks' = 0
  /\ pend' = [t \in Task |-> NoItem] /\ due' = [t \in Task |-> FALSE]
  /\ job' = [a \in Actor |-> IF a = 0 THEN WifiRun(savedMode) ELSE Idle]
  /\ port' = savedPort /\ mode' = savedMode /\ worked' = saved
  /\ servers' = {} /\ promised' = {} /\ missed' = {}
  /\ wifiMode' = {} /\ runMode' = {}
  /\ UNCHANGED <<savedPort, savedMode, saved, cause>>

SysReset(t) == job[t].pc = "reset" /\ Booted /\ UNCHANGED reqs

PowerFails ==
  /\ "power" \in Faults /\ reqs < MaxReqs /\ reqs' = reqs + 1
  /\ Booted

Init ==
  /\ queue = <<>> /\ tasks = 0
  /\ pend = [t \in Task |-> NoItem] /\ due = [t \in Task |-> FALSE]
  /\ savedPort \in Ports /\ port = savedPort
  /\ savedMode \in Modes /\ mode = savedMode
  /\ job = [a \in Actor |-> IF a = 0 THEN WifiRun(savedMode) ELSE Idle]
  /\ servers = {} /\ promised = {} /\ missed = {}
  /\ wifiMode = {} /\ runMode = {}
  /\ worked = Obj /\ saved = Obj /\ cause = {}
  /\ reqs = 0

Requests ==
  \/ \E p \in Ports \cup {NoPort} : CfgPort(p)
  \/ SysRestart \/ NewCfg \/ Hostname
  \/ SaveNow \/ \E p \in Ports : SaveAtClose(p)
  \/ \E o \in Obj : Edit(o)
  \/ \E m \in Modes : SetMode(m)
  \/ \E objs \in SUBSET Obj : RdCfg(objs) \/ WifiSave(objs)

Waiting(t) == ReceiveWait(t) \/ ReceiveRun(t) \/ Passes(t) \/ RunPending(t)

Working(a) ==
  \/ WriteHost(a) \/ SysReset(a)
  \/ CloseServer(a) \/ CreateQueue(a) \/ CreateTask(a) \/ Listen(a)
  \/ RadioOff(a) \/ RadioOn(a) \/ RadioFails(a) \/ RadioStarts(a)
  \/ (\E o \in Part : BeginPart(a, o) \/ SkipPart(a, o)) \/ PartFails(a) \/ PartWorks(a)
  \/ SetRunMode(a) \/ SaveMode(a)

Next ==
  \/ Requests
  \/ \E p \in Ports : ConnCloses(p)
  \/ \E t \in Task : Waiting(t)
  \/ \E a \in Actor : Working(a)
  \/ PowerFails

Spec == Init /\ [][Next]_vars

(* every task gets to run, and a pause passes                              *)
Fairness ==
  /\ \A t \in Task : WF_vars(Waiting(t))
  /\ \A a \in Actor : WF_vars(Working(a))

FairSpec == Spec /\ Fairness
-----------------------------------------------------------------------------
(* Properties.                                                             *)

Restarting ==
  \/ \E i \in DOMAIN queue : queue[i].fn = "reinit"
  \/ \E t \in Task : pend[t].fn = "reinit"
  \/ \E a \in Actor : job[a].pc \in {"close", "queue", "task", "listen"}
  \/ job[0] # Idle

(* When no restart of the server is on its way, the server listens on the  *)
(* port that is set and on no other, unless a restart was given up for one *)
(* of five reasons: the queue was full, another function with a pause      *)
(* replaced it, it was left behind in an old queue, it came before the     *)
(* server it was to close, or the server could not be opened.              *)
ServerFollowsPort ==
  ~Restarting /\ missed = {} => servers = {port} \ {NoPort}

(* What the module comes up with after a restart has worked: "saved on     *)
(* success" (wifi_user_set.h:25) holds unless the user asked for a save or *)
(* changed a value while it was being tried, the driver refused a value    *)
(* with an error that is only printed, or two threads ran wifi_run at a    *)
(* time and one found the radio in a mode that was not its own.            *)
SavedHasWorked == saved # Obj => cause # {}

(* cfg_save=2 is kept: a connection that has asked for it does not end     *)
(* without the settings of that moment being written, unless the module    *)
(* restarts.                                                               *)
PromiseKept ==
  [][promised \ promised' # {} => savedPort' = port' \/ tasks' = 0]_vars

(* A restart of the server comes to an end, and with ServerFollowsPort the *)
(* pages are back.  Every function with a pause that is asked for later    *)
(* begins the pause anew, so this is for requests that cease.              *)
RestartEnds == Restarting ~> ~Restarting
=============================================================================
