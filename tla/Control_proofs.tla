--------------------------- MODULE Control_proofs ---------------------------
(***************************************************************************)
(* Theorems about Control: its type invariant, that what is in flash has   *)
(* worked, that a save promised for the close of a connection is made,     *)
(* that the server follows the port, and that a restart gets on.           *)
(***************************************************************************)
EXTENDS Control, SequenceTheorems, TLAPS

(* A thread that tries a part is known by it.                              *)
PartOK == \A a \in Actor : job[a].pc = "wait" => job[a].part \in Part

TInv == TypeOK /\ PartOK

(* What a thread that runs the radio is about to find working is what it   *)
(* has tried: the mode until it is saved, the access point from the start  *)
(* of the radio to its own end, the part it waits for.                     *)
TriedOK(a) ==
  /\ job[a].pc \in {"part", "wait", "save"} => "mode" \in job[a].tried
  /\ job[a].pc \in {"part", "wait"} /\ "ap" \in job[a].left => "ap" \in job[a].tried
  /\ job[a].pc = "wait" => job[a].part \in job[a].tried

(* As long as there is no cause for anything else, what is in flash has    *)
(* worked, and so has a mode that is about to be saved.                    *)
SavedInv ==
  cause = {} => /\ saved = Obj
                /\ \A a \in Actor : job[a].pc = "save" => "mode" \in worked
                /\ \A a \in Actor : TriedOK(a)

(* A restart of the server that is to close port s                         *)
Owed(s) ==
  \/ \E i \in DOMAIN queue : queue[i].fn = "reinit" /\ queue[i].port = s
  \/ \E t \in Task : pend[t].fn = "reinit" /\ pend[t].port = s
  \/ \E a \in Actor : job[a].pc = "close" /\ job[a].port = s

(* A server on another port than the one set, or one that is on its way,   *)
(* will be closed; the port that is set has its server, unless a restart   *)
(* is on its way.                                                          *)
Old(s) == s \in servers \/ Opening(s) # {}

FollowInv ==
  missed = {} => /\ \A s \in Ports : Old(s) /\ s # port => Owed(s)
                 /\ Restarting \/ port = NoPort \/ port \in servers

(* Until user_init_thrd is done there is no server, hence no request, and  *)
(* no other thread has anything to do.                                     *)
BootInv ==
  job[0] # Idle =>
    /\ servers = {} /\ queue = <<>>
    /\ \A t \in Task : pend[t] = NoItem /\ job[t] = Idle
    /\ job[0].pc \notin {"close", "host", "reset"}
    /\ job[0].pc \in {"queue", "task", "listen"} => job[0].port = port

(* a task opens a port other than 0                                        *)
OpensOK ==
  \A t \in Task : job[t].pc \in {"queue", "task", "listen"} => job[t].port # NoPort

-----------------------------------------------------------------------------
(* Types.                                                                  *)

(* What a thread can be given to do is a job.                              *)
LEMMA JobTypes ==
  /\ Idle \in Job
  /\ \A m \in Modes \cup {{}} : WifiRun(m) \in Job
  /\ \A p \in Ports \cup {NoPort} : WebserverInit(p) \in Job
  /\ \A i \in Item : Called(i) \in Job
<1>1. Idle \in Job
  BY DEF Idle, Job
<1>2. ASSUME NEW m \in Modes \cup {{}} PROVE WifiRun(m) \in Job
  <2>1. m \subseteq Part
    BY ControlAssumption DEF ControlAssumption
  <2> QED BY <1>1, <2>1 DEF WifiRun, Job
<1>3. ASSUME NEW p \in Ports \cup {NoPort} PROVE WebserverInit(p) \in Job
  BY <1>1 DEF WebserverInit, Job
<1>4. ASSUME NEW i \in Item PROVE Called(i) \in Job
  <2>1. CASE i.fn = "reset"
    <3>1. Called(i) = [pc |-> "reset", port |-> NoPort, mode |-> {}, left |-> {},
                       part |-> "none", ok |-> TRUE, tried |-> {}]
      BY <2>1 DEF Called, Idle
    <3> QED BY <3>1 DEF Job
  <2>2. CASE i.fn = "host"
    <3>1. Called(i) = [pc |-> "host", port |-> NoPort, mode |-> {}, left |-> {},
                       part |-> "none", ok |-> TRUE, tried |-> {}]
      BY <2>2 DEF Called, Idle
    <3> QED BY <3>1 DEF Job
  <2>3. CASE i.fn = "reinit"
    <3>1. Called(i) = [pc |-> "close", port |-> i.port, mode |-> {}, left |-> {},
                       part |-> "none", ok |-> TRUE, tried |-> {}]
      BY <2>3 DEF Called, Idle
    <3>2. i.port \in Ports \cup {NoPort}
      BY DEF Item
    <3> QED BY <3>1, <3>2 DEF Job
  <2>4. CASE i.fn = "run"
    <3>1. Called(i) = WifiRun(i.mode)
      BY <2>4 DEF Called
    <3>2. i.mode \in Modes \cup {{}}
      BY DEF Item
    <3> QED BY <3>1, <3>2, <1>2
  <2> QED BY <2>1, <2>2, <2>3, <2>4 DEF Item
<1> QED BY <1>1, <1>2, <1>3, <1>4

(* A request for a delayed function is an item.                            *)
LEMMA ItemTypes ==
  /\ \A fn \in {"reset", "host"} : Delayed(fn) \in Item
  /\ \A p \in Ports \cup {NoPort} : Reinit(p) \in Item
  /\ \A m \in Modes \cup {{}} : [Delayed("run") EXCEPT !.mode = m] \in Item
  /\ \A wait \in BOOLEAN : [Delayed("host") EXCEPT !.wait = wait] \in Item
BY DEF Delayed, Reinit, Item

(* What Queued does to the queue.                                          *)
LEMMA QueuedTypes ==
  ASSUME TypeOK, NEW i \in Item, Queued(i)
  PROVE  /\ queue' \in Seq(Item) /\ Len(queue') <= QLen
         /\ missed' \subseteq {"full", "replaced", "lost", "overtaken", "failed"}
<1> USE DEF TypeOK
<1>1. CASE Len(queue) < QLen /\ queue' = Append(queue, i) /\ UNCHANGED missed
  <2>1. Append(queue, i) \in Seq(Item) /\ Len(Append(queue, i)) = Len(queue) + 1
    BY AppendProperties
  <2>2. Len(queue) \in Nat /\ QLen \in Nat
    BY LenProperties, ControlAssumption DEF ControlAssumption
  <2> QED BY <1>1, <2>1, <2>2
<1>2. CASE Len(queue) = QLen /\ missed' = missed \cup Miss({i}, "full") /\ UNCHANGED queue
  BY <1>2 DEF Miss
<1> QED BY <1>1, <1>2 DEF Queued

(* Changed leaves the jobs' pc, port, part and what is left alone.         *)
LEMMA ChangedTypes ==
  ASSUME TypeOK, NEW objs, NEW threads, Changed(objs, threads)
  PROVE  /\ job' \in [Actor -> Job]
         /\ cause' \subseteq {"asked", "edited", "ignored", "crossed"}
         /\ \A a \in Actor : /\ job'[a].pc = job[a].pc
                            /\ job'[a].port = job[a].port
                            /\ job'[a].part = job[a].part
                            /\ job'[a].left = job[a].left
<1>1. job \in [Actor -> Job]
  BY DEF TypeOK
<1>2. job' = [a \in Actor |->
               IF a \in threads THEN [job[a] EXCEPT !.tried = job[a].tried \ objs] ELSE job[a]]
  BY DEF Changed
<1>3. ASSUME NEW a \in Actor
      PROVE  /\ job'[a] \in Job
             /\ job'[a].pc = job[a].pc
             /\ job'[a].port = job[a].port
             /\ job'[a].part = job[a].part
             /\ job'[a].left = job[a].left
  <2>1. job[a] \in Job /\ job[a].tried \ objs \in SUBSET Obj
    BY <1>1 DEF Job
  <2>2. CASE a \in threads
    <3>1. job'[a] = [job[a] EXCEPT !.tried = job[a].tried \ objs]
      BY <1>2, <2>2
    <3> QED BY <2>1, <3>1 DEF Job
  <2>3. CASE a \notin threads
    <3>1. job'[a] = job[a]
      BY <1>2, <2>3
    <3> QED BY <2>1, <3>1
  <2> QED BY <2>2, <2>3
<1>4. job' \in [Actor -> Job]
  BY <1>2, <1>3
<1>5. cause' \subseteq {"asked", "edited", "ignored", "crossed"}
  BY DEF Changed, TypeOK
<1> QED BY <1>3, <1>4, <1>5

(* One thread gets another job.                                            *)
LEMMA JobUpdate ==
  ASSUME TypeOK, NEW a \in Actor, NEW j \in Job, job' = [job EXCEPT ![a] = j]
  PROVE  job' \in [Actor -> Job]
BY DEF TypeOK

\* A request keeps the types.
LEMMA RequestTypes ==
  ASSUME TypeOK, Requests
  PROVE  TypeOK'
<1> USE DEF TypeOK
<1>r. \A r \in {reqs'} : Request => r \in 0 .. MaxReqs
  BY ControlAssumption DEF Request, ControlAssumption
<1>1. ASSUME NEW p \in Ports \cup {NoPort}, CfgPort(p) PROVE TypeOK'
  <2>1. Reinit(port) \in Item
    BY ItemTypes
  <2>2. Queued(Reinit(port)) /\ Request
    BY <1>1 DEF CfgPort
  <2> QED BY <1>r, <1>1, <2>1, <2>2, QueuedTypes DEF CfgPort, wifi
<1>2. ASSUME NEW i \in Item, Ask(i) PROVE TypeOK'
  <2>1. Queued(i) /\ Request
    BY <1>2 DEF Ask
  <2> QED BY <1>r, <1>2, <2>1, QueuedTypes DEF Ask, wifi
<1>3. CASE SysRestart
  BY <1>2, <1>3, ItemTypes DEF SysRestart
<1>4. CASE NewCfg
  <2>1. [Delayed("run") EXCEPT !.mode = mode] \in Item
    BY ItemTypes
  <2> QED BY <1>2, <1>4, <2>1 DEF NewCfg
<1>5. CASE Hostname
  <2>1. PICK wait \in BOOLEAN : Ask([Delayed("host") EXCEPT !.wait = wait])
    BY <1>5 DEF Hostname
  <2>2. [Delayed("host") EXCEPT !.wait = wait] \in Item
    BY ItemTypes
  <2> QED BY <1>2, <2>1, <2>2
<1>6. CASE SaveNow
  BY <1>r, <1>6 DEF SaveNow, delayed, wifi
<1>7. ASSUME NEW p \in Ports, SaveAtClose(p) PROVE TypeOK'
  BY <1>r, <1>7 DEF SaveAtClose, delayed, wifi
<1>8. ASSUME NEW o \in Obj, Edit(o) PROVE TypeOK'
  <2>1. Changed({o}, Actor)
    BY <1>8 DEF Edit
  <2> QED BY <1>r, <1>8, <2>1, ChangedTypes DEF Edit, delayed, web
<1>9. ASSUME NEW m \in Modes, SetMode(m) PROVE TypeOK'
  <2>1. PICK threads : Changed({"mode"}, threads)
    BY <1>9 DEF SetMode
  <2> QED BY <1>r, <1>9, <2>1, ChangedTypes DEF SetMode, delayed, web
<1>10. ASSUME NEW objs \in SUBSET Obj, RdCfg(objs) PROVE TypeOK'
  <2>1. Changed(objs, Actor)
    BY <1>10 DEF RdCfg
  <2>2. worked' \subseteq Obj /\ mode' \in Modes \cup {{}}
    BY <1>10 DEF RdCfg, Put
  <2> QED BY <1>r, <1>10, <2>1, <2>2, ChangedTypes DEF RdCfg, delayed, web
<1>11. ASSUME NEW objs \in SUBSET Obj, WifiSave(objs) PROVE TypeOK'
  <2>1. saved' \subseteq Obj /\ savedMode' \in Modes \cup {{}}
    BY <1>11 DEF WifiSave, Put
  <2> QED BY <1>r, <1>11, <2>1 DEF WifiSave, delayed, web
<1> QED
  BY <1>1, <1>3, <1>4, <1>5, <1>6, <1>7, <1>8, <1>9, <1>10, <1>11 DEF Requests

\* The look of a task at its queue and its pause keeps the types.
LEMMA WaitingTypes ==
  ASSUME TypeOK, NEW t \in Task, Waiting(t)
  PROVE  TypeOK'
<1> USE DEF TypeOK
<1>0. t \in Actor
  BY ControlAssumption DEF Task, Actor, ControlAssumption
<1>1. ASSUME queue # <<>>
      PROVE  /\ Head(queue) \in Item
             /\ Tail(queue) \in Seq(Item) /\ Len(Tail(queue)) <= QLen
  <2>1. Head(queue) \in Item /\ Tail(queue) \in Seq(Item)
    BY <1>1, HeadTailProperties
  <2>2. Len(Tail(queue)) = Len(queue) - 1
    BY <1>1, HeadTailProperties
  <2>3. Len(queue) \in Nat /\ QLen \in Nat
    BY LenProperties, ControlAssumption DEF ControlAssumption
  <2> QED BY <2>1, <2>2, <2>3
<1>2. CASE ReceiveWait(t)
  BY <1>1, <1>2 DEF ReceiveWait, Miss, wifi
<1>3. CASE ReceiveRun(t)
  <2>1. Called(Head(queue)) \in Job
    BY <1>1, <1>3, JobTypes DEF ReceiveRun
  <2>2. job' \in [Actor -> Job]
    BY <1>0, <1>3, <2>1, JobUpdate DEF ReceiveRun
  <2> QED BY <1>1, <1>3, <2>2 DEF ReceiveRun, web, wifi
<1>4. CASE Passes(t)
  BY <1>4 DEF Passes, web, wifi
<1>5. CASE RunPending(t)
  <2>1. Called(pend[t]) \in Job
    BY <1>5, JobTypes DEF RunPending
  <2>2. job' \in [Actor -> Job]
    BY <1>0, <1>5, <2>1, JobUpdate DEF RunPending
  <2> QED BY <1>5, <2>2 DEF RunPending, web, wifi
<1> QED
  BY <1>2, <1>3, <1>4, <1>5 DEF Waiting

\* The start of the module sets everything to its type.
LEMMA BootedTypes ==
  ASSUME TypeOK, Booted
  PROVE  /\ queue' \in Seq(Item) /\ Len(queue') <= QLen
         /\ tasks' \in Actor
         /\ pend' \in [Task -> Item \cup {NoItem}] /\ due' \in [Task -> BOOLEAN]
         /\ job' \in [Actor -> Job]
         /\ port' \in Ports \cup {NoPort} /\ savedPort' \in Ports \cup {NoPort}
         /\ servers' \subseteq Ports /\ promised' \subseteq servers'
         /\ missed' = {}
         /\ {mode', savedMode', wifiMode', runMode'} \subseteq Modes \cup {{}}
         /\ worked' \subseteq Obj /\ saved' \subseteq Obj
         /\ cause' \subseteq {"asked", "edited", "ignored", "crossed"}
<1> USE DEF TypeOK
<1>1. WifiRun(savedMode) \in Job /\ Idle \in Job
  BY JobTypes
<1>2. job' \in [Actor -> Job]
  BY <1>1 DEF Booted
<1>3. 0 \in Actor /\ QLen \in Nat
  BY ControlAssumption DEF Actor, ControlAssumption
<1>4. queue' \in Seq(Item) /\ Len(queue') = 0
  BY EmptySeq DEF Booted
<1> QED BY <1>2, <1>3, <1>4 DEF Booted

(* the end of a part, as a job                                             *)
LEMMA EndedJob ==
  ASSUME NEW j \in Job, NEW left \in SUBSET Part, NEW ok \in BOOLEAN, NEW tried \in SUBSET Obj
  PROVE  [j EXCEPT !.pc = "part", !.part = "none", !.left = left, !.ok = ok,
                   !.tried = tried] \in Job
BY DEF Job

(* The steps of wifi_run between the stop of the radio and its end         *)
Radio(a) ==
  RadioOn(a) \/ RadioStarts(a) \/ \E o \in Part : BeginPart(a, o) \/ SkipPart(a, o)

(* They concern the thread alone, and nothing but the radio.               *)
LEMMA RadioStep ==
  ASSUME TypeOK, NEW a \in Actor, Radio(a)
  PROVE  /\ job' \in [Actor -> Job]
         /\ \A b \in Actor \ {a} : job'[b] = job[b]
         /\ job'[a].port = job[a].port
         /\ \/ job[a].pc = "on" /\ job'[a].pc = "start" /\ job'[a].left = job[a].left
            \/ job[a].pc = "start" /\ job'[a].pc = "part" /\ job'[a].left = job[a].left
            \/ /\ job[a].pc = "part" /\ job'[a].pc = "wait" /\ job'[a].left = job[a].left
               /\ job'[a].part \in Part /\ job'[a].part \in job[a].left
            \/ /\ job[a].pc = "part" /\ job'[a].pc = "part"
               /\ \E o \in Part : o \in job[a].left /\ job'[a].left = job[a].left \ {o}
         /\ wifiMode' \in Modes \cup {{}}
         /\ cause \subseteq cause' /\ cause' \subseteq {"asked", "edited", "ignored", "crossed"}
         /\ UNCHANGED <<delayed, web, mode, savedMode, runMode, worked, saved, reqs>>
<1>0. /\ job \in [Actor -> Job] /\ job[a] \in Job
      /\ job[a].left \in SUBSET Part /\ job[a].tried \in SUBSET Obj
      /\ job[a].ok \in BOOLEAN /\ job[a].mode \in Modes \cup {{}}
  BY DEF TypeOK, Job
<1>1. CASE RadioOn(a)
  <2>1. [job[a] EXCEPT !.pc = "start"] \in Job
    BY <1>0 DEF Job
  <2>2. job' = [job EXCEPT ![a] = [job[a] EXCEPT !.pc = "start"]]
    BY <1>1 DEF RadioOn
  <2>3. job' \in [Actor -> Job] /\ \A b \in Actor \ {a} : job'[b] = job[b]
    BY <1>0, <2>1, <2>2
  <2>4. job'[a].pc = "start" /\ job'[a].port = job[a].port /\ job'[a].left = job[a].left
    BY <1>0, <2>2 DEF Job
  <2> QED BY <1>0, <1>1, <2>3, <2>4 DEF RadioOn, TypeOK
<1>2. CASE RadioStarts(a)
  <2>1. PICK ignored \in BOOLEAN :
          /\ job' = [job EXCEPT ![a].pc = "part",
                       ![a].tried = ({"ap"} \cap job[a].left) \cup
                                    IF ignored THEN {} ELSE {"mode"}]
          /\ cause' = cause \cup IF ignored THEN {"ignored"} ELSE {}
    BY <1>2 DEF RadioStarts
  <2> DEFINE tried == ({"ap"} \cap job[a].left) \cup IF ignored THEN {} ELSE {"mode"}
  <2>2. tried \in SUBSET Obj
    BY <1>0 DEF Obj, Part
  <2>3. job' = [job EXCEPT ![a] = [job[a] EXCEPT !.pc = "part", !.tried = tried]]
    BY <2>1
  <2> HIDE DEF tried
  <2>4. [job[a] EXCEPT !.pc = "part", !.tried = tried] \in Job
    BY <1>0, <2>2 DEF Job
  <2>5. job' \in [Actor -> Job] /\ \A b \in Actor \ {a} : job'[b] = job[b]
    BY <1>0, <2>3, <2>4
  <2>6. job'[a].pc = "part" /\ job'[a].port = job[a].port /\ job'[a].left = job[a].left
    BY <1>0, <2>3 DEF Job
  <2>7. cause \subseteq cause' /\ cause' \subseteq {"asked", "edited", "ignored", "crossed"}
    BY <2>1 DEF TypeOK
  <2> QED BY <1>2, <2>5, <2>6, <2>7 DEF RadioStarts, TypeOK
<1>3. ASSUME NEW o \in Part, BeginPart(a, o)
      PROVE  /\ job' \in [Actor -> Job]
             /\ \A b \in Actor \ {a} : job'[b] = job[b]
             /\ job'[a].port = job[a].port
             /\ job[a].pc = "part" /\ job'[a].pc = "wait" /\ job'[a].left = job[a].left
             /\ job'[a].part \in Part /\ job'[a].part \in job[a].left
             /\ cause \subseteq cause' /\ cause' \subseteq {"asked", "edited", "ignored", "crossed"}
             /\ UNCHANGED <<delayed, web, mode, savedMode, wifiMode, runMode, worked, saved, reqs>>
  <2>1. PICK ignored \in BOOLEAN :
          /\ job' = [job EXCEPT ![a].pc = "wait", ![a].part = o,
                       ![a].tried = IF ignored THEN job[a].tried \ {o}
                                    ELSE IF o = "ap" THEN job[a].tried
                                    ELSE job[a].tried \cup {o}]
          /\ cause' = cause \cup IF ignored THEN {"ignored"} ELSE {}
    BY <1>3 DEF BeginPart
  <2> DEFINE tried == IF ignored THEN job[a].tried \ {o}
                      ELSE IF o = "ap" THEN job[a].tried ELSE job[a].tried \cup {o}
  <2>2. tried \in SUBSET Obj
    BY <1>0 DEF Obj
  <2>3. job' = [job EXCEPT ![a] = [job[a] EXCEPT !.pc = "wait", !.part = o, !.tried = tried]]
    BY <2>1
  <2> HIDE DEF tried
  <2>4. [job[a] EXCEPT !.pc = "wait", !.part = o, !.tried = tried] \in Job
    BY <1>0, <2>2 DEF Job
  <2>5. job' \in [Actor -> Job] /\ \A b \in Actor \ {a} : job'[b] = job[b]
    BY <1>0, <2>3, <2>4
  <2>6. /\ job'[a].pc = "wait" /\ job'[a].port = job[a].port
        /\ job'[a].left = job[a].left /\ job'[a].part = o
    BY <1>0, <2>3 DEF Job
  <2>7. cause \subseteq cause' /\ cause' \subseteq {"asked", "edited", "ignored", "crossed"}
    BY <2>1 DEF TypeOK
  <2> QED BY <1>3, <2>5, <2>6, <2>7 DEF BeginPart
<1>4. ASSUME NEW o \in Part, SkipPart(a, o)
      PROVE  /\ job' \in [Actor -> Job]
             /\ \A b \in Actor \ {a} : job'[b] = job[b]
             /\ job'[a].port = job[a].port
             /\ job[a].pc = "part" /\ job'[a].pc = "part"
             /\ o \in job[a].left /\ job'[a].left = job[a].left \ {o}
             /\ cause \subseteq cause' /\ cause' \subseteq {"asked", "edited", "ignored", "crossed"}
             /\ UNCHANGED <<delayed, web, mode, savedMode, wifiMode, runMode, worked, saved, reqs>>
  <2> DEFINE left == job[a].left \ {o}
             ok == job[a].ok /\ o = "st"
             tried == job[a].tried \ {"mode"}
  <2>1. left \in SUBSET Part /\ tried \in SUBSET Obj
    BY <1>0
  <2>2. ok \in BOOLEAN
    BY <1>0
  <2>3. job' = [job EXCEPT ![a] = [job[a] EXCEPT !.left = left, !.ok = ok, !.tried = tried]]
    BY <1>4 DEF SkipPart
  <2>4. left = job[a].left \ {o}
    OBVIOUS
  <2> HIDE DEF left, ok, tried
  <2>5. [job[a] EXCEPT !.left = left, !.ok = ok, !.tried = tried] \in Job
    BY <1>0, <2>1, <2>2 DEF Job
  <2>6. job' \in [Actor -> Job] /\ \A b \in Actor \ {a} : job'[b] = job[b]
    BY <1>0, <2>3, <2>5
  <2>7. job'[a].pc = job[a].pc /\ job'[a].port = job[a].port /\ job'[a].left = left
    BY <1>0, <2>3 DEF Job
  <2>8. cause \subseteq cause' /\ cause' \subseteq {"asked", "edited", "ignored", "crossed"}
    BY <1>4 DEF SkipPart, TypeOK
  <2> QED BY <1>4, <2>4, <2>6, <2>7, <2>8 DEF SkipPart
<1>5. CASE \E o \in Part : BeginPart(a, o) \/ SkipPart(a, o)
  BY <1>3, <1>4, <1>5 DEF TypeOK
<1> QED BY <1>1, <1>2, <1>5 DEF Radio

\* A step of a delayed function or of the start keeps the types.
LEMMA WorkingTypes ==
  ASSUME TypeOK, PartOK, NEW a \in Actor, Working(a)
  PROVE  TypeOK'
<1> USE DEF TypeOK
<1>0. /\ Idle \in Job /\ job[a] \in Job
      /\ WebserverInit(port) \in Job /\ Returned(a) \in Job
  BY JobTypes DEF Returned
<1>1. CASE WriteHost(a)
  BY <1>0, <1>1, JobUpdate DEF WriteHost, delayed, web, wifi
<1>2. CASE SysReset(a)
  BY <1>2, BootedTypes DEF SysReset
<1>3. CASE CloseServer(a)
  <2>1. job' \in [Actor -> Job]
    BY <1>0, <1>3, JobUpdate DEF CloseServer
  <2> QED BY <1>3, <2>1 DEF CloseServer, delayed, wifi
<1>4. CASE CreateQueue(a)
  <2>1. [job[a] EXCEPT !.pc = "task"] \in Job
    BY <1>0 DEF Job
  <2>2. job' \in [Actor -> Job]
    BY <2>1, <1>4, JobUpdate DEF CreateQueue
  <2>3. queue' \in Seq(Item) /\ Len(queue') <= QLen
    BY <1>4, EmptySeq, ControlAssumption DEF CreateQueue, ControlAssumption
  <2> QED BY <1>4, <2>2, <2>3 DEF CreateQueue, Miss, wifi
<1>5. CASE CreateTask(a)
  <2>1. [job[a] EXCEPT !.pc = "listen"] \in Job
    BY <1>0 DEF Job
  <2>2. job' \in [Actor -> Job]
    BY <1>0, <2>1, <1>5, JobUpdate DEF CreateTask
  <2>3. tasks' \in Actor
    BY <1>5, ControlAssumption DEF CreateTask, Actor, ControlAssumption
  <2> QED BY <1>5, <2>2, <2>3 DEF CreateTask, wifi
<1>6. CASE Listen(a)
  <2>1. job' \in [Actor -> Job]
    BY <1>0, <1>6, JobUpdate DEF Listen
  <2>2. servers' \subseteq Ports /\ servers \subseteq servers'
    BY <1>0, <1>6 DEF Listen, Job
  <2> QED BY <1>6, <2>1, <2>2 DEF Listen, delayed, wifi
<1>7. CASE RadioOff(a)
  <2>1. [job[a] EXCEPT !.pc = "on"] \in Job
    BY <1>0 DEF Job
  <2>2. job' \in [Actor -> Job]
    BY <1>0, <2>1, <1>7, JobUpdate DEF RadioOff
  <2> QED BY <1>7, <2>2 DEF RadioOff, delayed, web
<1>8. CASE Radio(a)
  <2>1. /\ UNCHANGED <<queue, tasks, pend, due, port, savedPort, servers, promised, missed>>
        /\ UNCHANGED <<mode, savedMode, runMode, worked, saved, reqs>>
    BY <1>8, RadioStep DEF delayed, web
  <2>2. /\ job' \in [Actor -> Job] /\ wifiMode' \in Modes \cup {{}}
        /\ cause' \subseteq {"asked", "edited", "ignored", "crossed"}
    BY <1>8, RadioStep
  <2> QED BY <2>1, <2>2
<1>8a. CASE RadioFails(a)
  <2>1. job' \in [Actor -> Job]
    BY <1>0, <1>8a, JobUpdate DEF RadioFails
  <2> QED BY <1>8a, <2>1 DEF RadioFails, delayed, web
<1>9. ASSUME NEW ok \in BOOLEAN, Ended(a, ok) PROVE job' \in [Actor -> Job]
  <2> DEFINE j == [job[a] EXCEPT !.pc = "part", !.part = "none",
                                 !.left = @ \ {job[a].part}, !.ok = @ /\ ok,
                                 !.tried = @ \ {job[a].part}]
  <2>1. /\ (job[a].left \ {job[a].part}) \in SUBSET Part
        /\ (job[a].tried \ {job[a].part}) \in SUBSET Obj
        /\ job[a].ok \in BOOLEAN
    BY <1>0 DEF Job
  <2>2. (job[a].ok /\ ok) \in BOOLEAN
    BY <2>1
  <2>3. j \in Job
    BY <1>0, <2>1, <2>2, EndedJob
  <2>4. job' = [job EXCEPT ![a] = j]
    BY <1>9 DEF Ended
  <2> HIDE DEF j
  <2> QED BY <2>3, <2>4, JobUpdate
<1>10. CASE PartFails(a)
  BY <1>9, <1>10 DEF PartFails, delayed, web, wifi
<1>11. CASE PartWorks(a)
  <2>1. job' \in [Actor -> Job]
    BY <1>9, <1>11 DEF PartWorks
  <2>2. worked' \subseteq Obj /\ saved' \subseteq Obj
    <3>1. job[a].part \in Obj
      <4>1. job[a].pc = "wait"
        BY <1>11 DEF PartWorks
      <4>2. job[a].part \in Part
        BY <4>1 DEF PartOK
      <4> QED BY <4>2 DEF Obj
    <3> QED BY <1>11, <3>1 DEF PartWorks, Put, Proven
  <2> QED BY <1>11, <2>1, <2>2 DEF PartWorks, delayed, web
<1>12. CASE SetRunMode(a)
  <2>1. [job[a] EXCEPT !.pc = "save"] \in Job
    BY <1>0 DEF Job
  <2>2. job' \in [Actor -> Job]
    <3>1. CASE Keeps(a)
      <4>1. job' = [job EXCEPT ![a] = [job[a] EXCEPT !.pc = "save"]]
        BY <1>12, <3>1 DEF SetRunMode
      <4> QED BY <2>1, <4>1, JobUpdate
    <3>2. CASE ~Keeps(a)
      BY <1>0, <1>12, <3>2, JobUpdate DEF SetRunMode
    <3> QED BY <3>1, <3>2
  <2>3. job[a].mode \in Modes \cup {{}}
    BY <1>0 DEF Job
  <2>4. worked' \subseteq Obj /\ {mode', runMode'} \subseteq Modes \cup {{}}
    BY <1>12, <2>3 DEF SetRunMode, Obj, Proven, Replaced
  <2> QED BY <1>12, <2>2, <2>4 DEF SetRunMode, delayed, web
<1>13. CASE SaveMode(a)
  <2>1. job' \in [Actor -> Job]
    BY <1>0, <1>13, JobUpdate DEF SaveMode
  <2>2. saved' \subseteq Obj
    BY <1>13 DEF SaveMode, Put
  <2> QED BY <1>13, <2>1, <2>2 DEF SaveMode, delayed, web
<1> QED
  BY <1>1, <1>2, <1>3, <1>4, <1>5, <1>6, <1>7, <1>8, <1>8a, <1>10, <1>11, <1>12, <1>13
  DEF Working, Radio

(* A job a task is called with is not yet at a part.                       *)
LEMMA CalledPc ==
  /\ \A i \in Item : Called(i).pc \notin {"part", "wait", "save"}
  /\ \A m : WifiRun(m).pc = "off"
  /\ \A p : WebserverInit(p).pc = "queue" /\ WebserverInit(p).port = p
  /\ Idle.pc = "idle"
BY DEF Called, WifiRun, WebserverInit, Idle, Item

\* A thread that works on a part of the radio has one to work on.
LEMMA PartStep ==
  ASSUME TypeOK, PartOK, Next
  PROVE  PartOK'
<1> USE DEF PartOK
<1>0. job \in [Actor -> Job] /\ \A a \in Actor : Returned(a).pc \notin {"wait", "save"}
  BY CalledPc DEF Returned, TypeOK
<1>1. ASSUME UNCHANGED job PROVE PartOK'
  BY <1>1
<1>2. CASE Requests
  <2>1. ASSUME NEW objs, NEW threads, Changed(objs, threads) PROVE PartOK'
    BY <2>1, ChangedTypes
  <2> QED BY <1>1, <1>2, <2>1
          DEF Requests, CfgPort, Ask, SysRestart, NewCfg, Hostname, SaveNow, SaveAtClose,
              Edit, SetMode, RdCfg, WifiSave
<1>3. ASSUME NEW p \in Ports, ConnCloses(p) PROVE PartOK'
  BY <1>1, <1>3 DEF ConnCloses
<1>4. ASSUME NEW t \in Task, Waiting(t) PROVE PartOK'
  <2>1. CASE ReceiveRun(t)
    <3>1. Head(queue) \in Item
      BY <2>1, HeadTailProperties DEF ReceiveRun, TypeOK
    <3> QED BY <1>0, <2>1, <3>1, CalledPc DEF ReceiveRun
  <2>2. CASE RunPending(t)
    <3>1. pend[t] \in Item
      BY <2>2 DEF RunPending, TypeOK
    <3> QED BY <1>0, <2>2, <3>1, CalledPc DEF RunPending
  <2>3. CASE ReceiveWait(t) \/ Passes(t)
    BY <1>1, <2>3 DEF ReceiveWait, Passes, web
  <2> QED BY <1>4, <2>1, <2>2, <2>3 DEF Waiting
<1>5. ASSUME Booted PROVE PartOK'
  BY <1>5, CalledPc DEF Booted
<1>6. ASSUME NEW a \in Actor, Working(a) PROVE PartOK'
  <2>1. CASE WriteHost(a)
    BY <1>0, <2>1, CalledPc DEF WriteHost
  <2>2. CASE SysReset(a)
    BY <1>5, <2>2 DEF SysReset
  <2>3. CASE CloseServer(a)
    BY <1>0, <2>3, CalledPc DEF CloseServer
  <2>4. CASE CreateQueue(a)
    BY <1>0, <2>4 DEF CreateQueue, Job
  <2>5. CASE CreateTask(a)
    BY <1>0, <2>5, CalledPc DEF CreateTask, Job
  <2>6. CASE Listen(a)
    BY <1>0, <2>6, CalledPc DEF Listen
  <2>7. CASE RadioOff(a)
    BY <1>0, <2>7 DEF RadioOff, Job
  <2>8. CASE Radio(a)
    BY <2>8, RadioStep
  <2>8a. CASE RadioFails(a)
    BY <1>0, <2>8a DEF RadioFails
  <2>9. CASE PartFails(a) \/ PartWorks(a)
    <3>1. /\ job'[a].pc = "part"
          /\ \A b \in Actor \ {a} : job'[b] = job[b]
      BY <1>0, <2>9 DEF PartFails, PartWorks, Ended, Job
    <3> QED BY <3>1
  <2>10. CASE SetRunMode(a)
    <3>1. \/ job'[a].pc = "save"
          \/ job'[a] = Returned(a)
      BY <1>0, <2>10 DEF SetRunMode, Job
    <3>2. \A b \in Actor \ {a} : job'[b] = job[b]
      BY <1>0, <2>10 DEF SetRunMode
    <3> QED BY <1>0, <3>1, <3>2
  <2>11. CASE SaveMode(a)
    BY <1>0, <2>11 DEF SaveMode
  <2> QED BY <1>6, <2>1, <2>2, <2>3, <2>4, <2>5, <2>6, <2>7, <2>8, <2>8a, <2>9, <2>10, <2>11
          DEF Working, Radio
<1> QED
  BY <1>2, <1>3, <1>4, <1>5, <1>6 DEF Next, PowerFails

\* Types and the parts that threads work on, always.
LEMMA TInvInvariant == Spec => []TInv
<1>1. Init => TInv
  <2> SUFFICES ASSUME Init PROVE TInv
    OBVIOUS
  <2>1. savedMode \in Modes \cup {{}} /\ WifiRun(savedMode) \in Job /\ Idle \in Job
    BY JobTypes DEF Init
  <2>2. job \in [Actor -> Job]
    BY <2>1 DEF Init
  <2>3. QLen \in Nat /\ 0 \in Actor /\ 0 \in 0 .. MaxReqs
    BY ControlAssumption DEF Actor, ControlAssumption
  <2>4. queue \in Seq(Item) /\ Len(queue) = 0
    BY EmptySeq DEF Init
  <2>5. TypeOK
    BY <2>1, <2>2, <2>3, <2>4 DEF Init, TypeOK
  <2>6. PartOK
    BY CalledPc DEF Init, PartOK
  <2> QED BY <2>5, <2>6 DEF TInv
<1>2. TInv /\ [Next]_vars => TInv'
  <2> SUFFICES ASSUME TypeOK, PartOK, [Next]_vars PROVE TypeOK' /\ PartOK'
    BY DEF TInv
  <2>0. PartOK'
    BY PartStep DEF vars, PartOK
  <2>1. ASSUME Requests PROVE TypeOK'
    BY <2>1, RequestTypes
  <2>2. ASSUME NEW p \in Ports, ConnCloses(p) PROVE TypeOK'
    BY <2>2 DEF ConnCloses, TypeOK, delayed, wifi
  <2>3. ASSUME NEW t \in Task, Waiting(t) PROVE TypeOK'
    BY <2>3, WaitingTypes
  <2>4. ASSUME NEW a \in Actor, Working(a) PROVE TypeOK'
    BY <2>4, WorkingTypes
  <2>5. ASSUME PowerFails PROVE TypeOK'
    BY <2>5, BootedTypes, ControlAssumption DEF PowerFails, TypeOK, ControlAssumption
  <2>6. ASSUME UNCHANGED vars PROVE TypeOK'
    BY <2>6 DEF vars, delayed, web, wifi, TypeOK
  <2> QED BY <2>0, <2>1, <2>2, <2>3, <2>4, <2>5, <2>6 DEF Next
<1> QED BY <1>1, <1>2, PTL DEF Spec

(* Type correctness: the queue stays within its length, and every thread   *)
(* has one of the jobs.                                                    *)
THEOREM TypeCorrect == Spec => []TypeOK
<1>1. TInv => TypeOK
  BY DEF TInv
<1> QED BY <1>1, TInvInvariant, PTL

-----------------------------------------------------------------------------
(* What is in flash.                                                       *)

\* A request saves something untried only with a cause noted.
LEMMA SavedRequests ==
  ASSUME TypeOK, SavedInv, Requests
  PROVE  SavedInv'
<1> SUFFICES ASSUME cause' = {} PROVE SavedInv'
  BY DEF SavedInv
<1>0. job \in [Actor -> Job] /\ \A a \in Actor : job[a] \in Job
  BY DEF TypeOK
<1>1. CASE UNCHANGED <<saved, worked, job, cause>>
  BY <1>1 DEF SavedInv, TriedOK
<1>2. ASSUME NEW objs, NEW threads \in SUBSET Actor, Changed(objs, threads)
      PROVE  /\ cause = {} /\ job' = job
             /\ \A a \in threads : job[a].tried \cap objs = {}
  <2>1. cause = {} /\ \A a \in threads : job[a].tried \cap objs = {}
    BY <1>2 DEF Changed
  <2>2. job' = [a \in Actor |->
                 IF a \in threads THEN [job[a] EXCEPT !.tried = job[a].tried \ objs] ELSE job[a]]
    BY <1>2 DEF Changed
  <2>3. ASSUME NEW a \in Actor, a \in threads
        PROVE  [job[a] EXCEPT !.tried = job[a].tried \ objs] = job[a]
    <3>1. job[a].tried \ objs = job[a].tried
      BY <2>1, <2>3
    <3> QED BY <1>0, <3>1 DEF Job
  <2> QED BY <1>0, <2>1, <2>2, <2>3
<1>3. ASSUME NEW o \in Obj, Edit(o) PROVE SavedInv'
  <2>0. Changed({o}, Actor)
    BY <1>3 DEF Edit
  <2>1. /\ cause = {} /\ job' = job
        /\ \A a \in Actor : o \notin job[a].tried
    BY <1>2, <2>0
  <2>2. \A a \in Actor : job[a].pc = "save" => "mode" \in worked'
    BY <1>3, <2>1 DEF Edit, SavedInv, TriedOK
  <2>3. UNCHANGED saved
    BY <1>3 DEF Edit
  <2> QED BY <2>1, <2>2, <2>3 DEF SavedInv, TriedOK
<1>4. ASSUME NEW m \in Modes, SetMode(m) PROVE SavedInv'
  <2>0. PICK S \in SUBSET Actor : /\ Changed({"mode"}, S)
                                 /\ \A a \in Actor : job[a].pc = "save" => a \in S
    BY <1>4 DEF SetMode
  <2>1. /\ cause = {} /\ job' = job
        /\ \A a \in S : "mode" \notin job[a].tried
    BY <1>2, <2>0
  <2>2. \A a \in Actor : job[a].pc # "save"
    BY <2>0, <2>1 DEF SavedInv, TriedOK
  <2>3. UNCHANGED saved
    BY <1>4 DEF SetMode
  <2> QED BY <2>1, <2>2, <2>3 DEF SavedInv, TriedOK
<1>5. ASSUME NEW objs \in SUBSET Obj, RdCfg(objs) PROVE SavedInv'
  <2>1. cause = {} /\ job' = job
    BY <1>2, <1>5 DEF RdCfg
  <2>2. saved = Obj /\ UNCHANGED saved
    BY <1>5, <2>1 DEF RdCfg, SavedInv
  <2>3. worked \subseteq worked'
    BY <1>5, <2>2 DEF RdCfg, Put, TypeOK
  <2> QED BY <2>1, <2>2, <2>3 DEF SavedInv, TriedOK
<1>6. ASSUME NEW objs \in SUBSET Obj, WifiSave(objs) PROVE FALSE
  BY <1>6 DEF WifiSave
<1>7. CASE \/ \E p \in Ports \cup {NoPort} : CfgPort(p)
           \/ SysRestart \/ NewCfg \/ Hostname \/ SaveNow \/ \E p \in Ports : SaveAtClose(p)
  BY <1>1, <1>7 DEF CfgPort, Ask, SysRestart, NewCfg, Hostname, SaveNow, SaveAtClose, wifi
<1> QED
  BY <1>3, <1>4, <1>5, <1>6, <1>7 DEF Requests, SavedInv

\* What a thread has tried when the radio starts or a part begins.
LEMMA TriedStep ==
  ASSUME TypeOK, NEW a \in Actor, Radio(a), cause' = {}, TriedOK(a)
  PROVE  TriedOK(a)'
<1>0. job \in [Actor -> Job] /\ job[a] \in Job
  BY DEF TypeOK
<1>1. CASE RadioOn(a)
  BY <1>0, <1>1 DEF RadioOn, TriedOK, Job
<1>2. CASE RadioStarts(a)
  <2>1. job' = [job EXCEPT ![a].pc = "part",
                           ![a].tried = ({"ap"} \cap job[a].left) \cup {"mode"}]
    BY <1>2 DEF RadioStarts
  <2>2. /\ job'[a].pc = "part" /\ job'[a].left = job[a].left
        /\ job'[a].tried = ({"ap"} \cap job[a].left) \cup {"mode"}
    BY <1>0, <2>1 DEF Job
  <2> QED BY <2>2 DEF TriedOK
<1>3. ASSUME NEW o \in Part, BeginPart(a, o) PROVE TriedOK(a)'
  <2>1. job' = [job EXCEPT ![a].pc = "wait", ![a].part = o,
                           ![a].tried = IF o = "ap" THEN job[a].tried
                                        ELSE job[a].tried \cup {o}]
    BY <1>3 DEF BeginPart
  <2>2. /\ job'[a].pc = "wait" /\ job'[a].left = job[a].left /\ job'[a].part = o
        /\ job'[a].tried = IF o = "ap" THEN job[a].tried ELSE job[a].tried \cup {o}
    BY <1>0, <2>1 DEF Job
  <2>3. o \in job[a].left /\ job[a].pc = "part"
    BY <1>3 DEF BeginPart
  <2> QED BY <2>2, <2>3 DEF TriedOK
<1>4. ASSUME NEW o \in Part, SkipPart(a, o) PROVE FALSE
  BY <1>4 DEF SkipPart
<1> QED BY <1>1, <1>2, <1>3, <1>4 DEF Radio

\* wifi_run saves what it has just seen working.
LEMMA SavedWorking ==
  ASSUME TypeOK, PartOK, SavedInv, NEW a \in Actor, Working(a)
  PROVE  SavedInv'
<1> SUFFICES ASSUME cause' = {} PROVE SavedInv'
  BY DEF SavedInv
<1>0. /\ job \in [Actor -> Job] /\ \A b \in Actor : job[b] \in Job
      /\ \A b \in Actor : Returned(b).pc \notin {"part", "wait", "save"}
      /\ Idle.pc \notin {"part", "wait", "save"}
  BY CalledPc DEF Returned, TypeOK
<1>1. ASSUME UNCHANGED <<saved, worked, cause>>,
             job'[a].pc \notin {"part", "wait", "save"},
             \A b \in Actor \ {a} : job'[b] = job[b]
      PROVE  SavedInv'
  BY <1>1 DEF SavedInv, TriedOK
<1>2. CASE WriteHost(a)
  BY <1>0, <1>1, <1>2 DEF WriteHost, wifi
<1>3. CASE SysReset(a)
  BY <1>3, CalledPc DEF SysReset, Booted, SavedInv, TriedOK
<1>4. CASE CloseServer(a)
  BY <1>0, <1>1, <1>4, CalledPc DEF CloseServer, wifi
<1>5. CASE CreateQueue(a)
  BY <1>0, <1>1, <1>5 DEF CreateQueue, wifi, Job
<1>6. CASE CreateTask(a)
  BY <1>0, <1>1, <1>6 DEF CreateTask, wifi, Job
<1>7. CASE Listen(a)
  BY <1>0, <1>1, <1>7 DEF Listen, wifi
<1>8. CASE RadioOff(a) \/ RadioFails(a)
  BY <1>0, <1>1, <1>8 DEF RadioOff, RadioFails, Job
<1>9. CASE Radio(a)
  <2>1. /\ \A b \in Actor \ {a} : job'[b] = job[b]
        /\ job'[a].pc # "save" /\ UNCHANGED <<saved, worked>> /\ cause = {}
    BY <1>9, RadioStep
  <2>2. TriedOK(a)'
    BY <1>9, <2>1, TriedStep DEF SavedInv
  <2> QED BY <2>1, <2>2 DEF SavedInv, TriedOK
<1>10. ASSUME NEW ok \in BOOLEAN, Ended(a, ok), TriedOK(a), job[a].pc = "wait"
       PROVE  /\ job'[a].pc = "part"
              /\ \A b \in Actor \ {a} : job'[b] = job[b]
              /\ TriedOK(a)'
  <2> DEFINE q == job[a].part
  <2>1. /\ job'[a].pc = "part"
        /\ job'[a].left = job[a].left \ {q} /\ job'[a].tried = job[a].tried \ {q}
        /\ \A b \in Actor \ {a} : job'[b] = job[b]
    BY <1>0, <1>10 DEF Ended, Job
  <2>2. q \in Part
    BY <1>10 DEF PartOK
  <2> QED BY <1>10, <2>1, <2>2 DEF TriedOK, Part
<1>11. CASE PartFails(a)
  <2>1. TriedOK(a) /\ job[a].pc = "wait" /\ Ended(a, FALSE)
    BY <1>11 DEF PartFails, SavedInv, wifi
  <2>2. UNCHANGED <<saved, worked, cause>>
    BY <1>11 DEF PartFails, wifi
  <2> QED BY <1>10, <2>1, <2>2 DEF SavedInv, TriedOK
<1>12. CASE PartWorks(a)
  <2>1. saved = Obj /\ cause = {} /\ TriedOK(a) /\ job[a].pc = "wait" /\ Ended(a, TRUE)
    BY <1>12 DEF PartWorks, SavedInv
  <2>2. job[a].part \in job[a].tried /\ job[a].part \in Obj
    BY <2>1 DEF TriedOK, PartOK, Obj
  <2>3. worked' = worked \cup {job[a].part} /\ saved' = Put(saved, worked', {job[a].part})
    BY <1>12, <2>2 DEF PartWorks, Proven
  <2>4. saved' = saved
    BY <2>1, <2>2, <2>3 DEF Put
  <2> QED BY <1>10, <2>1, <2>3, <2>4 DEF SavedInv, TriedOK
<1>13. CASE SetRunMode(a)
  <2>0. cause = {} /\ TriedOK(a) /\ job[a].pc = "part" /\ saved' = saved
    BY <1>13 DEF SetRunMode, SavedInv
  <2>1. "mode" \in job[a].tried /\ \A b \in Actor \ {a} : job'[b] = job[b]
    BY <1>0, <1>13, <2>0 DEF SetRunMode, TriedOK
  <2>2. CASE Keeps(a)
    <3>1. "mode" \in worked'
      BY <1>13, <2>1, <2>2 DEF SetRunMode, Keeps, Proven
    <3>2. job'[a].pc = "save" /\ job'[a].tried = job[a].tried
      BY <1>0, <1>13, <2>2 DEF SetRunMode, Job
    <3> QED BY <2>0, <2>1, <3>1, <3>2 DEF SavedInv, TriedOK
  <2>3. CASE ~Keeps(a)
    BY <1>0, <1>1, <1>13, <2>0, <2>1, <2>3 DEF SetRunMode
  <2> QED BY <2>2, <2>3
<1>14. CASE SaveMode(a)
  <2>1. saved = Obj /\ "mode" \in worked
    BY <1>14 DEF SaveMode, SavedInv
  <2>2. saved' = saved
    BY <1>14, <2>1 DEF SaveMode, Put, Obj
  <2>3. /\ job'[a].pc \notin {"part", "wait", "save"}
        /\ \A b \in Actor \ {a} : job'[b] = job[b]
    BY <1>0, <1>14 DEF SaveMode
  <2>4. UNCHANGED <<saved, worked, cause>>
    BY <1>14, <2>2 DEF SaveMode
  <2> QED BY <1>1, <2>3, <2>4
<1> QED
  BY <1>2, <1>3, <1>4, <1>5, <1>6, <1>7, <1>8, <1>9, <1>11, <1>12, <1>13, <1>14
  DEF Working, Radio

(* "Save on successful connection" (wifi_user_set.h:25): as long as nobody *)
(* asks for a save or changes a value that is being tried, no error is     *)
(* only printed, and no two threads run the radio at a time in different   *)
(* modes, what the module comes up with has worked.                        *)
THEOREM SavedOnlyWhatWorked == Spec => []SavedHasWorked
<1>1. Init => SavedInv
  <2> SUFFICES ASSUME Init PROVE SavedInv
    OBVIOUS
  <2>1. \A a \in Actor : job[a].pc \in {"off", "idle"}
    BY CalledPc DEF Init
  <2> QED BY <2>1 DEF Init, SavedInv, TriedOK
<1>2. TInv /\ SavedInv /\ [Next]_vars => SavedInv'
  <2> SUFFICES ASSUME TypeOK, PartOK, SavedInv, [Next]_vars PROVE SavedInv'
    BY DEF TInv
  <2>1. CASE Requests
    BY <2>1, SavedRequests
  <2>2. ASSUME NEW p \in Ports, ConnCloses(p) PROVE SavedInv'
    BY <2>2 DEF ConnCloses, SavedInv, TriedOK, wifi
  <2>3. ASSUME NEW t \in Task, Waiting(t) PROVE SavedInv'
    <3>1. UNCHANGED <<saved, worked, cause>>
      BY <2>3 DEF Waiting, ReceiveWait, ReceiveRun, Passes, RunPending, wifi
    <3>2. t \in Actor
      BY ControlAssumption DEF Task, Actor, ControlAssumption
    <3>3. \/ UNCHANGED job
          \/ \E i \in Item : job' = [job EXCEPT ![t] = Called(i)]
      <4>1. queue # <<>> => Head(queue) \in Item
        BY HeadTailProperties DEF TypeOK
      <4> QED BY <2>3, <4>1 DEF Waiting, ReceiveWait, ReceiveRun, Passes, RunPending, TypeOK
    <3>4. \A b \in Actor : job'[b] = job[b] \/ job'[b].pc \notin {"part", "wait", "save"}
      BY <3>2, <3>3, CalledPc DEF TypeOK
    <3> QED BY <3>1, <3>4 DEF SavedInv, TriedOK
  <2>4. ASSUME NEW a \in Actor, Working(a) PROVE SavedInv'
    BY <2>4, SavedWorking
  <2>5. CASE PowerFails
    BY <2>5, CalledPc DEF PowerFails, Booted, SavedInv, TriedOK
  <2>6. CASE UNCHANGED vars
    BY <2>6 DEF vars, delayed, web, wifi, SavedInv, TriedOK
  <2> QED BY <2>1, <2>2, <2>3, <2>4, <2>5, <2>6 DEF Next
<1>3. SavedInv => SavedHasWorked
  BY DEF SavedInv, SavedHasWorked
<1> QED BY <1>1, <1>2, <1>3, TInvInvariant, PTL DEF Spec

-----------------------------------------------------------------------------
\* The radio is no concern of the web server.
LEMMA RadioParts == ASSUME NEW a \in Actor, Radio(a) PROVE UNCHANGED web
BY DEF Radio, RadioOn, RadioStarts, BeginPart, SkipPart

(* cfg_save=2 is kept: the save a connection has asked for is made with    *)
(* its end, unless the module restarts.                                    *)
THEOREM SaveIsKept == Spec => PromiseKept
<1>1. [Next]_vars => [promised \ promised' # {} => savedPort' = port' \/ tasks' = 0]_vars
  <2> SUFFICES ASSUME Next, promised \ promised' # {}
               PROVE  savedPort' = port' \/ tasks' = 0
    OBVIOUS
  <2>1. CASE Requests
    BY <2>1 DEF Requests, CfgPort, Ask, SysRestart, NewCfg, Hostname, SaveNow,
                SaveAtClose, Edit, SetMode, RdCfg, WifiSave, web
  <2>2. ASSUME NEW p \in Ports, ConnCloses(p) PROVE savedPort' = port'
    BY <2>2 DEF ConnCloses
  <2>3. ASSUME NEW t \in Task, Waiting(t) PROVE FALSE
    BY <2>3 DEF Waiting, ReceiveWait, ReceiveRun, Passes, RunPending, web
  <2>4. ASSUME NEW a \in Actor, Working(a) PROVE savedPort' = port' \/ tasks' = 0
    <3>1. CASE CloseServer(a)
      BY <3>1 DEF CloseServer
    <3>2. CASE SysReset(a)
      BY <3>2 DEF SysReset, Booted
    <3>3. CASE ~CloseServer(a) /\ ~SysReset(a)
      BY <2>4, <3>3, RadioParts
         DEF Working, Radio, WriteHost, CreateQueue, CreateTask, Listen, RadioOff, RadioFails,
             PartFails, PartWorks, SetRunMode, SaveMode, web
    <3> QED BY <3>1, <3>2, <3>3
  <2>5. CASE PowerFails
    BY <2>5 DEF PowerFails, Booted
  <2> QED BY <2>1, <2>2, <2>3, <2>4, <2>5 DEF Next
<1> QED BY <1>1, PTL DEF Spec, PromiseKept

-----------------------------------------------------------------------------
(* The server and its port.                                                *)

\* Actor 0 is no task, and the other actors are the tasks.
LEMMA Actors == 0 \in Actor /\ 0 \notin Task /\ \A a : a \in Actor <=> a = 0 \/ a \in Task
BY ControlAssumption DEF Actor, Task, ControlAssumption

(* A thread that is idle is not working, and one that works leaves the     *)
(* others alone.                                                           *)
LEMMA WorkingOne ==
  ASSUME TypeOK, NEW a \in Actor, Working(a), ~SysReset(a)
  PROVE  /\ job[a].pc # "idle" /\ job[a] # Idle
         /\ \A b \in Actor \ {a} : job'[b] = job[b]
<1>0. job \in [Actor -> Job]
  BY DEF TypeOK
<1>1. CASE Radio(a)
  <2>1. job[a].pc # "idle" /\ \A b \in Actor \ {a} : job'[b] = job[b]
    BY <1>1, RadioStep
  <2> QED BY <2>1, CalledPc
<1>2. CASE ~Radio(a)
  <2>1. job[a].pc # "idle"
    BY <1>2 DEF Working, Radio, WriteHost, CloseServer, CreateQueue, CreateTask, Listen,
                RadioOff, RadioFails, PartFails, PartWorks, SetRunMode, SaveMode
  <2>2. \A b \in Actor \ {a} : job'[b] = job[b]
    BY <1>0, <1>2 DEF Working, Radio, WriteHost, CloseServer, CreateQueue, CreateTask, Listen,
                      RadioOff, RadioFails, PartFails, PartWorks, Ended, SetRunMode, SaveMode
  <2> QED BY <2>1, <2>2, CalledPc
<1> QED BY <1>1, <1>2

\* The look of a task at its queue concerns no other thread.
LEMMA WaitingOne ==
  ASSUME TypeOK, NEW t \in Task, Waiting(t)
  PROVE  /\ queue # <<>> \/ pend[t] # NoItem
         /\ UNCHANGED <<port, servers>>
         /\ \A b \in Actor \ {t} : job'[b] = job[b]
BY DEF Waiting, ReceiveWait, ReceiveRun, Passes, RunPending, web, TypeOK

\* After the start of the module only user_init_thrd has work.
LEMMA BootedBoot ==
  ASSUME Booted
  PROVE  BootInv' /\ OpensOK' /\ job'[0] # Idle
<1>1. /\ job'[0] = WifiRun(savedMode)
      /\ \A t \in Task : job'[t] = Idle
  BY Actors DEF Booted
<1>2. WifiRun(savedMode).pc = "off" /\ Idle.pc = "idle"
  BY CalledPc
<1> QED BY <1>1, <1>2 DEF Booted, BootInv, OpensOK

(* Of the jobs a request changes at most what is being tried.              *)
LEMMA RequestJobs ==
  ASSUME TypeOK, Requests
  PROVE  /\ servers # {}
         /\ \A a \in Actor : job'[a].pc = job[a].pc /\ job'[a].port = job[a].port
         /\ \A a \in Actor : job[a] = Idle => job'[a] = Idle
<1>1. ASSUME NEW objs, NEW threads, Changed(objs, threads)
      PROVE  /\ \A a \in Actor : job'[a].pc = job[a].pc /\ job'[a].port = job[a].port
             /\ \A a \in Actor : job[a] = Idle => job'[a] = Idle
  <2>0. Idle.tried \ objs = Idle.tried
    BY DEF Idle
  <2>1. [Idle EXCEPT !.tried = Idle.tried \ objs] = Idle
    BY <2>0, JobTypes DEF Job
  <2>2. \A a \in Actor : job[a] = Idle => job'[a] = Idle
    BY <1>1, <2>1 DEF Changed
  <2> QED BY <1>1, <2>2, ChangedTypes
<1>2. \/ UNCHANGED job
      \/ \E objs, threads : Changed(objs, threads)
  BY DEF Requests, CfgPort, Ask, SysRestart, NewCfg, Hostname, SaveNow, SaveAtClose,
         Edit, SetMode, RdCfg, WifiSave
<1>3. servers # {}
  BY DEF Requests, Request, CfgPort, Ask, SysRestart, NewCfg, Hostname, SaveNow, SaveAtClose,
         Edit, SetMode, RdCfg, WifiSave
<1> QED BY <1>1, <1>2, <1>3

\* Until the server is up for the first time there are no tasks at work and
\* no requests.
LEMMA BootStep ==
  ASSUME TypeOK, BootInv, OpensOK, Next
  PROVE  BootInv' /\ OpensOK'
<1>0. /\ job \in [Actor -> Job] /\ \A a \in Actor : job[a] \in Job
      /\ pend \in [Task -> Item \cup {NoItem}]
  BY DEF TypeOK
<1>1. CASE Requests
  BY <1>1, RequestJobs, Actors DEF BootInv, OpensOK
<1>2. ASSUME NEW p \in Ports, ConnCloses(p) PROVE BootInv' /\ OpensOK'
  BY <1>2 DEF ConnCloses, delayed, BootInv, OpensOK
<1>3. ASSUME NEW t \in Task, Waiting(t) PROVE BootInv' /\ OpensOK'
  <2>1. job[0] = Idle
    BY <1>3, WaitingOne DEF BootInv
  <2>2. job'[0] = Idle
    BY <1>3, <2>1, WaitingOne, Actors
  <2>3. job'[t] = job[t] \/ \E i \in Item : job'[t] = Called(i)
    <3>1. queue # <<>> => Head(queue) \in Item
      BY HeadTailProperties DEF TypeOK
    <3> QED BY <1>0, <1>3, <3>1, Actors
            DEF Waiting, ReceiveWait, ReceiveRun, Passes, RunPending
  <2>4. \A i \in Item : Called(i).pc \notin {"queue", "task", "listen"}
    BY DEF Called, WifiRun, Idle, Item
  <2>5. OpensOK'
    BY <1>3, <2>3, <2>4, WaitingOne, Actors DEF OpensOK
  <2> QED BY <2>2, <2>5 DEF BootInv
<1>4. ASSUME NEW a \in Task, Working(a), ~SysReset(a) PROVE BootInv' /\ OpensOK'
  <2>1. job[0] = Idle /\ job'[0] = Idle
    BY <1>4, WorkingOne, Actors DEF BootInv
  <2>2. job'[a].pc \in {"queue", "task", "listen"} => job'[a].port # NoPort
    <3>1. a \in Actor /\ a # 0 /\ Returned(a) = Idle /\ Idle.pc = "idle"
      BY Actors, CalledPc DEF Returned
    <3>2. CASE CloseServer(a)
      BY <1>0, <3>1, <3>2, CalledPc DEF CloseServer
    <3>3. CASE CreateQueue(a) \/ CreateTask(a)
      BY <1>0, <3>1, <3>3 DEF CreateQueue, CreateTask, OpensOK, Job
    <3>4. CASE WriteHost(a) \/ Listen(a) \/ SaveMode(a)
      BY <1>0, <3>1, <3>4 DEF WriteHost, Listen, SaveMode
    <3>5. CASE RadioOff(a) \/ RadioFails(a) \/ SetRunMode(a)
      BY <1>0, <3>1, <3>5 DEF RadioOff, RadioFails, SetRunMode, Job
    <3>6. CASE Radio(a)
      BY <3>1, <3>6, RadioStep
    <3>7. CASE PartFails(a) \/ PartWorks(a)
      BY <1>0, <3>1, <3>7 DEF PartFails, PartWorks, Ended, Job
    <3> QED BY <1>4, <3>2, <3>3, <3>4, <3>5, <3>6, <3>7 DEF Working, Radio
  <2>3. OpensOK'
    BY <1>4, <2>2, WorkingOne, Actors DEF OpensOK
  <2> QED BY <2>1, <2>3 DEF BootInv
<1>5. ASSUME Working(0), ~SysReset(0) PROVE BootInv' /\ OpensOK'
  <2>0. 0 \in Actor
    BY Actors
  <2>1. /\ job[0] # Idle /\ \A t \in Task : job'[t] = job[t]
    BY <1>5, WorkingOne, Actors
  <2>2. OpensOK'
    BY <2>1 DEF OpensOK
  <2>3. ASSUME job'[0] # Idle
        PROVE  /\ UNCHANGED <<servers, pend, port>> /\ queue' = <<>>
               /\ job'[0].pc \notin {"close", "host", "reset"}
               /\ job'[0].pc \in {"queue", "task", "listen"} => job'[0].port = port
    <3>0. queue = <<>> /\ job[0].pc \notin {"close", "host", "reset"}
      BY <2>1 DEF BootInv
    <3>1. CASE CreateQueue(0) \/ CreateTask(0)
      BY <1>0, <2>0, <2>1, <2>3, <3>0, <3>1 DEF CreateQueue, CreateTask, BootInv, Job
    <3>2. CASE WriteHost(0) \/ Listen(0) \/ CloseServer(0)
      BY <1>0, <2>0, <2>3, <3>0, <3>2 DEF WriteHost, Listen, CloseServer
    <3>3. Returned(0).pc = "queue" /\ Returned(0).port = port
      BY CalledPc DEF Returned
    <3>4. CASE RadioOff(0) \/ RadioFails(0) \/ SetRunMode(0) \/ SaveMode(0)
      BY <1>0, <2>0, <3>0, <3>3, <3>4 DEF RadioOff, RadioFails, SetRunMode, SaveMode, delayed, web, Job
    <3>5. CASE Radio(0)
      BY <2>0, <3>0, <3>5, RadioStep DEF delayed, web
    <3>6. CASE PartFails(0) \/ PartWorks(0)
      <4>1. job'[0].pc = "part"
        BY <1>0, <2>0, <3>6 DEF PartFails, PartWorks, Ended, Job
      <4> QED BY <3>0, <3>6, <4>1 DEF PartFails, PartWorks, delayed, web
    <3> QED BY <1>5, <3>0, <3>1, <3>2, <3>4, <3>5, <3>6 DEF Working, Radio
  <2>4. BootInv'
    BY <2>1, <2>3 DEF BootInv
  <2> QED BY <2>2, <2>4
<1>6. ASSUME NEW a \in Actor, SysReset(a) PROVE BootInv' /\ OpensOK'
  BY <1>6, BootedBoot DEF SysReset
<1>7. CASE PowerFails
  BY <1>7, BootedBoot DEF PowerFails
<1> QED
  BY <1>1, <1>2, <1>3, <1>4, <1>5, <1>6, <1>7, Actors DEF Next

(* While the module starts, the only server on its way is the one on the   *)
(* port that is set.                                                       *)
LEMMA BootFollow == TypeOK /\ BootInv /\ job[0] # Idle => FollowInv
<1> SUFFICES ASSUME TypeOK, BootInv, job[0] # Idle PROVE FollowInv
  OBVIOUS
<1>1. Restarting
  BY DEF Restarting
<1>2. ASSUME NEW s, Old(s) PROVE s = port
  <2>1. PICK a \in Actor : job[a].pc \in {"queue", "task", "listen"} /\ job[a].port = s
    BY <1>2 DEF Old, Opening, BootInv
  <2>2. a = 0
    BY <2>1, Actors, CalledPc DEF BootInv
  <2> QED BY <2>1, <2>2 DEF BootInv
<1> QED BY <1>1, <1>2 DEF FollowInv

(* A step after which no server is on its way that was not before, every   *)
(* restart still is, and the port and the servers are the same.            *)
LEMMA FollowQuiet ==
  ASSUME FollowInv, UNCHANGED <<port, servers>>, missed \subseteq missed',
         missed' = {} /\ Restarting => Restarting',
         \A s \in Ports : Opening(s)' # {} => Opening(s) # {} \/ s = port,
         missed' = {} => \A s \in Ports : Owed(s) => Owed(s)'
  PROVE  FollowInv'
BY DEF FollowInv, Old

\* A request that changes the port queues the restart for the old one.
LEMMA FollowRequests ==
  ASSUME TypeOK, FollowInv, BootInv, Requests
  PROVE  FollowInv'
<1>0. /\ \A a \in Actor : job'[a].pc = job[a].pc /\ job'[a].port = job[a].port
      /\ job[0] = Idle /\ job'[0] = Idle
  BY RequestJobs, Actors DEF BootInv
<1>1. \A s : Opening(s)' = Opening(s)
  BY <1>0 DEF Opening
<1>2. ASSUME UNCHANGED <<queue, pend>>
      PROVE  /\ Restarting => Restarting'
             /\ \A s : Owed(s) => Owed(s)'
  BY <1>0, <1>2 DEF Restarting, Owed
<1>3. ASSUME NEW i \in Item, Queued(i), UNCHANGED pend
      PROVE  /\ missed \subseteq missed'
             /\ Restarting => Restarting'
             /\ \A s : Owed(s) => Owed(s)'
             /\ missed' = {} /\ i.fn = "reinit" => Owed(i.port)' /\ Restarting'
  <2>1. CASE queue' = Append(queue, i) /\ UNCHANGED missed
    <3>1. /\ Len(queue') = Len(queue) + 1 /\ Len(queue) \in Nat
          /\ DOMAIN queue = 1 .. Len(queue) /\ DOMAIN queue' = 1 .. Len(queue')
          /\ \A k \in 1 .. Len(queue) : queue'[k] = queue[k]
          /\ queue'[Len(queue) + 1] = i
      BY <2>1, AppendProperties, LenProperties DEF TypeOK
    <3>2. /\ \A k \in DOMAIN queue : k \in DOMAIN queue' /\ queue'[k] = queue[k]
          /\ \E k \in DOMAIN queue' : queue'[k] = i
      BY <3>1
    <3>3. \A s : Owed(s) => Owed(s)'
      BY <1>0, <1>3, <3>2 DEF Owed
    <3>4. Restarting => Restarting'
      BY <1>0, <1>3, <3>2 DEF Restarting
    <3>5. i.fn = "reinit" => Owed(i.port)' /\ Restarting'
      BY <3>2 DEF Owed, Restarting
    <3> QED BY <2>1, <3>3, <3>4, <3>5
  <2>2. CASE missed' = missed \cup Miss({i}, "full") /\ UNCHANGED queue
    BY <1>2, <1>3, <2>2 DEF Miss
  <2> QED BY <1>3, <2>1, <2>2 DEF Queued
<1>4. ASSUME NEW p \in Ports \cup {NoPort}, CfgPort(p) PROVE FollowInv'
  <2>0. PICK i \in Item : i = Reinit(port)
    BY ItemTypes DEF TypeOK
  <2>1. /\ i.fn = "reinit" /\ i.port = port
        /\ Queued(i) /\ UNCHANGED <<pend, servers>>
    BY <1>4, <2>0 DEF CfgPort, Reinit, Delayed
  <2>2. /\ missed \subseteq missed' /\ \A s : Owed(s) => Owed(s)'
        /\ missed' = {} => Owed(i.port)' /\ Restarting'
    BY <1>3, <2>1
  <2>3. \A s \in Ports : Old(s)' => Old(s)
    BY <1>1, <2>1 DEF Old
  <2>4. ASSUME missed' = {}, NEW s \in Ports, Old(s)' PROVE Owed(s)'
    <3>1. missed = {} /\ Old(s)
      BY <2>2, <2>3, <2>4
    <3>2. Owed(s) \/ s = port
      BY <3>1 DEF FollowInv
    <3> QED BY <2>1, <2>2, <2>4, <3>2
  <2> QED BY <2>2, <2>4 DEF FollowInv
<1>5. ASSUME NEW i \in Item, Ask(i) PROVE FollowInv'
  <2>1. Queued(i) /\ UNCHANGED <<pend, port, servers>>
    BY <1>5 DEF Ask
  <2> QED BY <1>1, <1>3, <2>1, FollowQuiet
<1>6. CASE SysRestart
  BY <1>5, <1>6, ItemTypes DEF SysRestart
<1>7. CASE NewCfg
  <2>1. mode \in Modes \cup {{}}
    BY DEF TypeOK
  <2> QED BY <1>5, <1>7, <2>1, ItemTypes DEF NewCfg
<1>8. CASE Hostname
  <2>1. PICK wait \in BOOLEAN : Ask([Delayed("host") EXCEPT !.wait = wait])
    BY <1>8 DEF Hostname
  <2>2. [Delayed("host") EXCEPT !.wait = wait] \in Item
    BY ItemTypes
  <2> QED BY <1>5, <2>1, <2>2
<1>9. CASE UNCHANGED <<queue, pend, port, servers, missed>>
  BY <1>1, <1>2, <1>9, FollowQuiet
<1> QED
  BY <1>4, <1>6, <1>7, <1>8, <1>9
  DEF Requests, SaveNow, SaveAtClose, Edit, SetMode, RdCfg, WifiSave, web, delayed

\* A restart that is received, kept or called is still on its way, or noted.
LEMMA FollowWaiting ==
  ASSUME TypeOK, FollowInv, BootInv, NEW t \in Task, Waiting(t)
  PROVE  FollowInv'
<1>0. /\ job \in [Actor -> Job] /\ pend \in [Task -> Item \cup {NoItem}]
      /\ t \in Actor /\ NoItem.fn # "reinit"
  BY Actors DEF TypeOK, NoItem
<1>1. ASSUME queue # <<>>, queue' = Tail(queue)
      PROVE  /\ Head(queue) \in Item
             /\ \A k \in DOMAIN queue :
                  \/ queue[k] = Head(queue)
                  \/ \E n \in DOMAIN queue' : queue'[n] = queue[k]
  <2>1. /\ Head(queue) \in Item /\ Head(queue) = queue[1]
        /\ Len(queue) \in Nat /\ Len(queue') = Len(queue) - 1
        /\ DOMAIN queue = 1 .. Len(queue) /\ DOMAIN queue' = 1 .. Len(queue')
        /\ \A n \in 1 .. Len(queue') : queue'[n] = queue[n + 1]
    BY <1>1, HeadTailProperties, LenProperties DEF TypeOK
  <2>2. ASSUME NEW k \in DOMAIN queue, k # 1
        PROVE  k - 1 \in DOMAIN queue' /\ queue'[k - 1] = queue[k]
    BY <2>1, <2>2
  <2> QED BY <2>1, <2>2
<1>2. \A i \in Item : /\ i.fn = "reinit" => Called(i).pc = "close" /\ Called(i).port = i.port
                      /\ Called(i).pc \notin {"queue", "task", "listen"}
                      /\ Called(i).pc = "close" => i.fn = "reinit"
  BY DEF Called, WifiRun, Idle, Item
<1>3. CASE ReceiveWait(t)
  <2>1. UNCHANGED job /\ queue # <<>> /\ queue' = Tail(queue) /\ pend'[t] = Head(queue)
    BY <1>0, <1>3 DEF ReceiveWait
  <2>2. missed \subseteq missed' /\ \A u \in Task \ {t} : pend'[u] = pend[u]
    BY <1>0, <1>3 DEF ReceiveWait
  <2>3. missed' = {} => pend[t].fn # "reinit"
    BY <1>3 DEF ReceiveWait, Miss
  <2>4. \A s : Opening(s)' = Opening(s)
    BY <2>1 DEF Opening
  <2>5. ASSUME missed' = {}, NEW s, Owed(s) PROVE Owed(s)'
    BY <1>1, <2>1, <2>2, <2>3, <2>5 DEF Owed
  <2>6. missed' = {} /\ Restarting => Restarting'
    BY <1>1, <2>1, <2>2, <2>3 DEF Restarting
  <2> QED BY <2>2, <2>4, <2>5, <2>6, WaitingOne, FollowQuiet
<1>4. ASSUME NEW i \in Item, job' = [job EXCEPT ![t] = Called(i)], job[t].pc = "idle",
             missed' = missed,
             \A k \in DOMAIN queue : \/ queue[k] = i
                                     \/ \E n \in DOMAIN queue' : queue'[n] = queue[k],
             \A u \in Task : pend'[u] = pend[u] \/ pend[u] = i
      PROVE  FollowInv'
  <2>1. job'[t] = Called(i) /\ \A b \in Actor \ {t} : job'[b] = job[b]
    BY <1>0, <1>4
  <2>2. \A s : Opening(s)' \subseteq Opening(s)
    BY <1>2, <2>1 DEF Opening
  <2>3. ASSUME NEW s, Owed(s) PROVE Owed(s)'
    <3>1. CASE i.fn = "reinit" /\ i.port = s
      BY <1>0, <1>2, <2>1, <3>1 DEF Owed
    <3>2. CASE ~(i.fn = "reinit" /\ i.port = s)
      <4>1. CASE \E k \in DOMAIN queue : queue[k].fn = "reinit" /\ queue[k].port = s
        BY <1>4, <3>2, <4>1 DEF Owed
      <4>2. CASE \E u \in Task : pend[u].fn = "reinit" /\ pend[u].port = s
        BY <1>4, <3>2, <4>2 DEF Owed
      <4>3. CASE \E a \in Actor : job[a].pc = "close" /\ job[a].port = s
        <5>1. PICK a \in Actor : job[a].pc = "close" /\ job[a].port = s
          BY <4>3
        <5>2. job'[a] = job[a]
          BY <1>4, <2>1, <5>1
        <5> QED BY <5>1, <5>2 DEF Owed
      <4> QED BY <2>3, <4>1, <4>2, <4>3 DEF Owed
    <3> QED BY <3>1, <3>2
  <2>4. Restarting => Restarting'
    <3>1. CASE i.fn = "reinit"
      BY <1>0, <1>2, <2>1, <3>1 DEF Restarting
    <3>2. CASE i.fn # "reinit"
      <4>1. CASE \E k \in DOMAIN queue : queue[k].fn = "reinit"
        BY <1>4, <3>2, <4>1 DEF Restarting
      <4>2. CASE \E u \in Task : pend[u].fn = "reinit"
        BY <1>4, <3>2, <4>2 DEF Restarting
      <4>3. CASE \E a \in Actor : job[a].pc \in {"close", "queue", "task", "listen"}
        <5>1. PICK a \in Actor : job[a].pc \in {"close", "queue", "task", "listen"}
          BY <4>3
        <5>2. job'[a] = job[a]
          BY <1>4, <2>1, <5>1
        <5> QED BY <5>1, <5>2 DEF Restarting
      <4>4. CASE job[0] # Idle
        <5>1. job'[0] = job[0]
          BY <2>1, Actors
        <5> QED BY <4>4, <5>1 DEF Restarting
      <4> QED BY <4>1, <4>2, <4>3, <4>4 DEF Restarting
    <3> QED BY <3>1, <3>2
  <2> QED BY <1>4, <2>2, <2>3, <2>4, WaitingOne, FollowQuiet
<1>5. CASE ReceiveRun(t)
  BY <1>1, <1>4, <1>5 DEF ReceiveRun, Free, web
<1>6. CASE RunPending(t)
  <2>1. pend[t] \in Item /\ \A u \in Task : pend'[u] = pend[u] \/ pend[u] = pend[t]
    BY <1>0, <1>6 DEF RunPending
  <2> QED BY <1>4, <1>6, <2>1 DEF RunPending, Free, web
<1>7. CASE Passes(t)
  BY <1>7, FollowQuiet DEF Passes, web, Opening, Owed, Restarting
<1> QED
  BY <1>3, <1>5, <1>6, <1>7 DEF Waiting

\* The same after a step.
LEMMA BootFollowNext == TypeOK' /\ BootInv' /\ (job[0] # Idle)' => FollowInv'
BY BootFollow, PTL

\* A server that is owed a restart has one on its way.
LEMMA OwedRestarts == ASSUME NEW s, Owed(s) PROVE Restarting
BY DEF Owed, Restarting

(* user_init_thrd: what it opens is the port that is set.                  *)
LEMMA FollowStart ==
  ASSUME TypeOK, TypeOK', BootInv, BootInv', Working(0), ~SysReset(0)
  PROVE  FollowInv'
<1>0. /\ 0 \in Actor /\ job \in [Actor -> Job] /\ job[0] \in Job
      /\ job[0] # Idle /\ \A t \in Task : job'[t] = Idle
      /\ Idle.pc = "idle" /\ Returned(0).pc = "queue"
  BY Actors, WorkingOne, CalledPc DEF TypeOK, BootInv, Returned
<1>1. CASE (job[0] # Idle)'
  BY <1>1, BootFollowNext
<1>2. CASE CreateTask(0) /\ job'[0] = Idle
  BY <1>0, <1>2 DEF CreateTask, FollowInv, Job
<1>3. CASE Listen(0)
  <2>1. job[0].port = port /\ servers = {} /\ job'[0] = Idle /\ UNCHANGED port
    BY <1>0, <1>3 DEF Listen, BootInv
  <2>2. missed' = {} => servers' = {port} \ {NoPort}
    BY <1>3, <2>1 DEF Listen
  <2>3. \A s : Opening(s)' = {}
    BY <1>0, <2>1, Actors DEF Opening
  <2> QED BY <2>1, <2>2, <2>3 DEF FollowInv, Old
<1>4. CASE job'[0] = Idle /\ ~CreateTask(0) /\ ~Listen(0)
  <2>1. CASE WriteHost(0) \/ CloseServer(0)
    BY <1>0, <2>1 DEF WriteHost, CloseServer, BootInv
  <2>2. CASE CreateQueue(0)
    BY <1>0, <1>4, <2>2 DEF CreateQueue, Job
  <2>3. CASE RadioOff(0) \/ RadioFails(0) \/ SetRunMode(0) \/ SaveMode(0)
    BY <1>0, <1>4, <2>3 DEF RadioOff, RadioFails, SetRunMode, SaveMode, Job
  <2>4. CASE Radio(0)
    BY <1>0, <1>4, <2>4, RadioStep
  <2>5. CASE PartFails(0) \/ PartWorks(0)
    <3>1. job'[0].pc = "part"
      BY <1>0, <2>5 DEF PartFails, PartWorks, Ended, Job
    <3> QED BY <1>0, <1>4, <3>1
  <2> QED BY <1>4, <2>1, <2>2, <2>3, <2>4, <2>5 DEF Working, Radio
<1> QED BY <1>1, <1>2, <1>3, <1>4

\* A restart closes the old server before it opens the one that is set.
LEMMA FollowWorking ==
  ASSUME TypeOK, FollowInv, BootInv, OpensOK,
         NEW a \in Task, Working(a), ~SysReset(a)
  PROVE  FollowInv'
<1> DEFINE R == {"close", "queue", "task", "listen"}
<1>0. /\ a \in Actor /\ job \in [Actor -> Job] /\ job[a] \in Job
      /\ job[0] = Idle /\ job'[0] = Idle
      /\ \A b \in Actor \ {a} : job'[b] = job[b]
      /\ Idle.pc = "idle" /\ Returned(a) = Idle
  BY Actors, WorkingOne, CalledPc DEF TypeOK, BootInv, Returned
<1>1. ASSUME UNCHANGED <<queue, pend, port, servers, missed>>,
             job[a].pc \notin R, job'[a].pc \notin R
      PROVE  FollowInv'
  <2>1. \A b \in Actor : job[b].pc \in R \/ job'[b].pc \in R => job'[b] = job[b]
    BY <1>0, <1>1
  <2>2. \A s : Opening(s)' = Opening(s)
    BY <2>1 DEF Opening
  <2>3. \A s : Owed(s) => Owed(s)'
    BY <1>1, <2>1 DEF Owed
  <2>4. Restarting => Restarting'
    BY <1>0, <1>1, <2>1 DEF Restarting
  <2> QED BY <1>1, <2>2, <2>3, <2>4, FollowQuiet
<1>2. CASE WriteHost(a)
  BY <1>0, <1>1, <1>2 DEF WriteHost, delayed, web
<1>3. CASE CloseServer(a)
  <2> DEFINE p == job[a].port
  <2>1. /\ servers' = servers \ {p} /\ UNCHANGED <<queue, pend, port>>
        /\ missed' = {} => missed = {} /\ Opening(p) = {}
        /\ job[a].pc = "close"
    BY <1>3 DEF CloseServer, delayed
  <2>2. \/ port = NoPort /\ job'[a] = Idle
        \/ job'[a].pc = "queue" /\ job'[a].port = port
    BY <1>0, <1>3, CalledPc DEF CloseServer
  <2>3. ASSUME missed' = {}, NEW s \in Ports, Old(s)', s # port PROVE Owed(s)'
    <3>1. \A b \in Actor : b \in Opening(s)' => b \in Opening(s)
      BY <1>0, <2>2, <2>3 DEF Opening
    <3>2. Old(s) /\ s # p
      BY <2>1, <2>3, <3>1 DEF Old, Opening
    <3>3. Owed(s)
      BY <2>1, <2>3, <3>2 DEF FollowInv
    <3>4. \A b \in Actor : job[b].port = s /\ job[b].pc = "close" => job'[b] = job[b]
      BY <1>0, <3>2
    <3> QED BY <2>1, <3>3, <3>4 DEF Owed
  <2>4. Restarting' \/ port = NoPort
    BY <1>0, <2>2 DEF Restarting
  <2> QED BY <2>1, <2>3, <2>4 DEF FollowInv
<1>4. CASE CreateQueue(a)
  <2>1. /\ UNCHANGED <<pend, port, servers>> /\ job[a].pc = "queue"
        /\ job'[a].pc = "task" /\ job'[a].port = job[a].port
    BY <1>0, <1>4 DEF CreateQueue, Job
  <2>2. /\ missed \subseteq missed'
        /\ missed' = {} => \A i \in DOMAIN queue : queue[i].fn # "reinit"
    BY <1>4 DEF CreateQueue, Miss
  <2>3. \A s : Opening(s)' = Opening(s)
    BY <1>0, <2>1 DEF Opening
  <2>4. Restarting'
    BY <1>0, <2>1 DEF Restarting
  <2>5. ASSUME missed' = {}, NEW s, Owed(s) PROVE Owed(s)'
    <3>1. \A b \in Actor : job[b].pc = "close" => job'[b] = job[b]
      BY <1>0, <2>1
    <3> QED BY <2>1, <2>2, <2>5, <3>1 DEF Owed
  <2> QED BY <2>1, <2>2, <2>3, <2>4, <2>5, FollowQuiet
<1>5. CASE CreateTask(a)
  <2>1. CASE missed' # {}
    BY <2>1 DEF FollowInv
  <2>2. CASE missed' = {}
    <3>1. /\ UNCHANGED <<queue, pend, port, servers>> /\ job[a].pc = "task"
          /\ job'[a].pc = "listen" /\ job'[a].port = job[a].port /\ missed \subseteq missed'
      BY <1>0, <1>5, <2>2 DEF CreateTask, Job
    <3>2. \A s : Opening(s)' = Opening(s)
      BY <1>0, <3>1 DEF Opening
    <3>3. Restarting'
      BY <1>0, <3>1 DEF Restarting
    <3>4. ASSUME NEW s, Owed(s) PROVE Owed(s)'
      <4>1. \A b \in Actor : job[b].pc = "close" => job'[b] = job[b]
        BY <1>0, <3>1
      <4> QED BY <3>1, <3>4, <4>1 DEF Owed
    <3> QED BY <3>1, <3>2, <3>3, <3>4, FollowQuiet
  <2> QED BY <2>1, <2>2
<1>6. CASE Listen(a)
  <2> DEFINE q == job[a].port
  <2>1. /\ job[a].pc = "listen" /\ job'[a] = Idle /\ UNCHANGED <<queue, pend, port>>
        /\ q \in Ports /\ a \in Opening(q)
    BY <1>0, <1>6 DEF Listen, delayed, OpensOK, Opening, Job
  <2>2. missed' = {} => missed = {} /\ servers' = servers \cup {q}
    BY <1>6, <2>1 DEF Listen, OpensOK
  <2>3. ASSUME missed' = {}, NEW s \in Ports, s # port, Old(s) PROVE Owed(s)'
    <3>1. Owed(s)
      BY <2>2, <2>3 DEF FollowInv
    <3>2. \A b \in Actor : job[b].pc = "close" => job'[b] = job[b]
      BY <1>0, <2>1
    <3> QED BY <2>1, <3>1, <3>2 DEF Owed
  <2>4. ASSUME missed' = {}, NEW s \in Ports, Old(s)' PROVE Old(s)
    <3>1. \A b \in Actor : b \in Opening(s)' => b \in Opening(s)
      BY <1>0, <2>1 DEF Opening
    <3> QED BY <2>1, <2>2, <2>4, <3>1 DEF Old, Opening
  <2>5. ASSUME missed' = {} PROVE Restarting' \/ port \in servers'
    <3>1. CASE q = port
      BY <2>2, <2>5, <3>1
    <3>2. CASE q # port
      <4>1. Old(q)
        BY <2>1 DEF Old
      <4>2. PICK s \in Ports : s = q
        BY <2>1
      <4>3. Owed(s)'
        BY <2>3, <2>5, <3>2, <4>1, <4>2
      <4> QED BY <4>3 DEF Owed, Restarting
    <3> QED BY <3>1, <3>2
  <2> QED BY <2>1, <2>3, <2>4, <2>5 DEF FollowInv
<1>7. CASE RadioOff(a) \/ RadioFails(a) \/ SetRunMode(a) \/ SaveMode(a)
  <2>1. job[a].pc \notin R /\ job'[a].pc \notin R
    BY <1>0, <1>7 DEF RadioOff, RadioFails, SetRunMode, SaveMode, Job
  <2> QED BY <1>1, <1>7, <2>1 DEF RadioOff, RadioFails, SetRunMode, SaveMode, delayed, web
<1>8. CASE Radio(a)
  <2>1. job[a].pc \notin R /\ job'[a].pc \notin R
    BY <1>0, <1>8, RadioStep
  <2>2. UNCHANGED <<queue, pend, port, servers, missed>>
    BY <1>0, <1>8, RadioStep DEF delayed, web
  <2> QED BY <1>1, <2>1, <2>2
<1>9. CASE PartFails(a) \/ PartWorks(a)
  <2>1. job'[a].pc = "part" /\ job[a].pc = "wait"
    BY <1>0, <1>9 DEF PartFails, PartWorks, Ended, Job
  <2> QED BY <1>1, <1>9, <2>1 DEF PartFails, PartWorks, delayed, web
<1> QED
  BY <1>2, <1>3, <1>4, <1>5, <1>6, <1>7, <1>8, <1>9 DEF Working, Radio

(* The server follows the port: when no restart is on its way, it listens  *)
(* on the port that is set and on no other, unless a restart was given up  *)
(* for one of the five reasons in missed.                                  *)
THEOREM FollowsPort == Spec => []ServerFollowsPort
<1> DEFINE PInv == BootInv /\ OpensOK /\ FollowInv
<1>1. TInv /\ Init => PInv
  <2> SUFFICES ASSUME TypeOK, Init PROVE PInv
    BY DEF TInv
  <2>1. job[0] = WifiRun(savedMode) /\ \A t \in Task : job[t] = Idle
    BY Actors DEF Init
  <2>2. BootInv /\ OpensOK /\ job[0] # Idle
    BY <2>1, CalledPc DEF Init, BootInv, OpensOK
  <2> QED BY <2>2, BootFollow
<1>2. TInv /\ TInv' /\ PInv /\ [Next]_vars => PInv'
  <2> SUFFICES ASSUME TypeOK, TypeOK', PInv, [Next]_vars PROVE PInv'
    BY DEF TInv
  <2>1. BootInv' /\ OpensOK'
    <3>1. CASE Next
      BY <3>1, BootStep
    <3>2. CASE UNCHANGED vars
      BY <3>2 DEF vars, delayed, web, BootInv, OpensOK
    <3> QED BY <3>1, <3>2
  <2>2. CASE Requests
    BY <2>1, <2>2, FollowRequests
  <2>3. ASSUME NEW p \in Ports, ConnCloses(p) PROVE FollowInv'
    BY <2>3, FollowQuiet DEF ConnCloses, delayed, Opening, Owed, Restarting
  <2>4. ASSUME NEW t \in Task, Waiting(t) PROVE FollowInv'
    BY <2>4, FollowWaiting
  <2>5. ASSUME Booted PROVE FollowInv'
    <3>1. (job[0] # Idle)'
      BY <2>5, BootedBoot
    <3> QED BY <2>1, <3>1, BootFollowNext
  <2>6. ASSUME NEW a \in Actor, Working(a) PROVE FollowInv'
    <3>1. CASE SysReset(a)
      BY <2>5, <3>1 DEF SysReset
    <3>2. CASE ~SysReset(a) /\ a = 0
      BY <2>1, <2>6, <3>2, FollowStart
    <3>3. CASE ~SysReset(a) /\ a \in Task
      BY <2>6, <3>3, FollowWorking
    <3> QED BY <3>1, <3>2, <3>3, Actors
  <2>7. CASE PowerFails
    BY <2>1, <2>5, <2>7 DEF PowerFails
  <2>8. CASE UNCHANGED vars
    BY <2>1, <2>8, FollowQuiet DEF vars, delayed, web, Opening, Owed, Restarting
  <2> QED BY <2>1, <2>2, <2>3, <2>4, <2>6, <2>7, <2>8 DEF Next
<1>3. TInv /\ PInv => ServerFollowsPort
  <2> SUFFICES ASSUME TypeOK, FollowInv, ~Restarting, missed = {}
               PROVE  servers = {port} \ {NoPort}
    BY DEF TInv, ServerFollowsPort
  <2>1. \A s \in servers : s \in Ports /\ s # NoPort
    BY ControlAssumption DEF TypeOK, ControlAssumption, NoPort
  <2>2. \A s \in servers : s = port
    BY <2>1, OwedRestarts DEF FollowInv, Old
  <2>3. port = NoPort \/ port \in servers
    BY DEF FollowInv
  <2> QED BY <2>1, <2>2, <2>3
<1> HIDE DEF PInv
<1> QED BY <1>1, <1>2, <1>3, TInvInvariant, PTL DEF Spec
-----------------------------------------------------------------------------
(* The end of a restart.                                                   *)

(* Where there is work there is a thread for it: a task that reads the     *)
(* queue was made before the first server could be asked for anything, and *)
(* an item with a pause waits at a task that exists.                       *)
AttendedInv ==
  /\ servers # {} \/ queue # <<>> => tasks # 0
  /\ \A t \in Task : pend[t] # NoItem => t <= tasks
  /\ \A a \in Actor : job[a].pc = "listen" => tasks # 0
  /\ job[0].pc = "idle" => job[0] = Idle

(* Someone has a step to take: a thread at work, or a task with an item.   *)
Attended ==
  \/ \E a \in Actor : job[a].pc # "idle"
  \/ \E t \in Task : t <= tasks /\ (queue # <<>> \/ pend[t] # NoItem)

(* Steps that a job is at most away from its end.                          *)
Load(S) == (IF "ap" \in S THEN 2 ELSE 0) + (IF "st" \in S THEN 2 ELSE 0)

Stage == [idle |-> 0, reset |-> 1, host |-> 1, listen |-> 1, task |-> 2, queue |-> 3,
          close |-> 4, save |-> 4, wait |-> 4, part |-> 5, start |-> 6, on |-> 7,
          off |-> 8]

Rank(j) == Stage[j.pc] + IF j.pc \in {"wait", "part", "start", "on", "off"} THEN Load(j.left) ELSE 0

(* Steps that the item of a task is away from being called.                *)
Owing(t) == IF pend[t] = NoItem THEN 0 ELSE IF due[t] THEN 1 ELSE 2

(* A thread at work comes nearer to the end of its job, and makes no work  *)
(* for another.                                                            *)
Finishes(a) ==
  /\ Rank(job'[a]) < Rank(job[a])
  /\ \A b \in Actor \ {a} : job'[b] = job[b]
  /\ queue' \in {queue, <<>>} /\ UNCHANGED <<pend, due>>

(* A task that looks at its queue leaves fewer items to look at, and the   *)
(* other threads and their items alone.                                    *)
Takes(t) ==
  /\ 3 * Len(queue') + Owing(t)' < 3 * Len(queue) + Owing(t)
  /\ \A b \in Actor \ {t} : job'[b] = job[b]
  /\ \A u \in Task \ {t} : Owing(u)' = Owing(u)

Settles ==
  [][/\ \A a \in Actor : Working(a) => SysReset(a) \/ Finishes(a)
     /\ \A t \in Task : Waiting(t) => Takes(t)]_vars

\* The rank of a job at each stage.
LEMMA Ranks ==
  ASSUME NEW j \in Job
  PROVE  /\ Load(j.left) \in 0 .. 4 /\ Rank(j) \in Nat
         /\ j.pc = "idle" => Rank(j) = 0
         /\ j.pc \in {"reset", "host", "listen"} => Rank(j) = 1
         /\ j.pc = "task" => Rank(j) = 2
         /\ j.pc = "queue" => Rank(j) = 3
         /\ j.pc \in {"close", "save"} => Rank(j) = 4
         /\ j.pc = "wait" => Rank(j) = 4 + Load(j.left)
         /\ j.pc = "part" => Rank(j) = 5 + Load(j.left)
         /\ j.pc = "start" => Rank(j) = 6 + Load(j.left)
         /\ j.pc = "on" => Rank(j) = 7 + Load(j.left)
         /\ j.pc = "off" => Rank(j) = 8 + Load(j.left)
<1>1. Load(j.left) \in 0 .. 4
  BY DEF Load
<1> HIDE DEF Load
<1>2. /\ Stage["idle"] = 0 /\ Stage["reset"] = 1 /\ Stage["host"] = 1
      /\ Stage["listen"] = 1 /\ Stage["task"] = 2 /\ Stage["queue"] = 3
      /\ Stage["close"] = 4 /\ Stage["save"] = 4 /\ Stage["wait"] = 4
      /\ Stage["part"] = 5 /\ Stage["start"] = 6 /\ Stage["on"] = 7 /\ Stage["off"] = 8
  BY DEF Stage
<1>3. j.pc \in {"idle", "reset", "host", "close", "queue", "task", "listen",
                "off", "on", "start", "part", "wait", "save"}
  BY DEF Job
<1> QED
  BY <1>1, <1>2, <1>3 DEF Rank

\* A part that has been tried is two steps less.
LEMMA LoadLess ==
  ASSUME NEW S \in SUBSET Part, NEW o \in Part
  PROVE  /\ Load(S) \in 0 .. 4 /\ Load(S \ {o}) <= Load(S)
         /\ o \in S => Load(S \ {o}) + 2 = Load(S)
BY DEF Load, Part

(* A thread that tries a part has it before it.                            *)
LeftOK == \A a \in Actor : job[a].pc = "wait" => job[a].part \in job[a].left

\* A thread at work comes nearer to the end of its job.
LEMMA WorkingFinishes ==
  ASSUME TypeOK, TypeOK', PartOK, LeftOK, NEW a \in Actor, Working(a), ~SysReset(a)
  PROVE  Finishes(a)
<1>0. /\ job \in [Actor -> Job] /\ job[a] \in Job /\ job'[a] \in Job
      /\ Load(job[a].left) \in 0 .. 4
  BY Ranks DEF TypeOK
<1>1. /\ \A b \in Actor \ {a} : job'[b] = job[b]
      /\ queue' \in {queue, <<>>} /\ UNCHANGED <<pend, due>>
  <2>1. queue' \in {queue, <<>>} /\ UNCHANGED <<pend, due>>
    <3>1. CASE WriteHost(a) \/ CloseServer(a) \/ CreateQueue(a) \/ CreateTask(a) \/ Listen(a)
      BY <3>1 DEF WriteHost, CloseServer, CreateQueue, CreateTask, Listen, delayed
    <3>2. CASE RadioOff(a) \/ RadioFails(a) \/ PartFails(a) \/ PartWorks(a)
               \/ SetRunMode(a) \/ SaveMode(a)
      BY <3>2 DEF RadioOff, RadioFails, PartFails, PartWorks, SetRunMode, SaveMode, delayed
    <3>3. CASE Radio(a)
      BY <3>3, RadioStep DEF delayed
    <3> QED
      BY <3>1, <3>2, <3>3 DEF Working, Radio
  <2> QED
    BY <2>1, WorkingOne
<1>2. /\ Idle \in Job /\ Rank(Idle) = 0
      /\ \A p \in Ports \cup {NoPort} : Rank(WebserverInit(p)) = 3
      /\ Returned(a) \in Job /\ Rank(Returned(a)) \in {0, 3}
  <2>1. Idle \in Job /\ Rank(Idle) = 0
    BY Ranks, JobTypes, CalledPc
  <2>2. ASSUME NEW p \in Ports \cup {NoPort} PROVE Rank(WebserverInit(p)) = 3
    BY Ranks, JobTypes, CalledPc
  <2> QED
    BY <2>1, <2>2, JobTypes DEF Returned, TypeOK
<1>3. CASE WriteHost(a)
  <2>1. job[a].pc = "host" /\ job'[a] = Idle
    BY <1>0, <1>3 DEF WriteHost
  <2>2. Rank(job[a]) = 1
    BY <1>0, <2>1, Ranks
  <2> QED
    BY <1>1, <1>2, <2>1, <2>2 DEF Finishes
<1>4. CASE CloseServer(a)
  <2>1. job[a].pc = "close" /\ (job'[a] = Idle \/ job'[a] = WebserverInit(port))
    BY <1>0, <1>4 DEF CloseServer
  <2>2. Rank(job[a]) = 4 /\ port \in Ports \cup {NoPort}
    BY <1>0, <2>1, Ranks DEF TypeOK
  <2>3. Rank(job'[a]) \in {0, 3}
    BY <1>2, <2>1, <2>2
  <2> QED
    BY <1>1, <2>2, <2>3 DEF Finishes
<1>5. CASE CreateQueue(a)
  <2>1. job[a].pc = "queue" /\ job'[a].pc = "task"
    BY <1>0, <1>5 DEF CreateQueue, Job
  <2>2. Rank(job[a]) = 3 /\ Rank(job'[a]) = 2
    BY <1>0, <2>1, Ranks
  <2> QED
    BY <1>1, <2>2 DEF Finishes
<1>6. CASE CreateTask(a)
  <2>1. job[a].pc = "task" /\ (job'[a].pc = "listen" \/ job'[a] = Idle)
    BY <1>0, <1>6 DEF CreateTask, Job
  <2>2. Rank(job[a]) = 2 /\ Rank(job'[a]) \in {0, 1}
    BY <1>0, <1>2, <2>1, Ranks
  <2> QED
    BY <1>1, <2>2 DEF Finishes
<1>7. CASE Listen(a)
  <2>1. job[a].pc = "listen" /\ job'[a] = Idle
    BY <1>0, <1>7 DEF Listen
  <2>2. Rank(job[a]) = 1
    BY <1>0, <2>1, Ranks
  <2> QED
    BY <1>1, <1>2, <2>1, <2>2 DEF Finishes
<1>8. CASE RadioOff(a)
  <2>1. /\ job[a].pc = "off"
        /\ (job'[a].pc = "on" /\ job'[a].left = job[a].left) \/ job'[a] = Returned(a)
    BY <1>0, <1>8 DEF RadioOff, Job
  <2>2. Rank(job[a]) = 8 + Load(job[a].left)
    BY <1>0, <2>1, Ranks
  <2>3. Rank(job'[a]) = 7 + Load(job[a].left) \/ Rank(job'[a]) \in {0, 3}
    BY <1>0, <1>2, <2>1, Ranks
  <2>4. Rank(job'[a]) < Rank(job[a])
    BY <1>0, <2>2, <2>3
  <2> QED
    BY <1>1, <2>4 DEF Finishes
<1>8a. CASE RadioFails(a)
  <2>1. job[a].pc = "start" /\ job'[a] = Returned(a)
    BY <1>0, <1>8a DEF RadioFails
  <2>2. Rank(job[a]) = 6 + Load(job[a].left) /\ Rank(job'[a]) \in {0, 3}
    BY <1>0, <1>2, <2>1, Ranks
  <2>3. Rank(job'[a]) < Rank(job[a])
    BY <1>0, <2>2
  <2> QED
    BY <1>1, <2>3 DEF Finishes
<1>9. CASE Radio(a)
  <2> DEFINE L == Load(job[a].left)
  <2>1. \/ Rank(job[a]) = 7 + L /\ Rank(job'[a]) = 6 + L
        \/ Rank(job[a]) = 6 + L /\ Rank(job'[a]) = 5 + L
        \/ Rank(job[a]) = 5 + L /\ Rank(job'[a]) = 4 + L
        \/ /\ Rank(job[a]) = 5 + L
           /\ \E o \in Part : o \in job[a].left /\ Rank(job'[a]) = 5 + Load(job[a].left \ {o})
    <3>1. CASE job[a].pc = "on" /\ job'[a].pc = "start" /\ job'[a].left = job[a].left
      BY <1>0, <3>1, Ranks
    <3>2. CASE job[a].pc = "start" /\ job'[a].pc = "part" /\ job'[a].left = job[a].left
      BY <1>0, <3>2, Ranks
    <3>3. CASE job[a].pc = "part" /\ job'[a].pc = "wait" /\ job'[a].left = job[a].left
      BY <1>0, <3>3, Ranks
    <3>4. CASE /\ job[a].pc = "part" /\ job'[a].pc = "part"
               /\ \E o \in Part : o \in job[a].left /\ job'[a].left = job[a].left \ {o}
      BY <1>0, <3>4, Ranks
    <3> QED
      BY <1>9, <3>1, <3>2, <3>3, <3>4, RadioStep
  <2>2. L \in 0 .. 4
    BY <1>0
  <2>3. \A o \in Part : o \in job[a].left =>
          Load(job[a].left \ {o}) \in 0 .. 4 /\ Load(job[a].left \ {o}) + 2 = L
    <3>1. job[a].left \in SUBSET Part
      BY <1>0 DEF Job
    <3>2. \A o \in Part : job[a].left \ {o} \in SUBSET Part
      BY <3>1
    <3> QED
      BY <3>1, <3>2, LoadLess
  <2> HIDE DEF L
  <2>4. Rank(job'[a]) < Rank(job[a])
    <3>1. CASE \/ Rank(job[a]) = 7 + L /\ Rank(job'[a]) = 6 + L
               \/ Rank(job[a]) = 6 + L /\ Rank(job'[a]) = 5 + L
               \/ Rank(job[a]) = 5 + L /\ Rank(job'[a]) = 4 + L
      BY <2>2, <3>1
    <3>2. ASSUME NEW o \in Part, o \in job[a].left, Rank(job[a]) = 5 + L,
                 Rank(job'[a]) = 5 + Load(job[a].left \ {o})
          PROVE  Rank(job'[a]) < Rank(job[a])
      <4> DEFINE K == Load(job[a].left \ {o})
      <4>1. K \in 0 .. 4 /\ K + 2 = L
        BY <2>3, <3>2
      <4> HIDE DEF K
      <4> QED
        BY <2>2, <3>2, <4>1 DEF K
    <3> QED
      BY <2>1, <3>1, <3>2
  <2> QED
    BY <1>1, <2>4 DEF Finishes
<1>10. CASE PartFails(a) \/ PartWorks(a)
  <2>1. /\ job[a].pc = "wait" /\ job'[a].pc = "part"
        /\ job'[a].left = job[a].left \ {job[a].part}
    BY <1>0, <1>10 DEF PartFails, PartWorks, Ended, Job
  <2>2. /\ Rank(job[a]) = 4 + Load(job[a].left)
        /\ Rank(job'[a]) = 5 + Load(job[a].left \ {job[a].part})
    BY <1>0, <2>1, Ranks
  <2>3. job[a].part \in Part /\ job[a].part \in job[a].left /\ job[a].left \in SUBSET Part
    BY <1>0, <2>1 DEF PartOK, LeftOK, Job
  <2>4. Load(job[a].left \ {job[a].part}) + 2 = Load(job[a].left)
    BY <2>3, LoadLess
  <2>5. Load(job[a].left \ {job[a].part}) \in 0 .. 4
    BY <2>3, LoadLess
  <2>6. Rank(job'[a]) < Rank(job[a])
    BY <1>0, <2>2, <2>4, <2>5
  <2> QED
    BY <1>1, <2>6 DEF Finishes
<1>11. CASE SetRunMode(a)
  <2>1. job[a].pc = "part" /\ (job'[a].pc = "save" \/ job'[a] = Returned(a))
    BY <1>0, <1>11 DEF SetRunMode, Job
  <2>2. Rank(job[a]) = 5 + Load(job[a].left) /\ Rank(job'[a]) \in {0, 3, 4}
    BY <1>0, <1>2, <2>1, Ranks
  <2>3. Rank(job'[a]) < Rank(job[a])
    BY <1>0, <2>2
  <2> QED
    BY <1>1, <2>3 DEF Finishes
<1>12. CASE SaveMode(a)
  <2>1. job[a].pc = "save" /\ job'[a] = Returned(a)
    BY <1>0, <1>12 DEF SaveMode
  <2>2. Rank(job[a]) = 4 /\ Rank(job'[a]) \in {0, 3}
    BY <1>0, <1>2, <2>1, Ranks
  <2> QED
    BY <1>1, <2>2 DEF Finishes
<1> QED
  BY <1>3, <1>4, <1>5, <1>6, <1>7, <1>8, <1>8a, <1>9, <1>10, <1>11, <1>12 DEF Working, Radio

\* A task that looks at its queue leaves fewer items to look at.
LEMMA WaitingTakes ==
  ASSUME TypeOK, NEW t \in Task, Waiting(t)
  PROVE  Takes(t)
<1>0. /\ t \in Actor /\ Len(queue) \in Nat
      /\ pend \in [Task -> Item \cup {NoItem}] /\ due \in [Task -> BOOLEAN]
      /\ \A i \in Item : i # NoItem
  BY Actors, LenProperties DEF TypeOK, Item, NoItem
<1>1. \A b \in Actor \ {t} : job'[b] = job[b]
  BY WaitingOne
<1>2. \A u \in Task \ {t} : Owing(u)' = Owing(u)
  BY <1>0 DEF Waiting, ReceiveWait, ReceiveRun, Passes, RunPending, Owing
<1>3. ASSUME queue # <<>>, queue' = Tail(queue)
      PROVE  Len(queue') = Len(queue) - 1
  BY <1>3, HeadTailProperties DEF TypeOK
<1>4. Owing(t) \in 0 .. 2 /\ Owing(t)' \in 0 .. 2
  BY DEF Owing
<1>5. CASE ReceiveWait(t)
  <2>1. Len(queue') = Len(queue) - 1
    BY <1>3, <1>5 DEF ReceiveWait
  <2>2. 3 * Len(queue') + Owing(t)' < 3 * Len(queue) + Owing(t)
    BY <1>0, <1>4, <2>1
  <2> QED
    BY <1>1, <1>2, <2>2 DEF Takes
<1>6. CASE ReceiveRun(t)
  <2>1. Len(queue') = Len(queue) - 1
    BY <1>3, <1>6 DEF ReceiveRun
  <2>2. 3 * Len(queue') + Owing(t)' < 3 * Len(queue) + Owing(t)
    BY <1>0, <1>4, <2>1
  <2> QED
    BY <1>1, <1>2, <2>2 DEF Takes
<1>7. CASE Passes(t)
  <2>1. queue' = queue /\ Owing(t) = 2 /\ Owing(t)' = 1
    BY <1>0, <1>7 DEF Passes, Owing
  <2>2. 3 * Len(queue') + Owing(t)' < 3 * Len(queue) + Owing(t)
    BY <1>0, <2>1
  <2> QED
    BY <1>1, <1>2, <2>2 DEF Takes
<1>8. CASE RunPending(t)
  <2>1. queue' = queue /\ Owing(t) = 1 /\ Owing(t)' = 0
    BY <1>0, <1>8 DEF RunPending, Owing
  <2>2. 3 * Len(queue') + Owing(t)' < 3 * Len(queue) + Owing(t)
    BY <1>0, <2>1
  <2> QED
    BY <1>1, <1>2, <2>2 DEF Takes
<1> QED
  BY <1>5, <1>6, <1>7, <1>8 DEF Waiting

\* A part is taken from what is left, whatever the other threads do.
LEMMA LeftStep ==
  ASSUME TypeOK, TypeOK', PartOK, LeftOK, [Next]_vars
  PROVE  LeftOK'
<1> USE DEF LeftOK
<1>0. /\ job \in [Actor -> Job] /\ job' \in [Actor -> Job]
      /\ \A a \in Actor : Returned(a).pc # "wait"
  BY CalledPc DEF Returned, TypeOK
<1>1. ASSUME UNCHANGED job PROVE LeftOK'
  BY <1>1
<1>2. CASE Requests
  <2>1. ASSUME NEW objs, NEW threads, Changed(objs, threads) PROVE LeftOK'
    BY <2>1, ChangedTypes
  <2> QED
    BY <1>1, <1>2, <2>1
    DEF Requests, CfgPort, Ask, SysRestart, NewCfg, Hostname, SaveNow, SaveAtClose,
        Edit, SetMode, RdCfg, WifiSave
<1>3. ASSUME NEW p \in Ports, ConnCloses(p) PROVE LeftOK'
  BY <1>1, <1>3 DEF ConnCloses
<1>4. ASSUME NEW t \in Task, Waiting(t) PROVE LeftOK'
  <2>1. CASE ReceiveRun(t)
    <3>1. Head(queue) \in Item
      BY <2>1, HeadTailProperties DEF ReceiveRun, TypeOK
    <3> QED BY <1>0, <2>1, <3>1, CalledPc DEF ReceiveRun
  <2>2. CASE RunPending(t)
    <3>1. pend[t] \in Item
      BY <2>2 DEF RunPending, TypeOK
    <3> QED BY <1>0, <2>2, <3>1, CalledPc DEF RunPending
  <2>3. CASE ReceiveWait(t) \/ Passes(t)
    BY <1>1, <2>3 DEF ReceiveWait, Passes, web
  <2> QED BY <1>4, <2>1, <2>2, <2>3 DEF Waiting
<1>5. ASSUME Booted PROVE LeftOK'
  BY <1>5, CalledPc DEF Booted
<1>6. ASSUME NEW a \in Actor, Working(a), ~SysReset(a) PROVE LeftOK'
  <2>1. \A b \in Actor \ {a} : job'[b] = job[b]
    BY <1>6, WorkingOne
  <2>2. CASE WriteHost(a) \/ CloseServer(a) \/ Listen(a) \/ SaveMode(a)
    BY <1>0, <2>1, <2>2, CalledPc DEF WriteHost, CloseServer, Listen, SaveMode
  <2>3. CASE CreateQueue(a) \/ CreateTask(a)
    BY <1>0, <2>1, <2>3, CalledPc DEF CreateQueue, CreateTask, Job
  <2>4. CASE RadioOff(a) \/ RadioFails(a) \/ SetRunMode(a)
    BY <1>0, <2>1, <2>4 DEF RadioOff, RadioFails, SetRunMode, Job
  <2>5. CASE Radio(a)
    BY <2>1, <2>5, RadioStep
  <2>6. CASE PartFails(a) \/ PartWorks(a)
    <3>1. job'[a].pc = "part"
      BY <1>0, <2>6 DEF PartFails, PartWorks, Ended, Job
    <3> QED BY <2>1, <3>1
  <2> QED BY <1>6, <2>2, <2>3, <2>4, <2>5, <2>6 DEF Working, Radio
<1>7. CASE UNCHANGED vars
  BY <1>1, <1>7 DEF vars
<1> QED
  BY <1>2, <1>3, <1>4, <1>5, <1>6, <1>7 DEF Next, PowerFails, SysReset

\* The tasks of web_qfn are there before what they are for.
LEMMA AttendedStep ==
  ASSUME TypeOK, TypeOK', AttendedInv, [Next]_vars
  PROVE  AttendedInv'
<1> USE DEF AttendedInv
<1>0. /\ job \in [Actor -> Job] /\ tasks \in Nat /\ 0 \in Actor /\ 0 \notin Task
      /\ pend \in [Task -> Item \cup {NoItem}] /\ Idle.pc = "idle"
  BY Actors, CalledPc, ControlAssumption DEF TypeOK, Actor, ControlAssumption
<1>1. CASE Requests
  <2>1. UNCHANGED <<tasks, pend, servers>>
    BY <1>1 DEF Requests, CfgPort, Ask, SysRestart, NewCfg, Hostname, SaveNow, SaveAtClose,
                Edit, SetMode, RdCfg, WifiSave, delayed, web
  <2> QED
    BY <1>0, <1>1, <2>1, RequestJobs
<1>2. ASSUME NEW p \in Ports, ConnCloses(p) PROVE AttendedInv'
  BY <1>2 DEF ConnCloses, delayed
<1>3. ASSUME NEW t \in Task, Waiting(t) PROVE AttendedInv'
  <2>1. UNCHANGED <<tasks, servers>> /\ (queue = <<>> => queue' = <<>>)
    BY <1>3 DEF Waiting, ReceiveWait, ReceiveRun, Passes, RunPending, web
  <2>2. ASSUME NEW u \in Task, pend'[u] # NoItem PROVE u <= tasks'
    <3>1. CASE ReceiveWait(t) /\ u = t
      BY <1>0, <2>1, <3>1 DEF ReceiveWait, Free
    <3>2. CASE ~(ReceiveWait(t) /\ u = t)
      BY <1>0, <1>3, <2>1, <2>2, <3>2 DEF Waiting, ReceiveWait, ReceiveRun, Passes, RunPending
    <3> QED
      BY <3>1, <3>2
  <2>3. job'[0] = job[0] /\ \A b \in Actor \ {t} : job'[b] = job[b]
    BY <1>0, <1>3, WaitingOne
  <2>4. job'[t] = job[t] \/ \E i \in Item : job'[t] = Called(i)
    <3>1. queue # <<>> => Head(queue) \in Item
      BY HeadTailProperties DEF TypeOK
    <3> QED
      BY <1>0, <1>3, <3>1, Actors DEF Waiting, ReceiveWait, ReceiveRun, Passes, RunPending
  <2>5. \A i \in Item : Called(i).pc # "listen"
    BY DEF Called, WifiRun, Idle, Item
  <2> QED
    BY <2>1, <2>2, <2>3, <2>4, <2>5
<1>4. ASSUME NEW a \in Actor, Working(a), ~SysReset(a) PROVE AttendedInv'
  <2>0. \A b \in Actor \ {a} : job'[b] = job[b]
    BY <1>4, WorkingOne
  <2>1. CASE CreateTask(a)
    <3>1. \/ tasks' = tasks + 1 /\ job'[a].pc = "listen"
          \/ tasks' = tasks /\ job'[a] = Idle
      BY <1>0, <2>1 DEF CreateTask, Job
    <3>2. UNCHANGED <<queue, pend, servers>>
      BY <2>1 DEF CreateTask
    <3>3. tasks' \in Nat /\ tasks <= tasks' /\ (tasks # 0 => tasks' # 0)
      BY <1>0, <3>1
    <3>4. \A t \in Task : pend'[t] # NoItem => t <= tasks'
      BY <1>0, <3>2, <3>3 DEF Task
    <3> QED
      BY <1>0, <2>0, <3>1, <3>2, <3>3, <3>4
  <2>2. CASE ~CreateTask(a)
    <3>1. /\ UNCHANGED <<tasks, pend>> /\ queue' \in {queue, <<>>}
          /\ servers' # {} => servers # {} \/ tasks # 0
      <4>1. CASE WriteHost(a) \/ CloseServer(a) \/ CreateQueue(a) \/ Listen(a)
        BY <4>1 DEF WriteHost, CloseServer, CreateQueue, Listen, delayed, web
      <4>2. CASE RadioOff(a) \/ RadioFails(a) \/ PartFails(a) \/ PartWorks(a)
                 \/ SetRunMode(a) \/ SaveMode(a)
        BY <4>2 DEF RadioOff, RadioFails, PartFails, PartWorks, SetRunMode, SaveMode, delayed, web
      <4>3. CASE Radio(a)
        BY <4>3, RadioStep DEF delayed, web
      <4> QED
        BY <1>4, <2>2, <4>1, <4>2, <4>3 DEF Working, Radio
    <3>2. job'[a] = Idle \/ job'[a].pc \notin {"listen", "idle"}
      <4>0. job[a] \in Job /\ Returned(a) \in {Idle, WebserverInit(port)}
        BY <1>0 DEF Returned
      <4>1. CASE WriteHost(a) \/ CloseServer(a) \/ Listen(a) \/ SaveMode(a)
        BY <1>0, <4>0, <4>1, CalledPc DEF WriteHost, CloseServer, Listen, SaveMode
      <4>2. CASE CreateQueue(a)
        BY <1>0, <4>0, <4>2 DEF CreateQueue, Job
      <4>3. CASE RadioOff(a) \/ RadioFails(a) \/ SetRunMode(a)
        BY <1>0, <4>0, <4>3, CalledPc DEF RadioOff, RadioFails, SetRunMode, Job
      <4>4. CASE Radio(a)
        BY <4>4, RadioStep
      <4>5. CASE PartFails(a) \/ PartWorks(a)
        BY <1>0, <4>0, <4>5 DEF PartFails, PartWorks, Ended, Job
      <4> QED
        BY <1>4, <2>2, <4>1, <4>2, <4>3, <4>4, <4>5 DEF Working, Radio
    <3> QED
      BY <1>0, <2>0, <3>1, <3>2
  <2> QED
    BY <2>1, <2>2
<1>5. ASSUME Booted PROVE AttendedInv'
  <2>1. job'[0] = WifiRun(savedMode) /\ \A a \in Actor \ {0} : job'[a] = Idle
    BY <1>0, <1>5 DEF Booted
  <2>2. /\ servers' = {} /\ queue' = <<>>
        /\ \A t \in Task : pend'[t] = NoItem
    BY <1>5 DEF Booted
  <2> QED
    BY <1>0, <2>1, <2>2, CalledPc
<1>6. CASE UNCHANGED vars
  BY <1>6 DEF vars, delayed, web
<1> QED
  BY <1>1, <1>2, <1>3, <1>4, <1>5, <1>6 DEF Next, PowerFails, SysReset

(***************************************************************************)
(* The safety half of RestartEnds.  While a restart of the server is on    *)
(* its way some thread has a step to take; each step of a thread at work   *)
(* brings it nearer to the end of its job, without more work for another,  *)
(* and each look of a task at its queue leaves fewer items to look at.  So *)
(* between two requests there are so many steps and no more, and they end  *)
(* where no restart is on its way.                                         *)
(***************************************************************************)
THEOREM RestartAlwaysAdvances == Spec => [](Restarting => Attended) /\ Settles
<1> DEFINE AInv == LeftOK /\ AttendedInv
<1>1. Init => AInv
  <2> SUFFICES ASSUME Init PROVE AInv
    OBVIOUS
  <2>1. /\ job[0] = WifiRun(savedMode)
        /\ \A a \in Actor : job[a] \in {WifiRun(savedMode), Idle}
    BY Actors DEF Init
  <2>2. \A a \in Actor : job[a].pc \in {"off", "idle"}
    BY <2>1, CalledPc
  <2> QED
    BY <2>1, <2>2, CalledPc DEF Init, LeftOK, AttendedInv
<1>2. TInv /\ TInv' /\ AInv /\ [Next]_vars => AInv'
  BY LeftStep, AttendedStep DEF TInv
<1>3. TInv /\ AInv => (Restarting => Attended)
  <2> SUFFICES ASSUME TypeOK, AttendedInv, Restarting PROVE Attended
    BY DEF TInv
  <2>1. ASSUME NEW i \in DOMAIN queue PROVE Attended
    <3>1. queue # <<>>
      BY <2>1
    <3>2. 1 \in Task /\ 1 <= tasks
      BY <3>1, ControlAssumption DEF AttendedInv, TypeOK, Task, Actor, ControlAssumption
    <3> QED
      BY <3>1, <3>2 DEF Attended
  <2>2. ASSUME NEW t \in Task, pend[t].fn = "reinit" PROVE Attended
    BY <2>2 DEF Attended, AttendedInv, NoItem
  <2>3. ASSUME NEW a \in Actor, job[a].pc \in {"close", "queue", "task", "listen"} PROVE Attended
    BY <2>3 DEF Attended
  <2>4. CASE job[0] # Idle
    BY <2>4, Actors DEF Attended, AttendedInv
  <2> QED
    BY <2>1, <2>2, <2>3, <2>4 DEF Restarting
<1>4. TInv /\ TInv' /\ AInv =>
        /\ \A a \in Actor : Working(a) => SysReset(a) \/ Finishes(a)
        /\ \A t \in Task : Waiting(t) => Takes(t)
  BY WorkingFinishes, WaitingTakes DEF TInv
<1> HIDE DEF AInv
<1> QED
  BY <1>1, <1>2, <1>3, <1>4, TInvInvariant, PTL DEF Spec, Settles

=============================================================================
