----------------------------- MODULE FilesProofs ----------------------------
(***************************************************************************)
(* Files: a descriptor is used for the file it was opened for, by the      *)
(* worker and by the kernel, for any number of files, handles, calls and   *)
(* descriptors and any number of tokens.  Two things make it so: a         *)
(* descriptor that is open has one owner, be it a result, a task, a handle *)
(* or the call that will close it, and that call is behind every other     *)
(* call on the descriptor on its way to the worker.                        *)
(***************************************************************************)
EXTENDS Files, QueueLemmas

OpenCalls == [kind : {"open"}, op : Opening, fd : {NoFd}, file : Opening]
MetaCalls == [kind : {"meta"}, op : Meta, fd : Fd, file : Opening]
CloseCalls == [kind : {"close"}, op : Opening, fd : Fd, file : Opening]
DmaCalls == [kind : {"dma"}, op : Request, fd : Fd, file : Opening]
OpenedCalls == [kind : {"open"}, op : Opening, fd : Fd, file : Opening]

SysCalls == OpenCalls \cup MetaCalls \cup CloseCalls
Calls == SysCalls \cup DmaCalls
DoneCalls == SysCalls \cup OpenedCalls

FileTasks == {FileTask(o, fd) : o \in Opening, fd \in Fd}
Task == {UserTask} \cup {PushTask(c) : c \in SysCalls} \cup FileTasks
          \cup {SubmitTask(c, b) : c \in DmaCalls, b \in BOOLEAN}

Typing ==
  /\ tasks \in Seq(Task)
  /\ sysSem \in [tokens : Nat, waiting : Seq(Clients(SysCalls))]
  /\ calls \in Seq(SysCalls) /\ results \in Seq(DoneCalls)
  /\ ioSem \in [tokens : Nat, waiting : Seq(Clients(DmaCalls))]
  /\ aio \subseteq DmaCalls /\ IsFiniteSet(aio)
  /\ table \in [Fd -> Opening \cup {NoFile}]
  /\ fd_ \in [Handle -> Fd \cup {NoFd}]

-----------------------------------------------------------------------------
(* Calls and tasks.                                                        *)

LEMMA CallForms ==
  /\ \A o \in Opening : OpenCall(o) \in OpenCalls /\ OpenCall(o).kind = "open"
  /\ \A m \in Meta, fd \in Fd : table[fd] \in Opening =>
       CallOn("meta", m, fd) \in MetaCalls /\ CallOn("meta", m, fd).fd = fd
         /\ CallOn("meta", m, fd).file = table[fd] /\ CallOn("meta", m, fd).kind = "meta"
  /\ \A o \in Opening, fd \in Fd : table[fd] \in Opening =>
       CallOn("close", o, fd) \in CloseCalls /\ CallOn("close", o, fd).fd = fd
         /\ CallOn("close", o, fd).file = table[fd] /\ CallOn("close", o, fd).kind = "close"
  /\ \A r \in Request, fd \in Fd : table[fd] \in Opening =>
       CallOn("dma", r, fd) \in DmaCalls /\ CallOn("dma", r, fd).fd = fd
         /\ CallOn("dma", r, fd).file = table[fd] /\ CallOn("dma", r, fd).kind = "dma"
BY DEF OpenCall, CallOn, OpenCalls, MetaCalls, CloseCalls, DmaCalls

\* What a call has.
LEMMA CallKinds ==
  /\ \A c \in SysCalls : c.kind \in {"open", "meta", "close"}
  /\ \A c \in Calls : c.kind # "open" => c.fd \in Fd /\ c.file \in Opening
  /\ \A c \in DoneCalls : c.kind = "open" => c.op \in Opening /\ c.fd \in Fd \cup {NoFd}
  /\ \A c \in DmaCalls : c.kind = "dma"
  /\ \A c \in DoneCalls : c \in OpenedCalls <=> c.kind = "open" /\ c.fd # NoFd
<1>1. NoFd \notin Fd
  BY FilesAssumption
<1>2. \A c \in OpenCalls : c.kind = "open" /\ c.op \in Opening /\ c.fd = NoFd
  BY DEF OpenCalls
<1>3. \A c \in MetaCalls : c.kind = "meta" /\ c.fd \in Fd /\ c.file \in Opening
  BY DEF MetaCalls
<1>4. \A c \in CloseCalls : c.kind = "close" /\ c.fd \in Fd /\ c.file \in Opening
  BY DEF CloseCalls
<1>5. \A c \in DmaCalls : c.kind = "dma" /\ c.fd \in Fd /\ c.file \in Opening
  BY DEF DmaCalls
<1>6. \A c \in OpenedCalls : c.kind = "open" /\ c.op \in Opening /\ c.fd \in Fd
  BY DEF OpenedCalls
<1> QED BY <1>1, <1>2, <1>3, <1>4, <1>5, <1>6 DEF SysCalls, Calls, DoneCalls

LEMMA TaskForms ==
  /\ UserTask \in Task /\ UserTask.kind = "user"
  /\ \A c \in SysCalls : PushTask(c) \in Task /\ PushTask(c).kind = "push" /\ PushTask(c).call = c
  /\ \A o \in Opening, fd \in Fd :
       FileTask(o, fd) \in FileTasks /\ FileTask(o, fd).kind = "file"
         /\ FileTask(o, fd).file = o /\ FileTask(o, fd).fd = fd
  /\ \A c \in DmaCalls, b \in BOOLEAN :
       SubmitTask(c, b) \in Task /\ SubmitTask(c, b).kind = "submit"
         /\ SubmitTask(c, b).call = c /\ SubmitTask(c, b).waited = b
  /\ FileTasks \subseteq Task
<1>1. UserTask \in Task /\ FileTasks \subseteq Task
  BY DEF Task
<1>2. UserTask.kind = "user"
  BY DEF UserTask
<1>3. ASSUME NEW c \in SysCalls
      PROVE  PushTask(c) \in Task /\ PushTask(c).kind = "push" /\ PushTask(c).call = c
  <2>1. PushTask(c) \in Task
    BY DEF Task
  <2> QED BY <2>1 DEF PushTask
<1>4. ASSUME NEW o \in Opening, NEW fd \in Fd
      PROVE  FileTask(o, fd) \in FileTasks /\ FileTask(o, fd).kind = "file"
               /\ FileTask(o, fd).file = o /\ FileTask(o, fd).fd = fd
  <2>1. FileTask(o, fd) \in FileTasks
    BY DEF FileTasks
  <2> QED BY <2>1 DEF FileTask
<1>5. ASSUME NEW c \in DmaCalls, NEW b \in BOOLEAN
      PROVE  SubmitTask(c, b) \in Task /\ SubmitTask(c, b).kind = "submit"
               /\ SubmitTask(c, b).call = c /\ SubmitTask(c, b).waited = b
  <2>1. SubmitTask(c, b) \in Task
    BY DEF Task
  <2> QED BY <2>1 DEF SubmitTask
<1> QED BY <1>1, <1>2, <1>3, <1>4, <1>5

\* What a task is of.
LEMMA TaskKinds ==
  ASSUME NEW t \in Task
  PROVE  /\ t.kind \in {"user", "push", "file", "submit"}
         /\ t.kind = "push" => t.call \in SysCalls
         /\ t.kind = "file" => t \in FileTasks /\ t.file \in Opening /\ t.fd \in Fd
         /\ t.kind = "submit" => t.call \in DmaCalls /\ t.waited \in BOOLEAN
         /\ t \in FileTasks => t.kind = "file"
<1>1. ASSUME NEW u \in FileTasks PROVE u.kind = "file" /\ u.file \in Opening /\ u.fd \in Fd
  <2>1. PICK o \in Opening, fd \in Fd : u = FileTask(o, fd)
    BY DEF FileTasks
  <2> QED BY <2>1, TaskForms
<1>2. CASE t = UserTask
  BY <1>1, <1>2, TaskForms
<1>3. CASE \E c \in SysCalls : t = PushTask(c)
  BY <1>1, <1>3, TaskForms
<1>4. CASE t \in FileTasks
  BY <1>1, <1>4
<1>5. CASE \E c \in DmaCalls, b \in BOOLEAN : t = SubmitTask(c, b)
  BY <1>1, <1>5, TaskForms
<1>6. \/ t = UserTask
      \/ \E c \in SysCalls : t = PushTask(c)
      \/ t \in FileTasks
      \/ \E c \in DmaCalls, b \in BOOLEAN : t = SubmitTask(c, b)
  BY DEF Task
<1> QED BY <1>2, <1>3, <1>4, <1>5, <1>6

-----------------------------------------------------------------------------
(* The invariant.                                                          *)

\* The calls that wait for their task: those that nothing can get ahead of, and
\* the requests that had to wait for a token.
FirmTasks == {t \in Task : t.kind = "push" \/ (t.kind = "submit" /\ ~t.waited)}
LateTasks == {t \in Task : t.kind = "submit" /\ t.waited}
FirmCalls(T) == {t.call : t \in T \cap FirmTasks}
LateCalls(T) == {t.call : t \in T \cap LateTasks}
WaitCalls(q) == {w.who : w \in Items(q)}

Lined == Items(calls) \cup FirmCalls(Items(tasks)) \cup WaitCalls(sysSem.waiting)
Late == LateCalls(Items(tasks)) \cup WaitCalls(ioSem.waiting)

\* What CallsReachTheirFile says of calls, and RequestsReachTheirFile.
Reach == \A c \in Lined : c.kind # "open" => table[c.fd] = c.file

Overtake ==
  /\ \A c \in Late : table[c.fd] = c.file \/ c.file \in closed
  /\ \A c \in Lined : c.kind = "close" => c.file \in closed

\* The close of a descriptor and a call on it, and the tasks and the clients of
\* the semaphore that are of two such calls.
Bad == {p \in Calls \X Calls : p[1].kind = "close" /\ p[2].kind # "open" /\ p[1].fd = p[2].fd}
BadTasks == {p \in FirmTasks \X FirmTasks : <<p[1].call, p[2].call>> \in Bad}
BadClients == {p \in Clients(SysCalls) \X Clients(SysCalls) : <<p[1].who, p[2].who>> \in Bad}

\* No call on a descriptor is behind its close.
ClosedLast ==
  /\ Ordered(calls, Bad) /\ Ordered(tasks, BadTasks) /\ Ordered(sysSem.waiting, BadClients)
  /\ Apart(Items(calls), FirmCalls(Items(tasks)), Bad)
  /\ Apart(Items(calls), WaitCalls(sysSem.waiting), Bad)
  /\ Apart(FirmCalls(Items(tasks)), WaitCalls(sysSem.waiting), Bad)

\* Who has a descriptor: the result of its open, the task that makes the File, a
\* handle, the call that closes it.
FdOfResult == [c \in OpenedCalls |-> c.fd]
FdOfTask == [t \in FileTasks |-> t.fd]
Closing == {c \in Lined : c.kind = "close"}

Owners ==
  /\ Once(results, OpenedCalls, FdOfResult) /\ Once(tasks, FileTasks, FdOfTask)
  /\ \A h, g \in Handle : fd_[h] # NoFd /\ fd_[h] = fd_[g] => h = g
  /\ \A c \in Items(results) \cap OpenedCalls :
       /\ table[c.fd] = c.op
       /\ \A t \in Items(tasks) \cap FileTasks : t.fd # c.fd
       /\ \A h \in Handle : fd_[h] # c.fd
       /\ \A x \in Closing : x.fd # c.fd
  /\ \A t \in Items(tasks) \cap FileTasks :
       /\ table[t.fd] = t.file
       /\ \A h \in Handle : fd_[h] # t.fd
       /\ \A x \in Closing : x.fd # t.fd
  /\ \A h \in Handle : fd_[h] # NoFd =>
       /\ table[fd_[h]] # NoFile
       /\ \A x \in Closing : x.fd # fd_[h]

Inv == Typing /\ Reach /\ Overtake /\ ClosedLast /\ Owners

-----------------------------------------------------------------------------
(* Sets of tasks and of calls.                                             *)

LEMMA TasksUnion ==
  ASSUME NEW A, NEW B
  PROVE  /\ FirmCalls(A \cup B) = FirmCalls(A) \cup FirmCalls(B)
         /\ LateCalls(A \cup B) = LateCalls(A) \cup LateCalls(B)
BY DEF FirmCalls, LateCalls

LEMMA TaskSets ==
  /\ FirmCalls({}) = {} /\ LateCalls({}) = {}
  /\ UserTask \notin FirmTasks \cup LateTasks \cup FileTasks
  /\ \A c \in SysCalls : PushTask(c) \in FirmTasks /\ PushTask(c) \notin LateTasks \cup FileTasks
  /\ \A t \in FileTasks : t \notin FirmTasks \cup LateTasks
  /\ \A c \in DmaCalls : SubmitTask(c, FALSE) \in FirmTasks
                           /\ SubmitTask(c, FALSE) \notin LateTasks \cup FileTasks
  /\ \A c \in DmaCalls : SubmitTask(c, TRUE) \in LateTasks
                           /\ SubmitTask(c, TRUE) \notin FirmTasks \cup FileTasks
<1>2. FirmCalls({}) = {} /\ LateCalls({}) = {}
  BY DEF FirmCalls, LateCalls
<1>3. /\ \A t \in Task : t \in FirmTasks <=> t.kind = "push" \/ (t.kind = "submit" /\ ~t.waited)
      /\ \A t \in Task : t \in LateTasks <=> t.kind = "submit" /\ t.waited
      /\ \A t \in Task : t \in FileTasks <=> t.kind = "file"
  <2>1. /\ \A t \in Task : t \in FirmTasks <=> t.kind = "push" \/ (t.kind = "submit" /\ ~t.waited)
        /\ \A t \in Task : t \in LateTasks <=> t.kind = "submit" /\ t.waited
    BY DEF FirmTasks, LateTasks
  <2> QED BY <2>1, TaskKinds
<1>4. UserTask \notin FirmTasks \cup LateTasks \cup FileTasks
  BY <1>3, TaskForms
<1>5. \A c \in SysCalls : PushTask(c) \in FirmTasks /\ PushTask(c) \notin LateTasks \cup FileTasks
  BY <1>3, TaskForms
<1>6. \A t \in FileTasks : t \notin FirmTasks \cup LateTasks
  BY <1>3, TaskForms
<1>7. \A c \in DmaCalls : SubmitTask(c, FALSE) \in FirmTasks
                            /\ SubmitTask(c, FALSE) \notin LateTasks \cup FileTasks
  BY <1>3, TaskForms
<1>8. \A c \in DmaCalls : SubmitTask(c, TRUE) \in LateTasks
                            /\ SubmitTask(c, TRUE) \notin FirmTasks \cup FileTasks
  BY <1>3, TaskForms
<1> QED BY <1>2, <1>4, <1>5, <1>6, <1>7, <1>8

\* What the kinds of a task say of the sets it is in, and those of its call.
LEMMA FirmKinds ==
  /\ \A t \in FirmTasks : t.call \in Calls
  /\ \A t \in LateTasks : t.call \in DmaCalls
  /\ \A a, b \in Calls : <<a, b>> \in Bad <=> a.kind = "close" /\ b.kind # "open" /\ a.fd = b.fd
  /\ \A s, t \in FirmTasks : <<s, t>> \in BadTasks <=> <<s.call, t.call>> \in Bad
  /\ \A s, t : <<s, t>> \in BadTasks => s \in FirmTasks /\ t \in FirmTasks
  /\ \A v, w \in Clients(SysCalls) : <<v, w>> \in BadClients <=> <<v.who, w.who>> \in Bad
  /\ \A w \in Clients(SysCalls) : w.who \in SysCalls
  /\ \A w \in Clients(DmaCalls) : w.who \in DmaCalls
  /\ SysCalls \subseteq Calls /\ DmaCalls \subseteq Calls
<1>1. SysCalls \subseteq Calls /\ DmaCalls \subseteq Calls
  BY DEF Calls
<1>2. \A t \in FirmTasks : t.call \in Calls
  BY <1>1, TaskKinds DEF FirmTasks
<1>3. \A t \in LateTasks : t.call \in DmaCalls
  BY TaskKinds DEF LateTasks
<1>4. \A a, b \in Calls : <<a, b>> \in Bad <=> a.kind = "close" /\ b.kind # "open" /\ a.fd = b.fd
  BY DEF Bad
<1>5. \A s, t \in FirmTasks : <<s, t>> \in BadTasks <=> <<s.call, t.call>> \in Bad
  BY DEF BadTasks
<1>6. \A s, t : <<s, t>> \in BadTasks => s \in FirmTasks /\ t \in FirmTasks
  BY DEF BadTasks
<1>7. \A v, w \in Clients(SysCalls) : <<v, w>> \in BadClients <=> <<v.who, w.who>> \in Bad
  BY DEF BadClients
<1>8. /\ \A w \in Clients(SysCalls) : w.who \in SysCalls
      /\ \A w \in Clients(DmaCalls) : w.who \in DmaCalls
  BY DEF Clients
<1> QED BY <1>1, <1>2, <1>3, <1>4, <1>5, <1>6, <1>7, <1>8

\* What is in line is a call.
LEMMA LinedCalls ==
  ASSUME Typing
  PROVE  /\ Items(calls) \subseteq SysCalls /\ Items(tasks) \subseteq Task
         /\ FirmCalls(Items(tasks)) \subseteq Calls /\ LateCalls(Items(tasks)) \subseteq DmaCalls
         /\ WaitCalls(sysSem.waiting) \subseteq SysCalls
         /\ WaitCalls(ioSem.waiting) \subseteq DmaCalls
         /\ Lined \subseteq Calls /\ Late \subseteq DmaCalls
         /\ Items(results) \subseteq DoneCalls
<1>1. /\ calls \in Seq(SysCalls) /\ tasks \in Seq(Task) /\ results \in Seq(DoneCalls)
      /\ sysSem.waiting \in Seq(Clients(SysCalls)) /\ ioSem.waiting \in Seq(Clients(DmaCalls))
  BY DEF Typing
<1>2. /\ Items(calls) \subseteq SysCalls /\ Items(tasks) \subseteq Task
      /\ Items(sysSem.waiting) \subseteq Clients(SysCalls)
      /\ Items(ioSem.waiting) \subseteq Clients(DmaCalls)
      /\ Items(results) \subseteq DoneCalls
  <2>1. Items(calls) \subseteq SysCalls
    BY <1>1, ItemsType
  <2>2. Items(tasks) \subseteq Task
    BY <1>1, ItemsType
  <2>3. Items(sysSem.waiting) \subseteq Clients(SysCalls)
    BY <1>1, ItemsType
  <2>4. Items(ioSem.waiting) \subseteq Clients(DmaCalls)
    BY <1>1, ItemsType
  <2>5. Items(results) \subseteq DoneCalls
    BY <1>1, ItemsType
  <2> QED BY <2>1, <2>2, <2>3, <2>4, <2>5
<1>3. /\ WaitCalls(sysSem.waiting) \subseteq SysCalls /\ WaitCalls(ioSem.waiting) \subseteq DmaCalls
  BY <1>2, FirmKinds DEF WaitCalls
<1>4. FirmCalls(Items(tasks)) \subseteq Calls /\ LateCalls(Items(tasks)) \subseteq DmaCalls
  BY FirmKinds DEF FirmCalls, LateCalls
<1> QED BY <1>2, <1>3, <1>4, FirmKinds DEF Lined, Late

\* A task is put at the end of the queue.
LEMMA TaskAppended ==
  ASSUME NEW q \in Seq(Task), NEW t \in Task, Ordered(q, BadTasks),
         t \in FirmTasks => Apart(FirmCalls(Items(q)), {t.call}, Bad)
  PROVE  /\ Append(q, t) \in Seq(Task) /\ Ordered(Append(q, t), BadTasks)
         /\ Items(Append(q, t)) = Items(q) \cup {t}
         /\ FirmCalls(Items(Append(q, t)))
              = FirmCalls(Items(q)) \cup IF t \in FirmTasks THEN {t.call} ELSE {}
         /\ LateCalls(Items(Append(q, t)))
              = LateCalls(Items(q)) \cup IF t \in LateTasks THEN {t.call} ELSE {}
<1>1. Apart(Items(q), {t}, BadTasks)
  <2> SUFFICES ASSUME NEW s \in Items(q), <<s, t>> \in BadTasks PROVE FALSE
    BY DEF Apart
  <2>1. s \in FirmTasks /\ t \in FirmTasks /\ <<s.call, t.call>> \in Bad
    BY FirmKinds
  <2>2. s.call \in FirmCalls(Items(q))
    BY <2>1 DEF FirmCalls
  <2> QED BY <2>1, <2>2 DEF Apart
<1>2. Append(q, t) \in Seq(Task)
  BY AppendProperties
<1>3. Items(Append(q, t)) = Items(q) \cup {t} /\ Ordered(Append(q, t), BadTasks)
  BY <1>1, OrderedAppend
<1>4. /\ FirmCalls({t}) = IF t \in FirmTasks THEN {t.call} ELSE {}
      /\ LateCalls({t}) = IF t \in LateTasks THEN {t.call} ELSE {}
  BY DEF FirmCalls, LateCalls
<1>5. /\ FirmCalls(Items(q) \cup {t}) = FirmCalls(Items(q)) \cup FirmCalls({t})
      /\ LateCalls(Items(q) \cup {t}) = LateCalls(Items(q)) \cup LateCalls({t})
  BY TasksUnion
<1> QED BY <1>2, <1>3, <1>4, <1>5

\* Tasks that are of no call are put there.
LEMMA OthersAppended ==
  ASSUME NEW q \in Seq(Task), NEW s \in Seq({UserTask} \cup FileTasks), Ordered(q, BadTasks)
  PROVE  /\ q \o s \in Seq(Task) /\ Ordered(q \o s, BadTasks)
         /\ Items(q \o s) = Items(q) \cup Items(s) /\ Items(s) \subseteq {UserTask} \cup FileTasks
         /\ FirmCalls(Items(q \o s)) = FirmCalls(Items(q))
         /\ LateCalls(Items(q \o s)) = LateCalls(Items(q))
<1>1. Items(s) \subseteq {UserTask} \cup FileTasks /\ s \in Seq(Items(s))
  BY ItemsType
<1>2. s \in Seq(Task) /\ q \o s \in Seq(Task)
  <2>1. Items(s) \subseteq Task
    BY <1>1, TaskForms
  <2>2. s \in Seq(Task)
    BY <1>1, <2>1
  <2> QED BY <2>2, ConcatProperties
<1>3. Ordered(s, BadTasks)
  BY <1>1, TaskSets, FirmKinds DEF Ordered, Items
<1>4. Apart(Items(q), Items(s), BadTasks)
  BY <1>1, TaskSets, FirmKinds DEF Apart
<1>5. Items(q \o s) = Items(q) \cup Items(s) /\ Ordered(q \o s, BadTasks)
  BY <1>2, <1>3, <1>4, OrderedConcat
<1>6. FirmCalls(Items(s)) = {} /\ LateCalls(Items(s)) = {}
  BY <1>1, TaskSets DEF FirmCalls, LateCalls
<1>7. /\ FirmCalls(Items(q) \cup Items(s)) = FirmCalls(Items(q)) \cup FirmCalls(Items(s))
      /\ LateCalls(Items(q) \cup Items(s)) = LateCalls(Items(q)) \cup LateCalls(Items(s))
  BY TasksUnion
<1> QED BY <1>1, <1>2, <1>5, <1>6, <1>7

\* The head of the queue is run.
LEMMA TaskTaken ==
  ASSUME Typing, ClosedLast, Owners, tasks # <<>>
  PROVE  /\ Head(tasks) \in Task /\ Head(tasks) \in Items(tasks)
         /\ Tail(tasks) \in Seq(Task) /\ Ordered(Tail(tasks), BadTasks)
         /\ Items(tasks) = {Head(tasks)} \cup Items(Tail(tasks))
         /\ Once(Tail(tasks), FileTasks, FdOfTask)
         /\ Head(tasks) \in FileTasks =>
              \A t \in Items(Tail(tasks)) \cap FileTasks : t.fd # Head(tasks).fd
         /\ FirmCalls(Items(Tail(tasks))) \subseteq FirmCalls(Items(tasks))
         /\ LateCalls(Items(Tail(tasks))) \subseteq LateCalls(Items(tasks))
         /\ Head(tasks) \in FirmTasks =>
              /\ Head(tasks).call \in FirmCalls(Items(tasks))
              /\ Apart({Head(tasks).call}, FirmCalls(Items(Tail(tasks))), Bad)
<1>1. tasks \in Seq(Task) /\ Ordered(tasks, BadTasks) /\ Once(tasks, FileTasks, FdOfTask)
  BY DEF Typing, ClosedLast, Owners
<1> DEFINE h == Head(tasks)
           q == Tail(tasks)
<1>2. /\ h \in Task /\ q \in Seq(Task) /\ Items(tasks) = {h} \cup Items(q)
      /\ Ordered(q, BadTasks) /\ Apart({h}, Items(q), BadTasks)
  BY <1>1, OrderedTail
<1>3. Once(q, FileTasks, FdOfTask) /\ (h \in FileTasks => FdOfTask[h] \notin Keys(q, FileTasks, FdOfTask))
  BY <1>1, OnceTail
<1>4. h \in FileTasks => \A t \in Items(q) \cap FileTasks : t.fd # h.fd
  <2>1. Keys(q, FileTasks, FdOfTask) = {FdOfTask[x] : x \in Items(q) \cap FileTasks}
    BY KeysOfItems
  <2> QED BY <1>3, <2>1 DEF FdOfTask
<1> HIDE DEF h, q
<1>5. /\ FirmCalls(Items(q)) \subseteq FirmCalls(Items(tasks))
      /\ LateCalls(Items(q)) \subseteq LateCalls(Items(tasks))
      /\ h \in FirmTasks => h.call \in FirmCalls(Items(tasks))
  BY <1>2 DEF FirmCalls, LateCalls
<1>6. h \in FirmTasks => Apart({h.call}, FirmCalls(Items(q)), Bad)
  BY <1>2, FirmKinds DEF Apart, FirmCalls
<1> QED BY <1>2, <1>3, <1>4, <1>5, <1>6 DEF h, q

-----------------------------------------------------------------------------
(* The steps.                                                              *)

\* No call is in line at first, and no descriptor open.
THEOREM Start == Init => Inv
<1> SUFFICES ASSUME Init PROVE Inv
  OBVIOUS
<1>1. /\ sysSem = [tokens |-> SysTokens, waiting |-> <<>>]
      /\ ioSem = [tokens |-> IoTokens, waiting |-> <<>>]
  BY DEF Init, NewSemaphore
<1>2. Typing
  <2>1. sysSem \in [tokens : Nat, waiting : Seq(Clients(SysCalls))]
          /\ ioSem \in [tokens : Nat, waiting : Seq(Clients(DmaCalls))]
    BY <1>1, FilesAssumption, EmptySeq
  <2>2. IsFiniteSet(aio) /\ aio \subseteq DmaCalls
    BY FS_EmptySet DEF Init
  <2> QED BY <2>1, <2>2, EmptySeq DEF Init, Typing
<1>3. Items(calls) = {} /\ Items(tasks) = {} /\ Items(results) = {}
        /\ Items(sysSem.waiting) = {} /\ Items(ioSem.waiting) = {}
  BY <1>1, ItemsEmpty DEF Init
<1>4. Lined = {} /\ Late = {}
  BY <1>3, TaskSets DEF Lined, Late, WaitCalls
<1>5. ClosedLast
  <2>1. Ordered(calls, Bad) /\ Ordered(tasks, BadTasks) /\ Ordered(sysSem.waiting, BadClients)
    BY <1>1, ItemsEmpty DEF Init
  <2> QED BY <1>3, <2>1, TaskSets DEF ClosedLast, Apart, WaitCalls
<1>6. Owners
  <2>1. Once(results, OpenedCalls, FdOfResult) /\ Once(tasks, FileTasks, FdOfTask)
    BY OnceEmpty DEF Init
  <2>2. \A h \in Handle : fd_[h] = NoFd
    BY DEF Init
  <2> QED BY <1>3, <2>1, <2>2 DEF Owners
<1> QED BY <1>2, <1>4, <1>5, <1>6 DEF Inv, Reach, Overtake

\* A system call is made, the task queue being q: it is on a descriptor that no
\* call before it closes, and a close is on one that nothing else has.
LEMMA Called ==
  ASSUME Inv, NEW q \in Seq(Task), NEW c \in SysCalls, SubmitSyscall(q, c),
         Items(q) \subseteq Items(tasks), Ordered(q, BadTasks), Once(q, FileTasks, FdOfTask),
         UNCHANGED <<results, ioSem, aio, table>>,
         fd_' \in [Handle -> Fd \cup {NoFd}], \A h \in Handle : fd_'[h] \in {fd_[h], NoFd},
         closed \subseteq closed',
         c.kind # "open" => table[c.fd] = c.file /\ \A x \in Closing : x.fd # c.fd,
         c.kind = "close" => /\ c.file \in closed'
                             /\ \A h \in Handle : fd_'[h] # c.fd
                             /\ \A t \in Items(q) \cap FileTasks : t.fd # c.fd
                             /\ \A r \in Items(results) \cap OpenedCalls : r.fd # c.fd
  PROVE  Inv'
<1>0. Typing /\ Reach /\ Overtake /\ ClosedLast /\ Owners
  BY DEF Inv
<1> DEFINE F == FirmCalls(Items(tasks))
           W == WaitCalls(sysSem.waiting)
           Effects == /\ tasks' \in Seq(Task) /\ ClosedLast' /\ Lined' \subseteq Lined \cup {c}
                      /\ LateCalls(Items(tasks')) \subseteq LateCalls(Items(tasks))
                      /\ Items(tasks') \cap FileTasks \subseteq Items(q)
                      /\ Once(tasks', FileTasks, FdOfTask)
<1>1. \A x \in Lined : <<x, c>> \notin Bad
  <2>1. Lined \subseteq Calls /\ c \in Calls
    BY <1>0, LinedCalls, FirmKinds
  <2> QED BY <2>1, FirmKinds DEF Closing
<1>2. FirmCalls(Items(q)) \subseteq F /\ LateCalls(Items(q)) \subseteq LateCalls(Items(tasks))
  BY DEF FirmCalls, LateCalls
<1>3. /\ sysSem' = AfterWait(sysSem, 1, c) /\ calls' = calls
      /\ sysSem \in [tokens : Nat, waiting : Seq(Clients(SysCalls))]
  BY <1>0 DEF SubmitSyscall, Typing
<1>4. sysSem' \in [tokens : Nat, waiting : Seq(Clients(SysCalls))]
  BY <1>3, WaitProperties
<1>5. ASSUME Admits(sysSem, 1) PROVE Effects
  <2> DEFINE t == PushTask(c)
  <2>1. t \in Task /\ t.call = c /\ t \in FirmTasks /\ t \notin LateTasks /\ t \notin FileTasks
    BY TaskForms, TaskSets
  <2>2. tasks' = Append(q, t)
    BY <1>5 DEF SubmitSyscall
  <2>3. sysSem'.waiting = sysSem.waiting /\ sysSem.waiting = <<>>
    <3>1. sysSem'.waiting = sysSem.waiting
      BY <1>3, <1>5 DEF AfterWait
    <3> QED BY <1>5, <3>1 DEF Admits
  <2> HIDE DEF t
  <2>4. Apart(FirmCalls(Items(q)), {t.call}, Bad)
    BY <1>1, <1>2, <2>1 DEF Apart, Lined
  <2>5. /\ tasks' \in Seq(Task) /\ Ordered(tasks', BadTasks) /\ Items(tasks') = Items(q) \cup {t}
        /\ FirmCalls(Items(tasks')) = FirmCalls(Items(q)) \cup {c}
        /\ LateCalls(Items(tasks')) = LateCalls(Items(q))
    <3>1. /\ tasks' \in Seq(Task) /\ Ordered(tasks', BadTasks) /\ Items(tasks') = Items(q) \cup {t}
          /\ FirmCalls(Items(tasks'))
               = FirmCalls(Items(q)) \cup IF t \in FirmTasks THEN {t.call} ELSE {}
          /\ LateCalls(Items(tasks'))
               = LateCalls(Items(q)) \cup IF t \in LateTasks THEN {t.call} ELSE {}
      BY <2>1, <2>2, <2>4, TaskAppended
    <3> QED BY <2>1, <3>1
  <2>6. Once(tasks', FileTasks, FdOfTask)
    BY <2>1, <2>2, OnceAppend
  <2>7. WaitCalls(sysSem.waiting) = {}
    BY <2>3, ItemsEmpty DEF WaitCalls
  <2>8. ClosedLast'
    <3>1. /\ Ordered(calls', Bad) /\ Ordered(sysSem'.waiting, BadClients)
          /\ Apart(Items(calls), F, Bad)
      BY <1>0, <1>3, <2>3 DEF ClosedLast
    <3>2. Apart(Items(calls), FirmCalls(Items(q)) \cup {c}, Bad)
      BY <1>1, <1>2, <3>1 DEF Apart, Lined
    <3> QED BY <1>3, <2>3, <2>5, <2>7, <3>1, <3>2 DEF ClosedLast, Apart
  <2>9. Lined' \subseteq Lined \cup {c}
    BY <1>2, <1>3, <2>3, <2>5 DEF Lined
  <2> QED BY <1>2, <2>1, <2>5, <2>6, <2>8, <2>9
<1>6. ASSUME ~Admits(sysSem, 1) PROVE Effects
  <2> DEFINE w == [tokens |-> 1, who |-> c]
  <2>1. w \in Clients(SysCalls) /\ w.who = c
    BY DEF Clients
  <2>2. tasks' = q
    BY <1>6 DEF SubmitSyscall
  <2>3. sysSem'.waiting = Append(sysSem.waiting, w)
    BY <1>3, <1>6, WaitProperties
  <2> HIDE DEF w
  <2>4. Ordered(sysSem.waiting, BadClients) /\ sysSem.waiting \in Seq(Clients(SysCalls))
    BY <1>0, <1>3 DEF ClosedLast
  <2>5. Items(sysSem.waiting) \subseteq Clients(SysCalls)
    BY <2>4, ItemsType
  <2>6. Apart(Items(sysSem.waiting), {w}, BadClients)
    <3> SUFFICES ASSUME NEW v \in Items(sysSem.waiting) PROVE <<v, w>> \notin BadClients
      BY DEF Apart
    <3>1. v.who \in Lined /\ v \in Clients(SysCalls)
      BY <2>5 DEF Lined, WaitCalls
    <3> QED BY <1>1, <2>1, <3>1, FirmKinds
  <2>7. /\ Items(sysSem'.waiting) = Items(sysSem.waiting) \cup {w}
        /\ Ordered(sysSem'.waiting, BadClients)
    <3> DEFINE s == sysSem.waiting
               S == Clients(SysCalls)
    <3>1. s \in Seq(S) /\ Ordered(s, BadClients) /\ Apart(Items(s), {w}, BadClients) /\ w \in S
      BY <2>1, <2>4, <2>6
    <3> HIDE DEF s, S
    <3>2. Items(Append(s, w)) = Items(s) \cup {w} /\ Ordered(Append(s, w), BadClients)
      <4>1. /\ Items(Append(s, w)) = Items(s) \cup {w}
            /\ Ordered(s, BadClients) /\ Apart(Items(s), {w}, BadClients)
                 => Ordered(Append(s, w), BadClients)
        BY <3>1, OrderedAppend
      <4> QED BY <3>1, <4>1
    <3> QED BY <2>3, <3>2 DEF s
  <2>8. WaitCalls(sysSem'.waiting) = W \cup {c}
    BY <2>1, <2>7 DEF WaitCalls
  <2>9. ClosedLast'
    <3>1. /\ Ordered(calls, Bad) /\ Apart(Items(calls), F, Bad)
          /\ Apart(Items(calls), W, Bad) /\ Apart(F, W, Bad)
      BY <1>0 DEF ClosedLast
    <3>2. /\ Apart(Items(calls), FirmCalls(Items(q)), Bad)
          /\ Apart(Items(calls), W \cup {c}, Bad)
          /\ Apart(FirmCalls(Items(q)), W \cup {c}, Bad)
      BY <1>1, <1>2, <3>1 DEF Apart, Lined
    <3> QED BY <1>3, <2>2, <2>7, <2>8, <3>1, <3>2 DEF ClosedLast
  <2>10. Lined' \subseteq Lined \cup {c}
    BY <1>2, <1>3, <2>2, <2>8 DEF Lined
  <2> QED BY <1>2, <2>2, <2>9, <2>10
<1>7. Effects
  BY <1>5, <1>6
<1> HIDE DEF F, W
<1>8. Typing'
  <2>1. /\ tasks' \in Seq(Task) /\ calls' \in Seq(SysCalls)
        /\ sysSem' \in [tokens : Nat, waiting : Seq(Clients(SysCalls))]
    BY <1>0, <1>3, <1>4, <1>7 DEF Typing
  <2> QED BY <1>0, <2>1 DEF Typing
<1>9. Reach'
  BY <1>0, <1>7 DEF Reach
<1>10. Overtake'
  <2>1. Late' \subseteq Late
    BY <1>7 DEF Late
  <2> QED BY <1>0, <1>7, <2>1 DEF Overtake
<1>11. Owners'
  <2>1. \A x \in Closing' : x \in Closing \/ (x = c /\ c.kind = "close")
    BY <1>7 DEF Closing
  <2>2. Items(tasks') \cap FileTasks \subseteq Items(q) /\ Once(tasks', FileTasks, FdOfTask)
    BY <1>7
  <2>3. Items(results') = Items(results) /\ Once(results', OpenedCalls, FdOfResult)
    BY <1>0 DEF Owners
  <2>4. \A h, g \in Handle : fd_'[h] # NoFd /\ fd_'[h] = fd_'[g] => h = g
    BY <1>0 DEF Owners
  <2>5. ASSUME NEW r \in Items(results) \cap OpenedCalls
        PROVE  /\ table[r.fd] = r.op
               /\ \A t \in Items(tasks') \cap FileTasks : t.fd # r.fd
               /\ \A h \in Handle : fd_'[h] # r.fd
               /\ \A x \in Closing' : x.fd # r.fd
    <3>1. r.fd # NoFd
      BY FilesAssumption DEF OpenedCalls
    <3> QED BY <1>0, <2>1, <2>2, <3>1 DEF Owners
  <2>6. ASSUME NEW t \in Items(tasks') \cap FileTasks
        PROVE  /\ table[t.fd] = t.file
               /\ \A h \in Handle : fd_'[h] # t.fd
               /\ \A x \in Closing' : x.fd # t.fd
    <3>1. t \in Items(tasks) \cap FileTasks /\ t \in Items(q) \cap FileTasks
      BY <2>2
    <3>2. t.fd # NoFd
      BY <3>1, TaskKinds, TaskForms, FilesAssumption
    <3> QED BY <1>0, <2>1, <3>1, <3>2 DEF Owners
  <2>7. ASSUME NEW h \in Handle, fd_'[h] # NoFd
        PROVE  table[fd_'[h]] # NoFile /\ \A x \in Closing' : x.fd # fd_'[h]
    BY <1>0, <2>1, <2>7 DEF Owners
  <2> QED BY <2>2, <2>3, <2>4, <2>5, <2>6, <2>7 DEF Owners
<1> QED BY <1>7, <1>8, <1>9, <1>10, <1>11 DEF Inv

\* What the handles have is open, and no call of another file.
LEMMA HandleFiles ==
  ASSUME Inv, NEW h \in Handle, fd_[h] # NoFd
  PROVE  fd_[h] \in Fd /\ table[fd_[h]] \in Opening /\ \A x \in Closing : x.fd # fd_[h]
<1>1. /\ fd_ \in [Handle -> Fd \cup {NoFd}] /\ table \in [Fd -> Opening \cup {NoFile}]
      /\ table[fd_[h]] # NoFile /\ \A x \in Closing : x.fd # fd_[h]
  BY DEF Inv, Typing, Owners
<1> QED BY <1>1

LEMMA OpenFileKeeps == ASSUME Inv, NEW o \in Opening, OpenFile(o) PROVE Inv'
<1>1. /\ tasks \in Seq(Task) /\ Ordered(tasks, BadTasks) /\ Once(tasks, FileTasks, FdOfTask)
      /\ fd_ \in [Handle -> Fd \cup {NoFd}]
  BY DEF Inv, Typing, ClosedLast, Owners
<1>2. OpenCall(o) \in SysCalls /\ OpenCall(o).kind = "open"
  BY CallForms DEF SysCalls
<1>3. SubmitSyscall(tasks, OpenCall(o)) /\ UNCHANGED <<results, ioSem, aio, table, fd_, closed>>
  BY DEF OpenFile
<1> DEFINE c == OpenCall(o)
<1> HIDE DEF c
<1>4. c \in SysCalls /\ c.kind = "open" /\ SubmitSyscall(tasks, c)
  BY <1>2, <1>3 DEF c
<1>5. UNCHANGED <<results, ioSem, aio, table, fd_, closed>>
  BY <1>3
<1>6. \A h \in Handle : fd_'[h] \in {fd_[h], NoFd}
  BY <1>5
<1>7. /\ UNCHANGED <<results, ioSem, aio, table>> /\ closed \subseteq closed'
      /\ fd_' \in [Handle -> Fd \cup {NoFd}]
  BY <1>1, <1>5
<1> QED BY <1>1, <1>4, <1>6, <1>7, Called

LEMMA MetaCallKeeps ==
  ASSUME Inv, NEW m \in Meta, NEW h \in Handle, MetaCall(m, h)
  PROVE  Inv'
<1>1. /\ tasks \in Seq(Task) /\ Ordered(tasks, BadTasks) /\ Once(tasks, FileTasks, FdOfTask)
      /\ fd_ \in [Handle -> Fd \cup {NoFd}]
  BY DEF Inv, Typing, ClosedLast, Owners
<1> DEFINE fd == fd_[h]
           c == CallOn("meta", m, fd)
<1>2. fd \in Fd /\ table[fd] \in Opening /\ \A x \in Closing : x.fd # fd
  BY HandleFiles DEF MetaCall
<1>3. SubmitSyscall(tasks, c) /\ UNCHANGED <<results, ioSem, aio, table, fd_, closed>>
  BY DEF MetaCall
<1> HIDE DEF fd
<1>4. c \in SysCalls /\ c.kind = "meta" /\ c.fd = fd /\ c.file = table[fd]
  BY <1>2, CallForms DEF SysCalls
<1> HIDE DEF c
<1>5. /\ UNCHANGED <<results, ioSem, aio, table>> /\ closed \subseteq closed'
      /\ fd_' \in [Handle -> Fd \cup {NoFd}] /\ \A g \in Handle : fd_'[g] \in {fd_[g], NoFd}
  BY <1>1, <1>3
<1> QED BY <1>1, <1>2, <1>3, <1>4, <1>5, Called

LEMMA CloseKeeps == ASSUME Inv, NEW h \in Handle, Close(h) PROVE Inv'
<1>1. /\ tasks \in Seq(Task) /\ Ordered(tasks, BadTasks) /\ Once(tasks, FileTasks, FdOfTask)
      /\ fd_ \in [Handle -> Fd \cup {NoFd}] /\ Owners
  BY DEF Inv, Typing, ClosedLast, Owners
<1> DEFINE fd == fd_[h]
           o == table[fd]
           c == CallOn("close", o, fd)
<1>2. fd \in Fd /\ o \in Opening /\ \A x \in Closing : x.fd # fd
  BY HandleFiles DEF Close
<1>3. /\ SubmitSyscall(tasks, c) /\ UNCHANGED <<results, ioSem, aio, table>>
      /\ fd_' = [fd_ EXCEPT ![h] = NoFd] /\ closed' = closed \cup {o}
  BY DEF Close, TakeFd
<1>4. c \in SysCalls /\ c.kind = "close" /\ c.fd = fd /\ c.file = o
  <2> HIDE DEF fd
  <2> QED BY <1>2, CallForms DEF SysCalls
<1>5. /\ fd_' \in [Handle -> Fd \cup {NoFd}] /\ \A g \in Handle : fd_'[g] \in {fd_[g], NoFd}
  BY <1>1, <1>3
<1>6. \A g \in Handle : fd_'[g] # fd
  <2>1. NoFd # fd
    BY <1>2, FilesAssumption
  <2>2. \A g \in Handle : fd_[g] = fd => g = h
    BY <1>1, <2>1 DEF Owners
  <2> QED BY <1>1, <1>3, <2>1, <2>2
<1>7. /\ \A t \in Items(tasks) \cap FileTasks : t.fd # fd
      /\ \A r \in Items(results) \cap OpenedCalls : r.fd # fd
  BY <1>1 DEF Owners
<1> HIDE DEF c, o, fd
<1>8. closed \subseteq closed' /\ c.file \in closed' /\ table[c.fd] = c.file
  BY <1>3, <1>4 DEF o
<1>9. UNCHANGED <<results, ioSem, aio, table>> /\ SubmitSyscall(tasks, c)
  BY <1>3
<1> QED BY <1>1, <1>2, <1>4, <1>5, <1>6, <1>7, <1>8, <1>9, Called

\* The task that makes a File nobody receives closes it.
LEMMA RunFileUnclaimedKeeps == ASSUME Inv, RunFileUnclaimed PROVE Inv'
<1>1. Typing /\ ClosedLast /\ Owners /\ fd_ \in [Handle -> Fd \cup {NoFd}]
  BY DEF Inv, Typing
<1> DEFINE q == Tail(tasks)
           t == Head(tasks)
           o == t.file
           fd == t.fd
           c == CallOn("close", o, fd)
<1>2. /\ t \in Task /\ t \in Items(tasks) /\ q \in Seq(Task) /\ Ordered(q, BadTasks)
      /\ Items(q) \subseteq Items(tasks) /\ Once(q, FileTasks, FdOfTask)
      /\ t \in FileTasks => \A u \in Items(q) \cap FileTasks : u.fd # fd
  BY <1>1, TaskTaken DEF RunFileUnclaimed, NextTask
<1>3. t \in FileTasks /\ o \in Opening /\ fd \in Fd
  BY <1>2, TaskKinds DEF RunFileUnclaimed, NextTask
<1>4. /\ SubmitSyscall(q, c) /\ UNCHANGED <<results, ioSem, aio, table, fd_>>
      /\ closed' = closed \cup {o}
  BY DEF RunFileUnclaimed, Unclaimed
<1> HIDE DEF q, t
<1>5. /\ table[fd] = o /\ \A h \in Handle : fd_[h] # fd /\ \A x \in Closing : x.fd # fd
  BY <1>1, <1>2, <1>3 DEF Owners
<1>6. \A x \in Closing : x.fd # fd
  BY <1>1, <1>2, <1>3 DEF Owners
<1>7. \A r \in Items(results) \cap OpenedCalls : r.fd # fd
  BY <1>1, <1>2, <1>3 DEF Owners
<1> HIDE DEF o, fd
<1>8. c \in SysCalls /\ c.kind = "close" /\ c.fd = fd /\ c.file = o
  BY <1>3, <1>5, CallForms DEF SysCalls
<1> HIDE DEF c
<1>9. /\ fd_' \in [Handle -> Fd \cup {NoFd}] /\ \A g \in Handle : fd_'[g] \in {fd_[g], NoFd}
      /\ \A g \in Handle : fd_'[g] # fd
  BY <1>1, <1>4, <1>5
<1>10. closed \subseteq closed' /\ c.file \in closed' /\ UNCHANGED <<results, ioSem, aio, table>>
  BY <1>4, <1>8
<1> QED BY <1>2, <1>3, <1>4, <1>5, <1>6, <1>7, <1>8, <1>9, <1>10, Called

LEMMA MoveKeeps == ASSUME Inv, NEW h \in Handle, NEW g \in Handle, Move(h, g) PROVE Inv'
<1>1. Typing /\ Reach /\ Overtake /\ ClosedLast /\ Owners
  BY DEF Inv
<1>2. /\ UNCHANGED <<tasks, sysSem, calls, results, ioSem, aio, table, closed>>
      /\ h # g /\ fd_' = [fd_ EXCEPT ![h] = fd_[g], ![g] = fd_[h]]
      /\ fd_ \in [Handle -> Fd \cup {NoFd}]
  BY <1>1 DEF Move, Swapped, Typing
<1>3. /\ fd_' \in [Handle -> Fd \cup {NoFd}] /\ fd_'[h] = fd_[g] /\ fd_'[g] = fd_[h]
      /\ \A k \in Handle \ {h, g} : fd_'[k] = fd_[k]
  BY <1>2
<1>4. \A k \in Handle : \E l \in Handle : fd_'[k] = fd_[l]
  BY <1>3
<1>5. \A k, l \in Handle : fd_'[k] # NoFd /\ fd_'[k] = fd_'[l] => k = l
  <2>1. \A k, l \in Handle : fd_[k] # NoFd /\ fd_[k] = fd_[l] => k = l
    BY <1>1 DEF Owners
  <2> QED BY <1>2, <1>3, <2>1
<1>6. Typing'
  BY <1>1, <1>2, <1>3 DEF Typing
<1>7. Lined' = Lined /\ Late' = Late /\ Closing' = Closing
  BY <1>2 DEF Lined, Late, Closing
<1>8. Reach' /\ Overtake' /\ ClosedLast'
  BY <1>1, <1>2, <1>7 DEF Reach, Overtake, ClosedLast
<1>9. Owners'
  <2>1. Once(results', OpenedCalls, FdOfResult) /\ Once(tasks', FileTasks, FdOfTask)
    BY <1>1, <1>2 DEF Owners
  <2>2. \A c \in Items(results) \cap OpenedCalls :
          /\ table[c.fd] = c.op
          /\ \A t \in Items(tasks) \cap FileTasks : t.fd # c.fd
          /\ \A k \in Handle : fd_'[k] # c.fd
          /\ \A x \in Closing : x.fd # c.fd
    BY <1>1, <1>4 DEF Owners
  <2>3. \A t \in Items(tasks) \cap FileTasks :
          /\ table[t.fd] = t.file
          /\ \A k \in Handle : fd_'[k] # t.fd
          /\ \A x \in Closing : x.fd # t.fd
    BY <1>1, <1>4 DEF Owners
  <2>4. \A k \in Handle : fd_'[k] # NoFd =>
          /\ table[fd_'[k]] # NoFile
          /\ \A x \in Closing : x.fd # fd_'[k]
    BY <1>1, <1>4 DEF Owners
  <2> QED BY <1>2, <1>5, <1>7, <2>1, <2>2, <2>3, <2>4 DEF Owners
<1> QED BY <1>6, <1>8, <1>9 DEF Inv

\* Who has a descriptor does not change.
LEMMA OwnersKept ==
  ASSUME Owners, UNCHANGED <<results, table, fd_>>, Closing' \subseteq Closing,
         Items(tasks') \cap FileTasks \subseteq Items(tasks), Once(tasks', FileTasks, FdOfTask)
  PROVE  Owners'
<1>1. Items(results') = Items(results) /\ Once(results', OpenedCalls, FdOfResult)
  BY DEF Owners
<1>2. \A c \in Items(results) \cap OpenedCalls :
          /\ table[c.fd] = c.op
          /\ \A t \in Items(tasks') \cap FileTasks : t.fd # c.fd
          /\ \A k \in Handle : fd_[k] # c.fd
          /\ \A x \in Closing' : x.fd # c.fd
  BY DEF Owners
<1>3. \A t \in Items(tasks') \cap FileTasks :
          /\ table[t.fd] = t.file
          /\ \A k \in Handle : fd_[k] # t.fd
          /\ \A x \in Closing' : x.fd # t.fd
  BY DEF Owners
<1>4. /\ \A h, g \in Handle : fd_[h] # NoFd /\ fd_[h] = fd_[g] => h = g
      /\ \A k \in Handle : fd_[k] # NoFd =>
           table[fd_[k]] # NoFile /\ \A x \in Closing' : x.fd # fd_[k]
  BY DEF Owners
<1> QED BY <1>1, <1>2, <1>3, <1>4 DEF Owners

LEMMA DmaCallKeeps ==
  ASSUME Inv, NEW r \in Request, NEW h \in Handle, DmaCall(r, h)
  PROVE  Inv'
<1>1. Typing /\ Reach /\ Overtake /\ ClosedLast /\ Owners
  BY DEF Inv
<1> DEFINE fd == fd_[h]
           c == CallOn("dma", r, fd)
<1>2. fd \in Fd /\ table[fd] \in Opening /\ \A x \in Closing : x.fd # fd
  BY HandleFiles DEF DmaCall
<1>3. /\ UNCHANGED <<sysSem, calls, results, aio, table, fd_, closed>>
      /\ ioSem' = AfterWait(ioSem, 1, c)
      /\ tasks' = IF Admits(ioSem, 1) THEN Append(tasks, SubmitTask(c, FALSE)) ELSE tasks
      /\ ioSem \in [tokens : Nat, waiting : Seq(Clients(DmaCalls))]
      /\ tasks \in Seq(Task) /\ Ordered(tasks, BadTasks) /\ Once(tasks, FileTasks, FdOfTask)
  BY <1>1 DEF DmaCall, Typing, ClosedLast, Owners
<1> HIDE DEF fd
<1>4. c \in DmaCalls /\ c.kind = "dma" /\ c.fd = fd /\ c.file = table[fd] /\ c \in Calls
  BY <1>2, CallForms, FirmKinds
<1> HIDE DEF c
<1>5. ioSem' \in [tokens : Nat, waiting : Seq(Clients(DmaCalls))]
  BY <1>3, <1>4, WaitProperties
<1>6. \A x \in Lined : <<x, c>> \notin Bad
  <2>1. Lined \subseteq Calls
    BY <1>1, LinedCalls
  <2> QED BY <1>2, <1>4, <2>1, FirmKinds DEF Closing
<1>7. \A x : <<c, x>> \notin Bad
  BY <1>4 DEF Bad
<1> DEFINE Effects == /\ tasks' \in Seq(Task) /\ ClosedLast'
                      /\ Lined' \subseteq Lined \cup {c} /\ Late' \subseteq Late \cup {c}
                      /\ Items(tasks') \cap FileTasks \subseteq Items(tasks)
                      /\ Once(tasks', FileTasks, FdOfTask)
<1>8. ASSUME Admits(ioSem, 1) PROVE Effects
  <2> DEFINE t == SubmitTask(c, FALSE)
  <2>1. t \in Task /\ t.call = c /\ t \in FirmTasks /\ t \notin LateTasks /\ t \notin FileTasks
    BY <1>4, TaskForms, TaskSets
  <2>2. tasks' = Append(tasks, t)
    BY <1>3, <1>8
  <2>3. ioSem'.waiting = ioSem.waiting
    BY <1>3, <1>8 DEF AfterWait
  <2> HIDE DEF t
  <2>4. Apart(FirmCalls(Items(tasks)), {t.call}, Bad)
    BY <1>6, <2>1 DEF Apart, Lined
  <2>5. /\ tasks' \in Seq(Task) /\ Ordered(tasks', BadTasks) /\ Items(tasks') = Items(tasks) \cup {t}
        /\ FirmCalls(Items(tasks')) = FirmCalls(Items(tasks)) \cup {c}
        /\ LateCalls(Items(tasks')) = LateCalls(Items(tasks))
    <3>1. /\ tasks' \in Seq(Task) /\ Ordered(tasks', BadTasks) /\ Items(tasks') = Items(tasks) \cup {t}
          /\ FirmCalls(Items(tasks'))
               = FirmCalls(Items(tasks)) \cup IF t \in FirmTasks THEN {t.call} ELSE {}
          /\ LateCalls(Items(tasks'))
               = LateCalls(Items(tasks)) \cup IF t \in LateTasks THEN {t.call} ELSE {}
      BY <1>3, <2>1, <2>2, <2>4, TaskAppended
    <3> QED BY <2>1, <3>1
  <2>6. Once(tasks', FileTasks, FdOfTask)
    <3>1. tasks \in Seq(Task) /\ Once(tasks, FileTasks, FdOfTask)
      BY <1>3
    <3>2. Once(Append(tasks, t), FileTasks, FdOfTask)
      BY <2>1, <3>1, OnceAppend
    <3> QED BY <2>2, <3>2
  <2>7. ClosedLast'
    <3>1. /\ Ordered(calls', Bad) /\ Ordered(sysSem'.waiting, BadClients)
          /\ Apart(Items(calls'), WaitCalls(sysSem'.waiting), Bad)
          /\ Apart(Items(calls), FirmCalls(Items(tasks)), Bad)
          /\ Apart(FirmCalls(Items(tasks)), WaitCalls(sysSem.waiting), Bad)
      BY <1>1, <1>3 DEF ClosedLast
    <3>2. /\ Apart(Items(calls), FirmCalls(Items(tasks)) \cup {c}, Bad)
          /\ Apart(FirmCalls(Items(tasks)) \cup {c}, WaitCalls(sysSem.waiting), Bad)
      BY <1>6, <1>7, <3>1 DEF Apart, Lined
    <3> QED BY <1>3, <2>5, <3>1, <3>2 DEF ClosedLast
  <2>8. Lined' \subseteq Lined \cup {c} /\ Late' \subseteq Late \cup {c}
    BY <1>3, <2>3, <2>5 DEF Lined, Late
  <2> QED BY <2>1, <2>5, <2>6, <2>7, <2>8
<1>9. ASSUME ~Admits(ioSem, 1) PROVE Effects
  <2> DEFINE w == [tokens |-> 1, who |-> c]
             s == ioSem.waiting
             S == Clients(DmaCalls)
  <2>1. w \in S /\ w.who = c
    BY <1>4 DEF Clients
  <2>2. tasks' = tasks
    BY <1>3, <1>9
  <2>3. ioSem'.waiting = Append(s, w) /\ s \in Seq(S)
    BY <1>3, <1>4, <1>9, WaitProperties
  <2> HIDE DEF w, s, S
  <2>4. /\ Items(Append(s, w)) = Items(s) \cup {w}
        /\ Ordered(s, Bad) /\ Apart(Items(s), {w}, Bad) => Ordered(Append(s, w), Bad)
    BY <2>1, <2>3, OrderedAppend
  <2>5. WaitCalls(ioSem'.waiting) = WaitCalls(s) \cup {c}
    BY <2>1, <2>3, <2>4 DEF WaitCalls
  <2>6. ClosedLast'
    BY <1>1, <1>3, <2>2 DEF ClosedLast
  <2>7. Lined' \subseteq Lined /\ Late' \subseteq Late \cup {c}
    BY <1>3, <2>2, <2>5 DEF Lined, Late, s
  <2> QED BY <1>3, <2>2, <2>6, <2>7
<1>10. Effects
  BY <1>8, <1>9
<1>11. Typing'
  BY <1>1, <1>3, <1>5, <1>10 DEF Typing
<1>12. Reach'
  BY <1>1, <1>3, <1>4, <1>10 DEF Reach
<1>13. Overtake'
  BY <1>1, <1>3, <1>4, <1>10 DEF Overtake
<1>14. Owners'
  <2>1. Closing' \subseteq Closing
    BY <1>4, <1>10 DEF Closing
  <2> QED BY <1>1, <1>3, <1>10, <2>1, OwnersKept
<1> QED BY <1>10, <1>11, <1>12, <1>13, <1>14 DEF Inv

\* A task is run that has no call to push.
LEMMA Dropped ==
  ASSUME Inv, tasks # <<>>, tasks' = Tail(tasks), UNCHANGED <<calls, sysSem, ioSem>>
  PROVE  /\ tasks' \in Seq(Task) /\ ClosedLast' /\ Lined' \subseteq Lined /\ Late' \subseteq Late
         /\ Closing' \subseteq Closing
         /\ Items(tasks') \subseteq Items(tasks) /\ Once(tasks', FileTasks, FdOfTask)
<1>1. /\ tasks' \in Seq(Task) /\ Ordered(tasks', BadTasks) /\ Items(tasks') \subseteq Items(tasks)
      /\ Once(tasks', FileTasks, FdOfTask)
      /\ FirmCalls(Items(tasks')) \subseteq FirmCalls(Items(tasks))
      /\ LateCalls(Items(tasks')) \subseteq LateCalls(Items(tasks))
  BY TaskTaken DEF Inv
<1>2. Lined' \subseteq Lined /\ Late' \subseteq Late
  BY <1>1 DEF Lined, Late
<1>3. Closing' \subseteq Closing
  BY <1>2 DEF Closing
<1>4. ClosedLast'
  BY <1>1 DEF Inv, ClosedLast, Apart
<1> QED BY <1>1, <1>2, <1>3, <1>4

\* Continuations of user code, and the submission of a request.
LEMMA RunUserKeeps == ASSUME Inv, RunUser \/ RunSubmit PROVE Inv'
<1>1. /\ tasks # <<>> /\ tasks' = Tail(tasks)
      /\ UNCHANGED <<sysSem, calls, results, ioSem, table, fd_, closed>>
  BY DEF RunUser, RunSubmit, NextTask
<1>2. Typing /\ Reach /\ Overtake /\ Owners
  BY DEF Inv
<1>3. /\ tasks' \in Seq(Task) /\ ClosedLast' /\ Lined' \subseteq Lined /\ Late' \subseteq Late
      /\ Closing' \subseteq Closing
      /\ Items(tasks') \subseteq Items(tasks) /\ Once(tasks', FileTasks, FdOfTask)
  BY <1>1, Dropped
<1>4. aio' \subseteq DmaCalls /\ IsFiniteSet(aio')
  <2>1. CASE RunUser
    BY <1>2, <2>1 DEF RunUser, Typing
  <2>2. CASE RunSubmit
    <3> DEFINE c == Head(tasks).call
    <3>1. Head(tasks) \in Task
      BY <1>1, TaskTaken DEF Inv
    <3>2. c \in DmaCalls
      BY <2>2, <3>1, TaskKinds DEF RunSubmit, NextTask
    <3>3. aio' = aio \/ aio' = aio \cup {c}
      BY <2>2 DEF RunSubmit
    <3> HIDE DEF c
    <3>4. IsFiniteSet(aio) /\ aio \subseteq DmaCalls
      BY <1>2 DEF Typing
    <3> QED BY <3>2, <3>3, <3>4, FS_AddElement
  <2> QED BY <2>1, <2>2
<1>5. Typing'
  BY <1>1, <1>2, <1>3, <1>4 DEF Typing
<1>6. Reach' /\ Overtake'
  BY <1>1, <1>2, <1>3 DEF Reach, Overtake
<1>7. Owners'
  BY <1>1, <1>2, <1>3, OwnersKept
<1> QED BY <1>3, <1>5, <1>6, <1>7 DEF Inv

LEMMA RunPushKeeps == ASSUME Inv, RunPush PROVE Inv'
<1>1. Typing /\ Reach /\ Overtake /\ ClosedLast /\ Owners
  BY DEF Inv
<1> DEFINE t == Head(tasks)
           q == Tail(tasks)
           c == t.call
<1>2. /\ tasks # <<>> /\ tasks' = q /\ t.kind = "push" /\ calls' = Append(calls, c)
      /\ UNCHANGED <<sysSem, results, ioSem, aio, table, fd_, closed>>
  BY DEF RunPush, NextTask
<1>3. /\ t \in Task /\ q \in Seq(Task) /\ Ordered(q, BadTasks) /\ Items(q) \subseteq Items(tasks)
      /\ Once(q, FileTasks, FdOfTask)
      /\ FirmCalls(Items(q)) \subseteq FirmCalls(Items(tasks))
      /\ LateCalls(Items(q)) \subseteq LateCalls(Items(tasks))
      /\ t \in FirmTasks => /\ c \in FirmCalls(Items(tasks))
                            /\ Apart({c}, FirmCalls(Items(q)), Bad)
  BY <1>1, <1>2, TaskTaken
<1>4. c \in SysCalls /\ t \in FirmTasks
  BY <1>2, <1>3, TaskKinds DEF FirmTasks
<1> HIDE DEF c, q, t
<1>5. calls \in Seq(SysCalls) /\ Ordered(calls, Bad)
  BY <1>1 DEF Typing, ClosedLast
<1>6. /\ Apart(Items(calls), FirmCalls(Items(tasks)), Bad)
      /\ Apart(Items(calls), WaitCalls(sysSem.waiting), Bad)
      /\ Apart(FirmCalls(Items(tasks)), WaitCalls(sysSem.waiting), Bad)
  BY <1>1 DEF ClosedLast
<1>7. Items(calls') = Items(calls) \cup {c} /\ Ordered(calls', Bad) /\ calls' \in Seq(SysCalls)
  <2>1. Apart(Items(calls), {c}, Bad)
    BY <1>3, <1>4, <1>6 DEF Apart
  <2>2. /\ Items(Append(calls, c)) = Items(calls) \cup {c}
        /\ Ordered(calls, Bad) /\ Apart(Items(calls), {c}, Bad) => Ordered(Append(calls, c), Bad)
    BY <1>4, <1>5, OrderedAppend
  <2>3. Append(calls, c) \in Seq(SysCalls)
    BY <1>4, <1>5, AppendProperties
  <2> QED BY <1>2, <1>5, <2>1, <2>2, <2>3
<1>8. ClosedLast'
  <2>1. /\ Apart(Items(calls) \cup {c}, FirmCalls(Items(q)), Bad)
        /\ Apart(Items(calls) \cup {c}, WaitCalls(sysSem.waiting), Bad)
        /\ Apart(FirmCalls(Items(q)), WaitCalls(sysSem.waiting), Bad)
    BY <1>3, <1>4, <1>6 DEF Apart
  <2>2. Ordered(sysSem'.waiting, BadClients)
    BY <1>1, <1>2 DEF ClosedLast
  <2> QED BY <1>2, <1>3, <1>7, <2>1, <2>2 DEF ClosedLast
<1>9. Lined' \subseteq Lined /\ Late' \subseteq Late /\ Closing' \subseteq Closing
  <2>1. Lined' \subseteq Lined /\ Late' \subseteq Late
    BY <1>2, <1>3, <1>4, <1>7 DEF Lined, Late
  <2> QED BY <2>1 DEF Closing
<1>10. Typing'
  BY <1>1, <1>2, <1>3, <1>7 DEF Typing
<1>11. Reach' /\ Overtake'
  BY <1>1, <1>2, <1>9 DEF Reach, Overtake
<1>12. Owners'
  <2>1. Once(tasks', FileTasks, FdOfTask) /\ Items(tasks') \cap FileTasks \subseteq Items(tasks)
    BY <1>2, <1>3
  <2> QED BY <1>1, <1>2, <1>9, <2>1, OwnersKept
<1> QED BY <1>8, <1>10, <1>11, <1>12 DEF Inv

LEMMA RunFileKeeps == ASSUME Inv, RunFile PROVE Inv'
<1>1. Typing /\ Reach /\ Overtake /\ ClosedLast /\ Owners
  BY DEF Inv
<1> DEFINE t == Head(tasks)
           fd == t.fd
<1>2. /\ tasks # <<>> /\ tasks' = Tail(tasks) /\ t.kind = "file"
      /\ UNCHANGED <<sysSem, calls, results, ioSem, aio, table, closed>>
  BY DEF RunFile, NextTask
<1>3. PICK h \in Handle : fd_[h] = NoFd /\ fd_' = [fd_ EXCEPT ![h] = fd]
  BY DEF RunFile
<1>4. t \in Items(tasks) \cap FileTasks /\ t.file \in Opening /\ fd \in Fd
        /\ \A u \in Items(tasks') \cap FileTasks : u.fd # fd
  <2>1. /\ t \in Task /\ t \in Items(tasks)
        /\ t \in FileTasks => \A u \in Items(Tail(tasks)) \cap FileTasks : u.fd # t.fd
    BY <1>1, <1>2, TaskTaken
  <2> QED BY <1>2, <2>1, TaskKinds
<1>5. /\ tasks' \in Seq(Task) /\ ClosedLast' /\ Lined' \subseteq Lined /\ Late' \subseteq Late
      /\ Closing' \subseteq Closing
      /\ Items(tasks') \subseteq Items(tasks) /\ Once(tasks', FileTasks, FdOfTask)
  BY <1>2, Dropped
<1> HIDE DEF t
<1>6. /\ table[fd] = t.file
      /\ \A g \in Handle : fd_[g] # fd
      /\ \A x \in Closing : x.fd # fd
  BY <1>1, <1>4 DEF Owners
<1>7. \A r \in Items(results) \cap OpenedCalls : r.fd # fd
  BY <1>1, <1>4 DEF Owners
<1> HIDE DEF fd
<1>8. /\ fd_' \in [Handle -> Fd \cup {NoFd}] /\ fd_'[h] = fd
      /\ \A g \in Handle \ {h} : fd_'[g] = fd_[g]
  BY <1>1, <1>3, <1>4 DEF Typing
<1>9. Typing'
  BY <1>1, <1>2, <1>5, <1>8 DEF Typing
<1>10. Reach' /\ Overtake'
  BY <1>1, <1>2, <1>5 DEF Reach, Overtake
<1>11. Owners'
  <2>1. Items(results') = Items(results) /\ Once(results', OpenedCalls, FdOfResult)
    BY <1>1, <1>2 DEF Owners
  <2>2. \A c \in Items(results) \cap OpenedCalls :
          /\ table[c.fd] = c.op
          /\ \A u \in Items(tasks') \cap FileTasks : u.fd # c.fd
          /\ \A g \in Handle : fd_'[g] # c.fd
          /\ \A x \in Closing' : x.fd # c.fd
    BY <1>1, <1>5, <1>7, <1>8 DEF Owners
  <2>3. \A u \in Items(tasks') \cap FileTasks :
          /\ table[u.fd] = u.file
          /\ \A g \in Handle : fd_'[g] # u.fd
          /\ \A x \in Closing' : x.fd # u.fd
    BY <1>1, <1>4, <1>5, <1>8 DEF Owners
  <2>4. \A g \in Handle : fd_'[g] # NoFd =>
          /\ table[fd_'[g]] # NoFile
          /\ \A x \in Closing' : x.fd # fd_'[g]
    <3>1. table[fd] # NoFile
      BY <1>4, <1>6, FilesAssumption
    <3>2. \A g \in Handle \ {h} : fd_[g] # NoFd =>
            table[fd_[g]] # NoFile /\ \A x \in Closing' : x.fd # fd_[g]
      BY <1>1, <1>5 DEF Owners
    <3> QED BY <1>5, <1>6, <1>8, <3>1, <3>2
  <2>5. \A g, k \in Handle : fd_'[g] # NoFd /\ fd_'[g] = fd_'[k] => g = k
    <3>1. \A g, k \in Handle : fd_[g] # NoFd /\ fd_[g] = fd_[k] => g = k
      BY <1>1 DEF Owners
    <3> QED BY <1>6, <1>8, <3>1
  <2> QED BY <1>2, <1>5, <2>1, <2>2, <2>3, <2>4, <2>5 DEF Owners
<1> QED BY <1>5, <1>9, <1>10, <1>11 DEF Inv

\* The worker takes the call that is first in line.
LEMMA CallTaken ==
  ASSUME Inv, calls # <<>>, calls' = Tail(calls), UNCHANGED <<tasks, sysSem, ioSem>>
  PROVE  /\ Head(calls) \in SysCalls /\ Head(calls) \in Lined /\ calls' \in Seq(SysCalls)
         /\ ClosedLast' /\ Lined' \subseteq Lined /\ Late' = Late /\ Closing' \subseteq Closing
         /\ \A x \in Lined' : <<Head(calls), x>> \notin Bad
<1> DEFINE c == Head(calls)
           q == Tail(calls)
           F == FirmCalls(Items(tasks))
           W == WaitCalls(sysSem.waiting)
<1>1. calls \in Seq(SysCalls) /\ Ordered(calls, Bad)
  BY DEF Inv, Typing, ClosedLast
<1>2. /\ q \in Seq(SysCalls) /\ c \in SysCalls /\ Items(calls) = {c} \cup Items(q)
      /\ Ordered(calls, Bad) => Ordered(q, Bad) /\ Apart({c}, Items(q), Bad)
  BY <1>1, OrderedTail
<1>3. calls' = q
  OBVIOUS
<1> HIDE DEF c, q
<1>4. /\ Apart(Items(calls), F, Bad) /\ Apart(Items(calls), W, Bad) /\ Apart(F, W, Bad)
      /\ Ordered(tasks, BadTasks) /\ Ordered(sysSem.waiting, BadClients)
  BY DEF Inv, ClosedLast
<1>5. /\ Apart(Items(q), F, Bad) /\ Apart(Items(q), W, Bad)
  BY <1>2, <1>4 DEF Apart
<1>6. ClosedLast'
  BY <1>1, <1>2, <1>3, <1>4, <1>5 DEF ClosedLast
<1>7. Lined' = Items(q) \cup F \cup W /\ Late' = Late
  BY <1>3 DEF Lined, Late
<1>8. Lined' \subseteq Lined /\ c \in Lined
  BY <1>2, <1>7 DEF Lined
<1>9. Closing' \subseteq Closing
  BY <1>8 DEF Closing
<1>10. \A x \in Lined' : <<c, x>> \notin Bad
  BY <1>1, <1>2, <1>4, <1>7 DEF Apart
<1> QED BY <1>2, <1>3, <1>6, <1>7, <1>8, <1>9, <1>10 DEF c

\* Its result is one more.
LEMMA ResultTyped ==
  ASSUME Inv, NEW d \in DoneCalls, results' = Append(results, d)
  PROVE  /\ results' \in Seq(DoneCalls) /\ Items(results') = Items(results) \cup {d}
         /\ (d \in OpenedCalls => \A r \in Items(results) \cap OpenedCalls : r.fd # d.fd)
              => Once(results', OpenedCalls, FdOfResult)
<1>1. results \in Seq(DoneCalls) /\ Once(results, OpenedCalls, FdOfResult)
  BY DEF Inv, Typing, Owners
<1>2. /\ Items(Append(results, d)) = Items(results) \cup {d}
      /\ Ordered(results, Bad) /\ Apart(Items(results), {d}, Bad) => Ordered(Append(results, d), Bad)
  BY <1>1, OrderedAppend
<1>3. Append(results, d) \in Seq(DoneCalls)
  BY <1>1, AppendProperties
<1>4. ASSUME d \in OpenedCalls => \A r \in Items(results) \cap OpenedCalls : r.fd # d.fd
      PROVE  Once(Append(results, d), OpenedCalls, FdOfResult)
  <2>1. Keys(results, OpenedCalls, FdOfResult) = {FdOfResult[r] : r \in Items(results) \cap OpenedCalls}
    BY KeysOfItems
  <2>2. d \in OpenedCalls => FdOfResult[d] \notin Keys(results, OpenedCalls, FdOfResult)
    BY <1>4, <2>1 DEF FdOfResult
  <2> QED BY <1>1, <2>2, OnceAppend
<1> QED BY <1>2, <1>3, <1>4

\* A descriptor that is free is no one's.
LEMMA FreeIsNoOnes ==
  ASSUME Inv, NEW fd \in Fd, table[fd] = NoFile
  PROVE  /\ \A x \in Lined : x.kind # "open" => x.fd # fd
         /\ \A x \in Late : x.fd = fd => x.file \in closed
         /\ \A r \in Items(results) \cap OpenedCalls : r.fd # fd
         /\ \A t \in Items(tasks) \cap FileTasks : t.fd # fd
         /\ \A h \in Handle : fd_[h] # fd
<1>1. NoFile \notin Opening /\ NoFd \notin Fd
  BY FilesAssumption
<1>2. Lined \subseteq Calls /\ Late \subseteq DmaCalls /\ Items(tasks) \subseteq Task
  BY LinedCalls DEF Inv
<1>3. \A x \in Lined : x.kind # "open" => x.fd # fd
  BY <1>1, <1>2, CallKinds DEF Inv, Reach
<1>4. \A x \in Late : x.fd = fd => x.file \in closed
  <2>1. \A x \in Late : x.file \in Opening
    BY <1>2, CallKinds, FirmKinds
  <2> QED BY <1>1, <2>1 DEF Inv, Overtake
<1>5. \A r \in Items(results) \cap OpenedCalls : r.fd # fd
  <2>1. \A r \in OpenedCalls : r.op \in Opening
    BY DEF OpenedCalls
  <2> QED BY <1>1, <2>1 DEF Inv, Owners
<1>6. \A t \in Items(tasks) \cap FileTasks : t.fd # fd
  BY <1>1, <1>2, TaskKinds DEF Inv, Owners
<1>7. \A h \in Handle : fd_[h] # fd
  BY <1>1 DEF Inv, Owners
<1> QED BY <1>3, <1>4, <1>5, <1>6, <1>7

\* The worker opens a file ...
LEMMA OpenKeeps ==
  ASSUME Inv, calls # <<>>, calls' = Tail(calls),
         UNCHANGED <<tasks, sysSem, ioSem, aio, fd_, closed>>, Head(calls).kind = "open",
         NEW fd \in Fd, table[fd] = NoFile, table' = [table EXCEPT ![fd] = Head(calls).op],
         results' = Append(results, [Head(calls) EXCEPT !.fd = fd])
  PROVE  Inv'
<1> DEFINE c == Head(calls)
           d == [c EXCEPT !.fd = fd]
<1>1. Typing /\ Reach /\ Overtake /\ Owners
  BY DEF Inv
<1>2. /\ c \in SysCalls /\ calls' \in Seq(SysCalls)
      /\ ClosedLast' /\ Lined' \subseteq Lined /\ Late' = Late /\ Closing' \subseteq Closing
  BY CallTaken
<1>3. c \in OpenCalls /\ c.op \in Opening
  <2>1. c \notin MetaCalls /\ c \notin CloseCalls
    BY DEF MetaCalls, CloseCalls
  <2>2. c \in OpenCalls
    BY <1>2, <2>1 DEF SysCalls
  <2> QED BY <2>2 DEF OpenCalls
<1>4. d \in OpenedCalls /\ d.fd = fd /\ d.op = c.op
  <2> HIDE DEF c
  <2> QED BY <1>3 DEF OpenCalls, OpenedCalls
<1>5. results' = Append(results, d) /\ table' = [table EXCEPT ![fd] = c.op]
  OBVIOUS
<1> HIDE DEF c, d
<1>6. d \in DoneCalls
  BY <1>4 DEF DoneCalls
<1>7. /\ \A x \in Lined : x.kind # "open" => x.fd # fd
      /\ \A x \in Late : x.fd = fd => x.file \in closed
      /\ \A r \in Items(results) \cap OpenedCalls : r.fd # fd
      /\ \A t \in Items(tasks) \cap FileTasks : t.fd # fd
      /\ \A h \in Handle : fd_[h] # fd
  BY FreeIsNoOnes
<1>8. /\ results' \in Seq(DoneCalls) /\ Items(results') = Items(results) \cup {d}
      /\ Once(results', OpenedCalls, FdOfResult)
  BY <1>4, <1>5, <1>6, <1>7, ResultTyped
<1>9. /\ table' \in [Fd -> Opening \cup {NoFile}] /\ table'[fd] = c.op
      /\ \A e \in Fd : e # fd => table'[e] = table[e]
  BY <1>1, <1>3, <1>5 DEF Typing
<1>10. Typing'
  BY <1>1, <1>2, <1>8, <1>9 DEF Typing
<1>11. Lined \subseteq Calls /\ Late \subseteq DmaCalls /\ Items(tasks) \subseteq Task
  BY <1>1, LinedCalls
<1>12. Reach'
  <2>1. \A x \in Lined' : x.kind # "open" => table'[x.fd] = x.file
    BY <1>1, <1>2, <1>7, <1>9, <1>11, CallKinds DEF Reach
  <2> QED BY <2>1 DEF Reach
<1>13. Overtake'
  <2>1. \A x \in Late : table'[x.fd] = x.file \/ x.file \in closed
    <3>1. \A x \in Late : x.fd \in Fd
      BY <1>11, CallKinds, FirmKinds
    <3> QED BY <1>1, <1>7, <1>9, <3>1 DEF Overtake
  <2> QED BY <1>1, <1>2, <2>1 DEF Overtake
<1>14. Owners'
  <2>1. \A x \in Closing : x.fd # fd
    BY <1>7 DEF Closing
  <2>2. ASSUME NEW r \in Items(results') \cap OpenedCalls
        PROVE  /\ table'[r.fd] = r.op
               /\ \A t \in Items(tasks) \cap FileTasks : t.fd # r.fd
               /\ \A h \in Handle : fd_[h] # r.fd
               /\ \A x \in Closing' : x.fd # r.fd
    <3>1. CASE r = d
      BY <1>2, <1>4, <1>7, <1>9, <2>1, <3>1
    <3>2. CASE r \in Items(results)
      <4>1. r.fd \in Fd
        BY DEF OpenedCalls
      <4> QED BY <1>1, <1>2, <1>7, <1>9, <3>2, <4>1 DEF Owners
    <3> QED BY <1>8, <3>1, <3>2
  <2>3. ASSUME NEW t \in Items(tasks) \cap FileTasks
        PROVE  /\ table'[t.fd] = t.file
               /\ \A h \in Handle : fd_[h] # t.fd
               /\ \A x \in Closing' : x.fd # t.fd
    <3>1. t.fd \in Fd /\ t.fd # fd
      BY <1>7, <1>11, TaskKinds
    <3> QED BY <1>1, <1>2, <1>9, <3>1 DEF Owners
  <2>4. ASSUME NEW h \in Handle, fd_[h] # NoFd
        PROVE  table'[fd_[h]] # NoFile /\ \A x \in Closing' : x.fd # fd_[h]
    <3>1. fd_[h] \in Fd /\ fd_[h] # fd
      BY <1>1, <1>7, <2>4 DEF Typing
    <3> QED BY <1>1, <1>2, <1>9, <2>4, <3>1 DEF Owners
  <2>5. Once(tasks, FileTasks, FdOfTask) /\ \A h, g \in Handle : fd_[h] # NoFd /\ fd_[h] = fd_[g] => h = g
    BY <1>1 DEF Owners
  <2> QED BY <1>8, <2>2, <2>3, <2>4, <2>5 DEF Owners, Once
<1> QED BY <1>2, <1>10, <1>12, <1>13, <1>14 DEF Inv

\* ... closes one ...
LEMMA CloseRunKeeps ==
  ASSUME Inv, calls # <<>>, calls' = Tail(calls),
         UNCHANGED <<tasks, sysSem, ioSem, aio, fd_, closed>>, Head(calls).kind = "close",
         table' = [table EXCEPT ![Head(calls).fd] = NoFile],
         results' = Append(results, Head(calls))
  PROVE  Inv'
<1> DEFINE c == Head(calls)
           fd == c.fd
<1>1. Typing /\ Reach /\ Overtake /\ Owners
  BY DEF Inv
<1>2. /\ c \in SysCalls /\ c \in Lined /\ calls' \in Seq(SysCalls)
      /\ ClosedLast' /\ Lined' \subseteq Lined /\ Late' = Late /\ Closing' \subseteq Closing
      /\ \A x \in Lined' : <<c, x>> \notin Bad
  BY CallTaken
<1>3. c.kind = "close" /\ table' = [table EXCEPT ![fd] = NoFile] /\ results' = Append(results, c)
  OBVIOUS
<1> HIDE DEF c
<1>4. /\ c \in Closing /\ fd \in Fd /\ c.file \in Opening /\ table[fd] = c.file /\ c.file \in closed
      /\ c \in Calls
  BY <1>1, <1>2, <1>3, CallKinds, FirmKinds DEF Closing, Reach, Overtake
<1> HIDE DEF fd
<1>5. Lined \subseteq Calls /\ Late \subseteq DmaCalls /\ Items(tasks) \subseteq Task
  BY <1>1, LinedCalls
<1>6. \A x \in Lined' : x.kind # "open" => x.fd # fd
  BY <1>2, <1>3, <1>4, <1>5, FirmKinds DEF fd
<1>7. /\ \A r \in Items(results) \cap OpenedCalls : r.fd # fd
      /\ \A t \in Items(tasks) \cap FileTasks : t.fd # fd
      /\ \A h \in Handle : fd_[h] # fd
  <2>1. \A h \in Handle : fd_[h] # fd
    BY <1>1, <1>4, FilesAssumption DEF Owners, fd
  <2> QED BY <1>1, <1>4, <2>1 DEF Owners, fd
<1>8. c \in DoneCalls /\ c \notin OpenedCalls
  <2>1. c \in DoneCalls
    BY <1>2 DEF DoneCalls
  <2> QED BY <1>3, <2>1, CallKinds
<1>9. /\ results' \in Seq(DoneCalls) /\ Items(results') = Items(results) \cup {c}
      /\ Once(results', OpenedCalls, FdOfResult)
  BY <1>3, <1>8, ResultTyped
<1>10. /\ table' \in [Fd -> Opening \cup {NoFile}]
       /\ \A e \in Fd : e # fd => table'[e] = table[e]
  BY <1>1, <1>3, <1>4 DEF Typing
<1>11. Typing'
  BY <1>1, <1>2, <1>9, <1>10 DEF Typing
<1>12. Reach'
  <2>1. \A x \in Lined' : x.kind # "open" => table'[x.fd] = x.file
    BY <1>1, <1>2, <1>5, <1>6, <1>10, CallKinds DEF Reach
  <2> QED BY <2>1 DEF Reach
<1>13. Overtake'
  <2>1. \A x \in Late : table'[x.fd] = x.file \/ x.file \in closed
    <3>1. \A x \in Late : x.fd \in Fd
      BY <1>5, CallKinds, FirmKinds
    <3> QED BY <1>1, <1>4, <1>10, <3>1 DEF Overtake
  <2> QED BY <1>1, <1>2, <2>1 DEF Overtake
<1>14. Owners'
  <2>1. ASSUME NEW r \in Items(results') \cap OpenedCalls
        PROVE  /\ table'[r.fd] = r.op
               /\ \A t \in Items(tasks) \cap FileTasks : t.fd # r.fd
               /\ \A h \in Handle : fd_[h] # r.fd
               /\ \A x \in Closing' : x.fd # r.fd
    <3>1. r \in Items(results) \cap OpenedCalls /\ r.fd \in Fd /\ r.fd # fd
      <4>1. r.fd \in Fd
        BY DEF OpenedCalls
      <4> QED BY <1>7, <1>8, <1>9, <4>1
    <3> QED BY <1>1, <1>2, <1>10, <3>1 DEF Owners
  <2>2. ASSUME NEW t \in Items(tasks) \cap FileTasks
        PROVE  /\ table'[t.fd] = t.file
               /\ \A h \in Handle : fd_[h] # t.fd
               /\ \A x \in Closing' : x.fd # t.fd
    <3>1. t.fd \in Fd /\ t.fd # fd
      BY <1>5, <1>7, TaskKinds
    <3> QED BY <1>1, <1>2, <1>10, <3>1 DEF Owners
  <2>3. ASSUME NEW h \in Handle, fd_[h] # NoFd
        PROVE  table'[fd_[h]] # NoFile /\ \A x \in Closing' : x.fd # fd_[h]
    <3>1. fd_[h] \in Fd /\ fd_[h] # fd
      BY <1>1, <1>7, <2>3 DEF Typing
    <3> QED BY <1>1, <1>2, <1>10, <2>3, <3>1 DEF Owners
  <2>4. Once(tasks, FileTasks, FdOfTask) /\ \A h, g \in Handle : fd_[h] # NoFd /\ fd_[h] = fd_[g] => h = g
    BY <1>1 DEF Owners
  <2> QED BY <1>9, <2>1, <2>2, <2>3, <2>4 DEF Owners, Once
<1> QED BY <1>2, <1>11, <1>12, <1>13, <1>14 DEF Inv

\* ... or leaves the descriptors alone.
LEMMA OtherCallKeeps ==
  ASSUME Inv, calls # <<>>, calls' = Tail(calls),
         UNCHANGED <<tasks, sysSem, ioSem, aio, table, fd_, closed>>,
         results' = Append(results, Head(calls))
  PROVE  Inv'
<1> DEFINE c == Head(calls)
<1>1. Typing /\ Reach /\ Overtake /\ Owners
  BY DEF Inv
<1>2. /\ c \in SysCalls /\ calls' \in Seq(SysCalls)
      /\ ClosedLast' /\ Lined' \subseteq Lined /\ Late' = Late /\ Closing' \subseteq Closing
  BY CallTaken
<1> HIDE DEF c
<1>3. c \in DoneCalls /\ c \notin OpenedCalls
  <2>1. c \notin OpenedCalls
    BY <1>2, FilesAssumption DEF SysCalls, OpenCalls, MetaCalls, CloseCalls, OpenedCalls
  <2> QED BY <1>2, <2>1 DEF DoneCalls
<1>4. /\ results' \in Seq(DoneCalls) /\ Items(results') = Items(results) \cup {c}
      /\ Once(results', OpenedCalls, FdOfResult)
  BY <1>3, ResultTyped DEF c
<1>5. Typing'
  BY <1>1, <1>2, <1>4 DEF Typing
<1>6. Reach' /\ Overtake'
  BY <1>1, <1>2 DEF Reach, Overtake
<1>7. Owners'
  <2>1. Items(results') \cap OpenedCalls = Items(results) \cap OpenedCalls
    BY <1>3, <1>4
  <2>2. \A r \in Items(results) \cap OpenedCalls :
          /\ table[r.fd] = r.op
          /\ \A t \in Items(tasks) \cap FileTasks : t.fd # r.fd
          /\ \A h \in Handle : fd_[h] # r.fd
          /\ \A x \in Closing' : x.fd # r.fd
    BY <1>1, <1>2 DEF Owners
  <2>3. \A t \in Items(tasks) \cap FileTasks :
          /\ table[t.fd] = t.file
          /\ \A h \in Handle : fd_[h] # t.fd
          /\ \A x \in Closing' : x.fd # t.fd
    BY <1>1, <1>2 DEF Owners
  <2>4. /\ \A h, g \in Handle : fd_[h] # NoFd /\ fd_[h] = fd_[g] => h = g
        /\ \A h \in Handle : fd_[h] # NoFd =>
             table[fd_[h]] # NoFile /\ \A x \in Closing' : x.fd # fd_[h]
    BY <1>1, <1>2 DEF Owners
  <2>5. Once(tasks, FileTasks, FdOfTask)
    BY <1>1 DEF Owners
  <2> QED BY <1>4, <2>1, <2>2, <2>3, <2>4, <2>5 DEF Owners, Once
<1> QED BY <1>2, <1>5, <1>6, <1>7 DEF Inv

LEMMA WorkKeeps == ASSUME Inv, Work PROVE Inv'
<1>1. calls # <<>> /\ calls' = Tail(calls) /\ UNCHANGED <<tasks, sysSem, ioSem, aio, fd_, closed>>
  BY DEF Work
<1>2. Head(calls).kind \in {"open", "meta", "close"}
  <2>1. calls \in Seq(SysCalls)
    BY DEF Inv, Typing
  <2>2. Head(calls) \in SysCalls
    BY <1>1, <2>1
  <2> QED BY <2>2, CallKinds
<1>3. CASE Head(calls).kind = "open"
  <2>1. \/ \E fd \in Fd :
             /\ table[fd] = NoFile
             /\ table' = [table EXCEPT ![fd] = Head(calls).op]
             /\ results' = Append(results, [Head(calls) EXCEPT !.fd = fd])
        \/ UNCHANGED table /\ results' = Append(results, Head(calls))
    BY <1>3 DEF Work
  <2> QED BY <1>1, <1>3, <2>1, OpenKeeps, OtherCallKeeps
<1>4. CASE Head(calls).kind = "meta"
  <2>1. UNCHANGED table /\ results' = Append(results, Head(calls))
    BY <1>4 DEF Work
  <2> QED BY <1>1, <2>1, OtherCallKeeps
<1>5. CASE Head(calls).kind = "close"
  <2>1. table' = [table EXCEPT ![Head(calls).fd] = NoFile] /\ results' = Append(results, Head(calls))
    BY <1>5 DEF Work
  <2> QED BY <1>1, <1>5, <2>1, CloseRunKeeps
<1> QED BY <1>2, <1>3, <1>4, <1>5

\* The continuations of the calls that are done: a File is made of each that
\* opened a descriptor.
LEMMA Continued ==
  ASSUME Inv, NEW done, done = [i \in 1 .. Len(results) |-> Continuation(results[i])]
  PROVE  /\ done \in Seq({UserTask} \cup FileTasks) /\ Once(done, FileTasks, FdOfTask)
         /\ \A t \in Items(done) \cap FileTasks :
              \E r \in Items(results) \cap OpenedCalls : t.fd = r.fd /\ t.file = r.op
<1> DEFINE n == Len(results)
<1>1. results \in Seq(DoneCalls) /\ Once(results, OpenedCalls, FdOfResult)
  BY DEF Inv, Typing, Owners
<1>2. n \in Nat /\ \A i \in 1 .. n : results[i] \in DoneCalls
  BY <1>1, LenProperties
<1> HIDE DEF n
<1>3. ASSUME NEW i \in 1 .. n
      PROVE  /\ Continuation(results[i]) \in {UserTask} \cup FileTasks
             /\ Continuation(results[i]) \in FileTasks =>
                  /\ results[i] \in OpenedCalls
                  /\ Continuation(results[i]).fd = results[i].fd
                  /\ Continuation(results[i]).file = results[i].op
  <2> DEFINE c == results[i]
  <2>1. c \in DoneCalls
    BY <1>2
  <2> HIDE DEF c
  <2>2. CASE c.kind = "open" /\ c.fd # NoFd
    <3>1. c \in OpenedCalls /\ c.op \in Opening /\ c.fd \in Fd
      BY <2>1, <2>2, CallKinds
    <3> QED BY <2>2, <3>1, TaskForms DEF Continuation, c
  <2>3. CASE ~(c.kind = "open" /\ c.fd # NoFd)
    BY <2>3, TaskSets DEF Continuation, c
  <2> QED BY <2>2, <2>3
<1>4. /\ Len(done) = n /\ done \in Seq({UserTask} \cup FileTasks)
      /\ \A i \in 1 .. n : done[i] = Continuation(results[i])
  BY <1>2, <1>3 DEF n
<1>5. Once(done, FileTasks, FdOfTask)
  <2> SUFFICES ASSUME NEW i \in 1 .. n, NEW j \in 1 .. n, done[i] \in FileTasks,
                      done[j] \in FileTasks, FdOfTask[done[i]] = FdOfTask[done[j]]
               PROVE  i = j
    BY <1>4 DEF Once
  <2>1. /\ results[i] \in OpenedCalls /\ done[i].fd = results[i].fd
        /\ results[j] \in OpenedCalls /\ done[j].fd = results[j].fd
    BY <1>3, <1>4
  <2>2. FdOfResult[results[i]] = FdOfResult[results[j]]
    BY <2>1 DEF FdOfResult, FdOfTask
  <2> QED BY <1>1, <2>1, <2>2 DEF Once, n
<1>6. \A t \in Items(done) \cap FileTasks :
        \E r \in Items(results) \cap OpenedCalls : t.fd = r.fd /\ t.file = r.op
  <2> SUFFICES ASSUME NEW t \in Items(done) \cap FileTasks
               PROVE  \E r \in Items(results) \cap OpenedCalls : t.fd = r.fd /\ t.file = r.op
    OBVIOUS
  <2>1. PICK i \in 1 .. n : t = done[i]
    BY <1>4 DEF Items
  <2>2. results[i] \in OpenedCalls /\ t.fd = results[i].fd /\ t.file = results[i].op
    BY <1>3, <1>4, <2>1
  <2>3. results[i] \in Items(results)
    BY DEF Items, n
  <2> QED BY <2>2, <2>3
<1> QED BY <1>4, <1>5, <1>6

\* The call that release() lets in is pushed behind those that are to be pushed.
LEMMA CallGranted ==
  ASSUME Inv, NEW q \in Seq(Task), Ordered(q, BadTasks), NEW n \in Nat,
         FirmCalls(Items(q)) = FirmCalls(Items(tasks)),
         LateCalls(Items(q)) = LateCalls(Items(tasks)),
         Once(q, FileTasks, FdOfTask),
         sysSem' = AfterRelease(sysSem, n), UNCHANGED <<calls, ioSem>>,
         tasks' = q \o IF Grants(sysSem, n) THEN <<PushTask(Head(sysSem.waiting).who)>> ELSE <<>>
  PROVE  /\ tasks' \in Seq(Task) /\ sysSem' \in [tokens : Nat, waiting : Seq(Clients(SysCalls))]
         /\ ClosedLast' /\ Lined' \subseteq Lined /\ Late' = Late
         /\ Items(tasks') \cap FileTasks = Items(q) \cap FileTasks
         /\ Once(tasks', FileTasks, FdOfTask)
<1> DEFINE s == sysSem.waiting
           S == Clients(SysCalls)
           F == FirmCalls(Items(tasks))
           Effects == /\ tasks' \in Seq(Task)
                      /\ ClosedLast' /\ Lined' \subseteq Lined /\ Late' = Late
                      /\ Items(tasks') \cap FileTasks = Items(q) \cap FileTasks
                      /\ Once(tasks', FileTasks, FdOfTask)
<1>1. sysSem \in [tokens : Nat, waiting : Seq(S)] /\ s \in Seq(S)
  BY DEF Inv, Typing
<1>2. sysSem' \in [tokens : Nat, waiting : Seq(S)]
  BY <1>1, ReleaseProperties
<1>3. /\ Ordered(calls, Bad) /\ Ordered(s, BadClients)
      /\ Apart(Items(calls), F, Bad) /\ Apart(Items(calls), WaitCalls(s), Bad)
      /\ Apart(F, WaitCalls(s), Bad)
  BY DEF Inv, ClosedLast
<1>4. ASSUME ~Grants(sysSem, n) PROVE Effects
  <2>1. sysSem'.waiting = s
    BY <1>1, <1>4 DEF AfterRelease
  <2>2. tasks' = q
    <3>1. tasks' = q \o <<>>
      BY <1>4
    <3> QED BY <3>1, ConcatEmptySeq
  <2> HIDE DEF s, F, S
  <2>3. Lined' = Lined /\ Late' = Late
    BY <2>1, <2>2 DEF Lined, Late, s
  <2>4. ClosedLast'
    BY <1>3, <2>1, <2>2 DEF ClosedLast, F
  <2> QED BY <2>2, <2>3, <2>4
<1>5. ASSUME Grants(sysSem, n) PROVE Effects
  <2> DEFINE w == Head(s)
             c == w.who
             t == PushTask(c)
             r == Tail(s)
  <2>1. s # <<>> /\ sysSem'.waiting = r
    BY <1>1, <1>5 DEF AfterRelease, Grants
  <2>2. tasks' = Append(q, t)
    <3>1. tasks' = q \o <<t>>
      BY <1>5
    <3> HIDE DEF t
    <3> QED BY <3>1, AppendIsConcat
  <2> HIDE DEF s, S, F
  <2>3. /\ r \in Seq(S) /\ w \in S /\ Items(s) = {w} \cup Items(r)
        /\ Ordered(s, BadClients) => Ordered(r, BadClients) /\ Apart({w}, Items(r), BadClients)
    BY <1>1, <2>1, OrderedTail
  <2>4. c \in SysCalls /\ Items(r) \subseteq S /\ \A v \in Items(r) : v.who \in SysCalls
    <3>1. Items(r) \subseteq S
      BY <2>3, ItemsType
    <3> QED BY <2>3, <3>1, FirmKinds DEF S
  <2> HIDE DEF r, w
  <2>5. WaitCalls(s) = {c} \cup WaitCalls(r)
    BY <2>3 DEF WaitCalls
  <2>6. Apart({c}, WaitCalls(r), Bad)
    BY <1>3, <2>3, <2>4, FirmKinds DEF Apart, WaitCalls, S
  <2>7. t \in Task /\ t.call = c /\ t \in FirmTasks /\ t \notin LateTasks /\ t \notin FileTasks
    BY <2>4, TaskForms, TaskSets
  <2> HIDE DEF t, c
  <2>8. Apart(FirmCalls(Items(q)), {t.call}, Bad)
    BY <1>3, <2>5, <2>7 DEF Apart, F
  <2>9. /\ tasks' \in Seq(Task) /\ Ordered(tasks', BadTasks) /\ Items(tasks') = Items(q) \cup {t}
        /\ FirmCalls(Items(tasks')) = F \cup {c}
        /\ LateCalls(Items(tasks')) = LateCalls(Items(tasks))
    <3>1. /\ tasks' \in Seq(Task) /\ Ordered(tasks', BadTasks) /\ Items(tasks') = Items(q) \cup {t}
          /\ FirmCalls(Items(tasks'))
               = FirmCalls(Items(q)) \cup IF t \in FirmTasks THEN {t.call} ELSE {}
          /\ LateCalls(Items(tasks'))
               = LateCalls(Items(q)) \cup IF t \in LateTasks THEN {t.call} ELSE {}
      BY <2>2, <2>7, <2>8, TaskAppended
    <3> QED BY <2>7, <3>1 DEF F
  <2>10. Once(tasks', FileTasks, FdOfTask)
    <3>1. Once(Append(q, t), FileTasks, FdOfTask)
      BY <2>7, OnceAppend
    <3> QED BY <2>2, <3>1
  <2>11. ClosedLast'
    <3>1. /\ Apart(Items(calls), F \cup {c}, Bad) /\ Apart(Items(calls), WaitCalls(r), Bad)
          /\ Apart(F \cup {c}, WaitCalls(r), Bad)
      BY <1>3, <2>5, <2>6 DEF Apart
    <3> QED BY <1>3, <2>1, <2>3, <2>9, <3>1 DEF ClosedLast
  <2>12. Lined' = Lined /\ Late' = Late
    BY <2>1, <2>5, <2>9 DEF Lined, Late, s, F
  <2> QED BY <2>7, <2>9, <2>10, <2>11, <2>12
<1>6. Effects
  BY <1>4, <1>5
<1> QED BY <1>2, <1>6

LEMMA PollResultsKeeps == ASSUME Inv, PollResults PROVE Inv'
<1> DEFINE n == Len(results)
           done == [i \in 1 .. n |-> Continuation(results[i])]
           q == tasks \o done
           grant == IF Grants(sysSem, n) THEN <<PushTask(Head(sysSem.waiting).who)>> ELSE <<>>
<1>1. Typing /\ Reach /\ Overtake /\ Owners /\ Ordered(tasks, BadTasks)
  BY DEF Inv, ClosedLast
<1>2. /\ results' = <<>> /\ UNCHANGED <<calls, ioSem, aio, table, fd_, closed>>
      /\ sysSem' = AfterRelease(sysSem, n) /\ tasks' = tasks \o done \o grant
  BY DEF PollResults
<1>3. tasks \in Seq(Task) /\ results \in Seq(DoneCalls) /\ n \in Nat
  BY <1>1, LenProperties DEF Typing
<1>4. /\ done \in Seq({UserTask} \cup FileTasks) /\ Once(done, FileTasks, FdOfTask)
      /\ \A t \in Items(done) \cap FileTasks :
           \E r \in Items(results) \cap OpenedCalls : t.fd = r.fd /\ t.file = r.op
  BY Continued
<1> HIDE DEF done, n
<1>5. tasks' = q \o grant
  BY <1>2
<1>6. /\ q \in Seq(Task) /\ Ordered(q, BadTasks)
      /\ Items(q) = Items(tasks) \cup Items(done)
      /\ FirmCalls(Items(q)) = FirmCalls(Items(tasks))
      /\ LateCalls(Items(q)) = LateCalls(Items(tasks))
      /\ done \in Seq(Task)
  <2>1. done \in Seq(Task)
    <3>1. /\ Items(done) \subseteq {UserTask} \cup FileTasks /\ done \in Seq(Items(done))
      BY <1>4, ItemsType
    <3>2. Items(done) \subseteq Task
      BY <3>1, TaskForms
    <3> QED BY <3>1, <3>2
  <2> QED BY <1>1, <1>3, <1>4, <2>1, OthersAppended
<1>7. Once(q, FileTasks, FdOfTask)
  <2>1. /\ Keys(tasks, FileTasks, FdOfTask) = {FdOfTask[x] : x \in Items(tasks) \cap FileTasks}
        /\ Keys(done, FileTasks, FdOfTask) = {FdOfTask[x] : x \in Items(done) \cap FileTasks}
    BY KeysOfItems
  <2>2. \A t \in Items(tasks) \cap FileTasks, u \in Items(done) \cap FileTasks : t.fd # u.fd
    BY <1>1, <1>4 DEF Owners
  <2>3. Keys(tasks, FileTasks, FdOfTask) \cap Keys(done, FileTasks, FdOfTask) = {}
    BY <2>1, <2>2 DEF FdOfTask
  <2>4. Once(tasks, FileTasks, FdOfTask)
    BY <1>1 DEF Owners
  <2> QED BY <1>3, <1>4, <1>6, <2>3, <2>4, OnceConcat
<1> HIDE DEF q
<1>8. /\ tasks' \in Seq(Task) /\ sysSem' \in [tokens : Nat, waiting : Seq(Clients(SysCalls))]
      /\ ClosedLast' /\ Lined' \subseteq Lined /\ Late' = Late
      /\ Items(tasks') \cap FileTasks = Items(q) \cap FileTasks
      /\ Once(tasks', FileTasks, FdOfTask)
  BY <1>2, <1>3, <1>5, <1>6, <1>7, CallGranted
<1>9. Typing'
  BY <1>1, <1>2, <1>8, EmptySeq DEF Typing
<1>10. Reach' /\ Overtake'
  BY <1>1, <1>2, <1>8 DEF Reach, Overtake
<1>11. Owners'
  <2>1. Once(results', OpenedCalls, FdOfResult) /\ Items(results') = {}
    BY <1>2, OnceEmpty, ItemsEmpty
  <2>2. Closing' \subseteq Closing
    BY <1>8 DEF Closing
  <2>3. ASSUME NEW t \in Items(tasks') \cap FileTasks
        PROVE  /\ table[t.fd] = t.file
               /\ \A h \in Handle : fd_[h] # t.fd
               /\ \A x \in Closing' : x.fd # t.fd
    <3>1. CASE t \in Items(tasks) \cap FileTasks
      BY <1>1, <2>2, <3>1 DEF Owners
    <3>2. CASE t \in Items(done) \cap FileTasks
      <4>1. PICK r \in Items(results) \cap OpenedCalls : t.fd = r.fd /\ t.file = r.op
        BY <1>4, <3>2
      <4> QED BY <1>1, <2>2, <4>1 DEF Owners
    <3> QED BY <1>6, <1>8, <3>1, <3>2
  <2>4. \A h, g \in Handle : fd_[h] # NoFd /\ fd_[h] = fd_[g] => h = g
    BY <1>1 DEF Owners
  <2>5. \A h \in Handle : fd_[h] # NoFd =>
          table[fd_[h]] # NoFile /\ \A x \in Closing' : x.fd # fd_[h]
    BY <1>1, <2>2 DEF Owners
  <2> QED BY <1>2, <1>8, <2>1, <2>3, <2>4, <2>5 DEF Owners
<1> QED BY <1>8, <1>9, <1>10, <1>11 DEF Inv

\* reap_io: the request that release() lets in is a late one.
LEMMA ReapKeeps == ASSUME Inv, NEW done \in SUBSET aio, Reap(done) PROVE Inv'
<1> DEFINE n == Cardinality(done)
           u == [i \in 1 .. n |-> UserTask]
           q == tasks \o u
           s == ioSem.waiting
           S == Clients(DmaCalls)
           grant == IF Grants(ioSem, n) THEN <<SubmitTask(Head(s).who, TRUE)>> ELSE <<>>
<1>1. Typing /\ Reach /\ Overtake /\ ClosedLast /\ Owners /\ Ordered(tasks, BadTasks)
  BY DEF Inv, ClosedLast
<1>2. /\ aio' = aio \ done /\ UNCHANGED <<sysSem, calls, results, table, fd_, closed>>
      /\ ioSem' = AfterRelease(ioSem, n) /\ tasks' = tasks \o u \o grant
  BY DEF Reap
<1>3. /\ tasks \in Seq(Task) /\ IsFiniteSet(aio) /\ aio \subseteq DmaCalls
      /\ ioSem \in [tokens : Nat, waiting : Seq(S)] /\ s \in Seq(S)
      /\ Once(tasks, FileTasks, FdOfTask)
  BY <1>1 DEF Typing, Owners
<1>4. n \in Nat /\ IsFiniteSet(aio')
  <2>1. IsFiniteSet(done) /\ IsFiniteSet(aio \ done)
    BY <1>3, FS_Subset
  <2> QED BY <1>2, <2>1, FS_CardinalityType
<1> HIDE DEF n
<1>5. u \in Seq({UserTask} \cup FileTasks) /\ u \in Seq(Task) /\ Once(u, FileTasks, FdOfTask)
        /\ Items(u) \subseteq {UserTask} /\ Keys(u, FileTasks, FdOfTask) = {}
  <2>1. u \in Seq({UserTask}) /\ Len(u) = n /\ \A i \in 1 .. n : u[i] = UserTask
    BY <1>4
  <2>2. UserTask \notin FileTasks /\ UserTask \in Task
    BY TaskSets, TaskForms
  <2>3. u \in Seq({UserTask} \cup FileTasks) /\ u \in Seq(Task)
    BY <2>1, <2>2
  <2>4. Once(u, FileTasks, FdOfTask) /\ Keys(u, FileTasks, FdOfTask) = {}
    BY <2>1, <2>2 DEF Once, Keys
  <2> QED BY <2>1, <2>3, <2>4 DEF Items
<1> HIDE DEF u
<1>6. /\ q \in Seq(Task) /\ Ordered(q, BadTasks) /\ Items(q) = Items(tasks) \cup Items(u)
      /\ FirmCalls(Items(q)) = FirmCalls(Items(tasks))
      /\ LateCalls(Items(q)) = LateCalls(Items(tasks))
  BY <1>1, <1>3, <1>5, OthersAppended
<1>7. Once(q, FileTasks, FdOfTask)
  <2>1. Keys(tasks, FileTasks, FdOfTask) \cap Keys(u, FileTasks, FdOfTask) = {}
    BY <1>5
  <2> QED BY <1>3, <1>5, <2>1, OnceConcat
<1>8. Items(q) \cap FileTasks \subseteq Items(tasks)
  BY <1>5, <1>6, TaskSets
<1>9. tasks' = q \o grant
  BY <1>2
<1> HIDE DEF q
<1> DEFINE Effects == /\ tasks' \in Seq(Task) /\ Ordered(tasks', BadTasks)
                      /\ FirmCalls(Items(tasks')) = FirmCalls(Items(tasks))
                      /\ Late' \subseteq Late
                      /\ Items(tasks') \cap FileTasks \subseteq Items(tasks)
                      /\ Once(tasks', FileTasks, FdOfTask)
<1>10. ASSUME ~Grants(ioSem, n) PROVE Effects
  <2>1. ioSem'.waiting = s
    BY <1>2, <1>3, <1>10 DEF AfterRelease
  <2>2. tasks' = q
    <3>1. tasks' = q \o <<>>
      BY <1>9, <1>10
    <3> QED BY <1>6, <3>1, ConcatEmptySeq
  <2>3. Late' = Late
    BY <1>6, <2>1, <2>2 DEF Late
  <2> QED BY <1>6, <1>7, <1>8, <2>2, <2>3
<1>11. ASSUME Grants(ioSem, n) PROVE Effects
  <2> DEFINE w == Head(s)
             c == w.who
             t == SubmitTask(c, TRUE)
             r == Tail(s)
  <2>1. s # <<>> /\ ioSem'.waiting = r
    BY <1>2, <1>3, <1>11 DEF AfterRelease, Grants
  <2>2. tasks' = Append(q, t)
    <3>1. tasks' = q \o <<t>>
      BY <1>9, <1>11
    <3> HIDE DEF t
    <3> QED BY <1>6, <3>1, AppendIsConcat
  <2> HIDE DEF s, S
  <2>3. /\ r \in Seq(S) /\ w \in S /\ Items(s) = {w} \cup Items(r)
        /\ Ordered(s, Bad) => Ordered(r, Bad) /\ Apart({w}, Items(r), Bad)
    BY <1>3, <2>1, OrderedTail
  <2> HIDE DEF r, w
  <2>4. WaitCalls(s) = {c} \cup WaitCalls(r)
    BY <2>3 DEF WaitCalls
  <2>5. c \in DmaCalls
    BY <2>3, FirmKinds DEF S
  <2>6. t \in Task /\ t.call = c /\ t \in LateTasks /\ t \notin FirmTasks /\ t \notin FileTasks
    BY <2>5, TaskForms, TaskSets
  <2> HIDE DEF t, c
  <2>7. /\ tasks' \in Seq(Task) /\ Ordered(tasks', BadTasks) /\ Items(tasks') = Items(q) \cup {t}
        /\ FirmCalls(Items(tasks')) = FirmCalls(Items(tasks))
        /\ LateCalls(Items(tasks')) = LateCalls(Items(tasks)) \cup {c}
    <3>1. /\ tasks' \in Seq(Task) /\ Ordered(tasks', BadTasks) /\ Items(tasks') = Items(q) \cup {t}
          /\ FirmCalls(Items(tasks'))
               = FirmCalls(Items(q)) \cup IF t \in FirmTasks THEN {t.call} ELSE {}
          /\ LateCalls(Items(tasks'))
               = LateCalls(Items(q)) \cup IF t \in LateTasks THEN {t.call} ELSE {}
      BY <1>6, <2>2, <2>6, TaskAppended
    <3> QED BY <1>6, <2>6, <3>1
  <2>8. Once(tasks', FileTasks, FdOfTask)
    <3>1. Once(Append(q, t), FileTasks, FdOfTask)
      BY <1>6, <1>7, <2>6, OnceAppend
    <3> QED BY <2>2, <3>1
  <2>9. Late' = Late
    BY <2>1, <2>4, <2>7 DEF Late, s
  <2> QED BY <1>8, <2>6, <2>7, <2>8, <2>9
<1>12. Effects
  BY <1>10, <1>11
<1>13. ioSem' \in [tokens : Nat, waiting : Seq(S)]
  BY <1>2, <1>3, <1>4, ReleaseProperties
<1> HIDE DEF s, S, grant
<1>14. ClosedLast'
  BY <1>1, <1>2, <1>12 DEF ClosedLast
<1>15. Lined' = Lined /\ Closing' = Closing
  <2>1. Lined' = Lined
    BY <1>2, <1>12 DEF Lined
  <2> QED BY <2>1 DEF Closing
<1>16. Typing'
  BY <1>1, <1>2, <1>3, <1>4, <1>12, <1>13 DEF Typing, S
<1>17. Reach' /\ Overtake'
  BY <1>1, <1>2, <1>12, <1>15 DEF Reach, Overtake
<1>18. Owners'
  BY <1>1, <1>2, <1>12, <1>15, OwnersKept
<1> QED BY <1>14, <1>16, <1>17, <1>18 DEF Inv

-----------------------------------------------------------------------------
(* The theorems.                                                           *)

\* Every step keeps the invariant.
THEOREM StepKeeps == Inv /\ [Next]_vars => Inv'
<1> SUFFICES ASSUME Inv, [Next]_vars PROVE Inv'
  OBVIOUS
<1>1. CASE User
  <2>1. CASE \E o \in Opening : OpenFile(o)
    BY <2>1, OpenFileKeeps
  <2>2. CASE \E h \in Handle : Close(h) \/ \E g \in Handle : Move(h, g)
    BY <2>2, CloseKeeps, MoveKeeps
  <2>3. CASE \E h \in Handle : (\E m \in Meta : MetaCall(m, h)) \/ (\E r \in Request : DmaCall(r, h))
    BY <2>3, MetaCallKeeps, DmaCallKeeps
  <2> QED BY <1>1, <2>1, <2>2, <2>3 DEF User
<1>2. CASE RunTask
  BY <1>2, RunUserKeeps, RunPushKeeps, RunFileKeeps, RunFileUnclaimedKeeps DEF RunTask
<1>3. CASE Work
  BY <1>3, WorkKeeps
<1>4. CASE PollResults
  BY <1>4, PollResultsKeeps
<1>5. CASE \E done \in SUBSET aio : Reap(done)
  BY <1>5, ReapKeeps
<1>6. CASE UNCHANGED vars
  <2>1. UNCHANGED <<tasks, sysSem, calls, results, ioSem, aio, table, fd_, used, closed>>
    BY <1>6 DEF vars
  <2>2. Lined' = Lined /\ Late' = Late /\ Closing' = Closing
    BY <2>1 DEF Lined, Late, Closing
  <2>3. Typing' /\ ClosedLast'
    BY <2>1 DEF Inv, Typing, ClosedLast
  <2>4. Reach' /\ Overtake'
    BY <2>1, <2>2 DEF Inv, Reach, Overtake
  <2>5. Owners'
    BY <2>1, <2>2 DEF Inv, Owners, Once
  <2> QED BY <2>3, <2>4, <2>5 DEF Inv
<1> QED BY <1>1, <1>2, <1>3, <1>4, <1>5, <1>6 DEF Next

\* The invariant holds of every run.
THEOREM InvHolds == Safe => []Inv
<1>1. Init => Inv
  BY Start
<1>2. Inv /\ [Next]_vars => Inv'
  BY StepKeeps
<1> QED BY <1>1, <1>2, PTL DEF Safe

\* The properties say Elements where the invariant says Items.
LEMMA SameItems ==
  ASSUME Inv
  PROVE  /\ Elements(calls) = Items(calls) /\ Elements(tasks) = Items(tasks)
         /\ Waiting(sysSem) = WaitCalls(sysSem.waiting)
         /\ Waiting(ioSem) = WaitCalls(ioSem.waiting)
<1>1. /\ calls \in Seq(SysCalls) /\ tasks \in Seq(Task)
      /\ sysSem.waiting \in Seq(Clients(SysCalls)) /\ ioSem.waiting \in Seq(Clients(DmaCalls))
  BY DEF Inv, Typing
<1>2. Elements(calls) = Items(calls)
  BY <1>1, ItemsType DEF Elements
<1>3. Elements(tasks) = Items(tasks)
  BY <1>1, ItemsType DEF Elements
<1>4. Elements(sysSem.waiting) = Items(sysSem.waiting)
  BY <1>1, ItemsType DEF Elements
<1>5. Elements(ioSem.waiting) = Items(ioSem.waiting)
  BY <1>1, ItemsType DEF Elements
<1> QED BY <1>2, <1>3, <1>4, <1>5 DEF Waiting, WaitCalls

\* A call of stat, size, flush or close finds its descriptor open for its file
\* when the worker gets to it, and no two handles share a descriptor
\* (file.cpp:71-73, syscall.cpp:29).
THEOREM WorkerUsesTheRightFile == Safe => []CallsReachTheirFile
<1>1. Inv => CallsReachTheirFile
  <2> SUFFICES ASSUME Inv PROVE CallsReachTheirFile
    OBVIOUS
  <2>1. Typing /\ Reach /\ Owners
    BY DEF Inv
  <2>2. PushTasks \subseteq FirmCalls(Items(tasks))
    <3>1. \A t \in Items(tasks) : t.kind = "push" => t \in FirmTasks
      BY <2>1, LinedCalls DEF FirmTasks
    <3> QED BY <3>1, SameItems DEF PushTasks, FirmCalls
  <2>3. Waiting(sysSem) \cup PushTasks \cup Elements(calls) \subseteq Lined
    BY <2>2, SameItems DEF Lined
  <2>4. \A c \in Lined : c.kind \in {"meta", "close"} => table[c.fd] = c.file
    BY <2>1 DEF Reach
  <2>5. \A h \in Handle : fd_[h] # NoFd =>
          table[fd_[h]] # NoFile /\ \A g \in Handle \ {h} : fd_[g] # fd_[h]
    BY <2>1 DEF Owners
  <2> QED BY <2>3, <2>4, <2>5 DEF CallsReachTheirFile
<1> QED BY <1>1, InvHolds, PTL

\* A request gets to the kernel while its descriptor is open for its file, unless
\* it had to wait for a token and its file has been closed since
\* (file_io.cpp:62, 71-72).
THEOREM KernelUsesTheRightFile == Safe => []RequestsReachTheirFile
<1>1. Inv => RequestsReachTheirFile
  <2> SUFFICES ASSUME Inv PROVE RequestsReachTheirFile
    OBVIOUS
  <2>1. Typing /\ Reach /\ Overtake
    BY DEF Inv
  <2>2. ASSUME NEW t \in SubmitTasks
        PROVE  table[t.call.fd] = t.call.file \/ (t.waited /\ t.call.file \in closed)
    <3>1. t \in Items(tasks) /\ t.kind = "submit" /\ t \in Task
      BY <2>1, SameItems, LinedCalls DEF SubmitTasks
    <3>2. t.call \in DmaCalls /\ t.call.kind = "dma" /\ t.waited \in BOOLEAN
      BY <3>1, TaskKinds, CallKinds
    <3>3. CASE t.waited
      <4>1. t.call \in Late
        BY <3>1, <3>3 DEF Late, LateCalls, LateTasks
      <4> QED BY <2>1, <3>3, <4>1 DEF Overtake
    <3>4. CASE ~t.waited
      <4>1. t.call \in Lined
        BY <3>1, <3>4 DEF Lined, FirmCalls, FirmTasks
      <4> QED BY <2>1, <3>2, <4>1 DEF Reach
    <3> QED BY <3>2, <3>3, <3>4
  <2>3. \A c \in Waiting(ioSem) : table[c.fd] = c.file \/ c.file \in closed
    BY <2>1, SameItems DEF Overtake, Late
  <2> QED BY <2>2, <2>3 DEF RequestsReachTheirFile
<1> QED BY <1>1, InvHolds, PTL

-----------------------------------------------------------------------------
(* No descriptor leaks: one that is open is somebody's.                    *)

\* The descriptors that are in a handle, in the result of an open, with the task
\* that makes a File, and with a close on its way to the worker.
HandleFds == {fd_[h] : h \in Handle}
ResultFds == {c.fd : c \in Items(results) \cap OpenedCalls}
TaskFds == {t.fd : t \in Items(tasks) \cap FileTasks}
ClosingFds == {c.fd : c \in Closing}

\* Every descriptor that is open is with one of them: the handle that will close
\* it, or has asked for it to be closed, or has yet to be made.
NoDescriptorLeaks ==
  \A fd \in Fd : table[fd] # NoFile => fd \in HandleFds \cup ResultFds \cup TaskFds \cup ClosingFds

\* A call that is made is in line, and so are those before it.
LEMMA CallLined ==
  ASSUME Inv, NEW q \in Seq(Task), FirmCalls(Items(tasks)) \subseteq FirmCalls(Items(q)),
         NEW c \in SysCalls, SubmitSyscall(q, c)
  PROVE  Lined \subseteq Lined' /\ c \in Lined' /\ Items(q) \subseteq Items(tasks')
<1>1. /\ sysSem \in [tokens : Nat, waiting : Seq(Clients(SysCalls))]
      /\ sysSem' = AfterWait(sysSem, 1, c) /\ calls' = calls
      /\ tasks' = IF Admits(sysSem, 1) THEN Append(q, PushTask(c)) ELSE q
  BY DEF SubmitSyscall, Inv, Typing
<1>2. CASE Admits(sysSem, 1)
  <2>1. sysSem'.waiting = sysSem.waiting /\ tasks' = Append(q, PushTask(c))
    BY <1>1, <1>2 DEF AfterWait
  <2>2. PushTask(c) \in Task /\ PushTask(c) \in FirmTasks /\ PushTask(c).call = c
    BY TaskForms, TaskSets
  <2>3. Items(tasks') = Items(q) \cup {PushTask(c)}
    BY <2>1, <2>2, ItemsAppend
  <2>4. FirmCalls(Items(q)) \cup {c} \subseteq FirmCalls(Items(tasks'))
    BY <2>2, <2>3 DEF FirmCalls
  <2> QED BY <1>1, <2>1, <2>3, <2>4 DEF Lined
<1>3. CASE ~Admits(sysSem, 1)
  <2> DEFINE s == sysSem.waiting
             w == [tokens |-> 1, who |-> c]
  <2>1. sysSem'.waiting = Append(s, w) /\ tasks' = q
    BY <1>1, <1>3 DEF AfterWait
  <2>2. s \in Seq(Clients(SysCalls)) /\ w \in Clients(SysCalls) /\ w.who = c
    BY <1>1 DEF Clients
  <2> HIDE DEF s, w
  <2>3. Items(sysSem'.waiting) = Items(s) \cup {w}
    BY <2>1, <2>2, ItemsAppend
  <2>4. WaitCalls(sysSem'.waiting) = WaitCalls(s) \cup {c}
    BY <2>2, <2>3 DEF WaitCalls
  <2> QED BY <1>1, <2>1, <2>4 DEF Lined, s
<1> QED BY <1>2, <1>3

\* What becomes of the task that is first in the queue.
LEMMA TaskRun ==
  ASSUME Inv, tasks # <<>>
  PROVE  /\ tasks \in Seq(Task) /\ Head(tasks) \in Task /\ Tail(tasks) \in Seq(Task)
         /\ Items(tasks) = {Head(tasks)} \cup Items(Tail(tasks))
         /\ FirmCalls(Items(tasks)) \subseteq
              FirmCalls(Items(Tail(tasks))) \cup {c \in {Head(tasks).call} : Head(tasks) \in FirmTasks}
<1> DEFINE h == Head(tasks)
           q == Tail(tasks)
<1>1. tasks \in Seq(Task) /\ h \in Task /\ q \in Seq(Task) /\ Items(tasks) = {h} \cup Items(q)
  BY TaskTaken DEF Inv, Typing
<1> HIDE DEF h, q
<1>2. FirmCalls(Items(tasks)) \subseteq FirmCalls(Items(q)) \cup {c \in {h.call} : h \in FirmTasks}
  BY <1>1 DEF FirmCalls
<1> QED BY <1>1, <1>2 DEF h, q

\* The call that release() lets in stays in line.
LEMMA GrantedLined ==
  ASSUME Inv, NEW q \in Seq(Task), FirmCalls(Items(tasks)) \subseteq FirmCalls(Items(q)),
         NEW n \in Nat, sysSem' = AfterRelease(sysSem, n), UNCHANGED calls,
         tasks' = q \o IF Grants(sysSem, n) THEN <<PushTask(Head(sysSem.waiting).who)>> ELSE <<>>
  PROVE  Lined \subseteq Lined' /\ Items(q) \subseteq Items(tasks')
<1> DEFINE s == sysSem.waiting
           S == Clients(SysCalls)
<1>1. sysSem \in [tokens : Nat, waiting : Seq(S)] /\ s \in Seq(S)
  BY DEF Inv, Typing
<1>2. CASE ~Grants(sysSem, n)
  <2>1. sysSem'.waiting = s
    BY <1>1, <1>2 DEF AfterRelease
  <2>2. tasks' = q
    <3>1. tasks' = q \o <<>>
      BY <1>2
    <3> QED BY <3>1, ConcatEmptySeq
  <2> QED BY <2>1, <2>2 DEF Lined
<1>3. CASE Grants(sysSem, n)
  <2> DEFINE c == Head(s).who
             t == PushTask(c)
             r == Tail(s)
  <2>1. s # <<>> /\ sysSem'.waiting = r
    BY <1>1, <1>3 DEF AfterRelease, Grants
  <2>2. tasks' = q \o <<t>>
    BY <1>3
  <2> HIDE DEF s, S
  <2>3. Head(s) \in S /\ Items(s) = {Head(s)} \cup Items(r)
    <3>1. PICK R : R = {}
      OBVIOUS
    <3> QED BY <1>1, <2>1, OrderedTail
  <2> HIDE DEF r
  <2>4. c \in SysCalls
    BY <2>3, FirmKinds DEF S
  <2>5. WaitCalls(s) = {c} \cup WaitCalls(r)
    BY <2>3 DEF WaitCalls
  <2> HIDE DEF c
  <2>6. t \in Task /\ t \in FirmTasks /\ t.call = c
    BY <2>4, TaskForms, TaskSets
  <2> HIDE DEF t
  <2>7. Items(tasks') = Items(q) \cup {t}
    <3>1. tasks' = Append(q, t)
      BY <2>2, <2>6, AppendIsConcat
    <3>2. Items(Append(q, t)) = Items(q) \cup {t}
      BY <2>6, ItemsAppend
    <3> QED BY <3>1, <3>2
  <2>8. FirmCalls(Items(q)) \cup {c} \subseteq FirmCalls(Items(tasks'))
    BY <2>6, <2>7 DEF FirmCalls
  <2> QED BY <2>1, <2>5, <2>7, <2>8 DEF Lined, s
<1> QED BY <1>2, <1>3

\* A call of user code or the close of a File that nobody receives: what is closed
\* is in line.
LEMMA CallLeaksNothing ==
  ASSUME Inv, NoDescriptorLeaks, NEW q \in Seq(Task), NEW c \in SysCalls, SubmitSyscall(q, c),
         FirmCalls(Items(tasks)) \subseteq FirmCalls(Items(q)), UNCHANGED <<results, table>>,
         NEW D, D = {} \/ (c.kind = "close" /\ D = {c.fd}),
         TaskFds \subseteq {t.fd : t \in Items(q) \cap FileTasks} \cup D,
         HandleFds \subseteq HandleFds' \cup D
  PROVE  NoDescriptorLeaks'
<1>1. Lined \subseteq Lined' /\ c \in Lined' /\ Items(q) \subseteq Items(tasks')
  BY CallLined
<1>2. ClosingFds \cup D \subseteq ClosingFds'
  BY <1>1 DEF ClosingFds, Closing
<1>3. {t.fd : t \in Items(q) \cap FileTasks} \subseteq TaskFds'
  BY <1>1 DEF TaskFds
<1>4. ResultFds' = ResultFds
  BY DEF ResultFds
<1> QED BY <1>2, <1>3, <1>4 DEF NoDescriptorLeaks

LEMMA UserLeaksNothing == ASSUME Inv, NoDescriptorLeaks, User PROVE NoDescriptorLeaks'
<1>1. /\ Typing /\ tasks \in Seq(Task) /\ fd_ \in [Handle -> Fd \cup {NoFd}]
  BY DEF Inv, Typing
<1>2. TaskFds \subseteq {t.fd : t \in Items(tasks) \cap FileTasks} \cup {}
  BY DEF TaskFds
<1>3. ASSUME NEW o \in Opening, OpenFile(o) PROVE NoDescriptorLeaks'
  <2>1. OpenCall(o) \in SysCalls
    BY CallForms DEF SysCalls
  <2>2. /\ SubmitSyscall(tasks, OpenCall(o)) /\ UNCHANGED <<results, table>>
        /\ HandleFds \subseteq HandleFds' \cup {}
    BY <1>3 DEF OpenFile, HandleFds
  <2> QED BY <1>1, <1>2, <2>1, <2>2, CallLeaksNothing
<1>4. ASSUME NEW m \in Meta, NEW h \in Handle, MetaCall(m, h) PROVE NoDescriptorLeaks'
  <2> DEFINE c == CallOn("meta", m, fd_[h])
  <2>1. c \in SysCalls
    BY <1>4, HandleFiles, CallForms DEF MetaCall, SysCalls
  <2>2. /\ SubmitSyscall(tasks, c) /\ UNCHANGED <<results, table>>
        /\ HandleFds \subseteq HandleFds' \cup {}
    BY <1>4 DEF MetaCall, HandleFds
  <2> HIDE DEF c
  <2> QED BY <1>1, <1>2, <2>1, <2>2, CallLeaksNothing
<1>5. ASSUME NEW r \in Request, NEW h \in Handle, DmaCall(r, h) PROVE NoDescriptorLeaks'
  <2> DEFINE c == CallOn("dma", r, fd_[h])
  <2>1. c \in DmaCalls
    BY <1>5, HandleFiles, CallForms DEF DmaCall
  <2>2. /\ tasks' = IF Admits(ioSem, 1) THEN Append(tasks, SubmitTask(c, FALSE)) ELSE tasks
        /\ UNCHANGED <<sysSem, calls, results, table, fd_>>
    BY <1>5 DEF DmaCall
  <2> HIDE DEF c
  <2>3. Items(tasks) \subseteq Items(tasks')
    <3>1. SubmitTask(c, FALSE) \in Task
      BY <2>1, TaskForms
    <3> DEFINE t == SubmitTask(c, FALSE)
    <3> HIDE DEF t
    <3>2. Items(Append(tasks, t)) = Items(tasks) \cup {t}
      BY <1>1, <3>1, ItemsAppend, ZenonT(40) DEF t
    <3> QED BY <2>2, <3>2 DEF t
  <2>4. Lined \subseteq Lined'
    BY <2>2, <2>3 DEF Lined, FirmCalls
  <2>5. /\ ClosingFds \subseteq ClosingFds' /\ TaskFds \subseteq TaskFds'
        /\ ResultFds' = ResultFds /\ HandleFds' = HandleFds
    BY <2>2, <2>3, <2>4 DEF ClosingFds, Closing, TaskFds, ResultFds, HandleFds
  <2> QED BY <2>2, <2>5 DEF NoDescriptorLeaks
<1>6. ASSUME NEW h \in Handle, Close(h) PROVE NoDescriptorLeaks'
  <2> DEFINE fd == fd_[h]
             o == table[fd]
             c == CallOn("close", o, fd)
  <2>1. fd \in Fd /\ o \in Opening
    BY <1>6, HandleFiles DEF Close
  <2>2. /\ SubmitSyscall(tasks, c) /\ UNCHANGED <<results, table>>
        /\ fd_' = [fd_ EXCEPT ![h] = NoFd]
    BY <1>6 DEF Close, TakeFd
  <2>3. c \in SysCalls /\ c.kind = "close" /\ c.fd = fd
    <3> HIDE DEF fd
    <3> QED BY <2>1, CallForms DEF SysCalls
  <2>4. HandleFds \subseteq HandleFds' \cup {fd}
    BY <1>1, <2>2 DEF HandleFds
  <2> HIDE DEF c, o, fd
  <2>5. TaskFds \subseteq {t.fd : t \in Items(tasks) \cap FileTasks} \cup {c.fd}
    BY <1>2
  <2> QED BY <1>1, <2>2, <2>3, <2>4, <2>5, CallLeaksNothing
<1>7. ASSUME NEW h \in Handle, NEW g \in Handle, Move(h, g) PROVE NoDescriptorLeaks'
  <2>1. /\ fd_' = [fd_ EXCEPT ![h] = fd_[g], ![g] = fd_[h]]
        /\ UNCHANGED <<tasks, sysSem, calls, results, table>>
    BY <1>7 DEF Move, Swapped
  <2>2. HandleFds \subseteq HandleFds'
    <3>1. fd_'[h] = fd_[g] /\ fd_'[g] = fd_[h] /\ \A k \in Handle \ {h, g} : fd_'[k] = fd_[k]
      BY <1>1, <2>1
    <3> QED BY <3>1 DEF HandleFds
  <2>3. ClosingFds' = ClosingFds /\ TaskFds' = TaskFds /\ ResultFds' = ResultFds
    BY <2>1 DEF ClosingFds, Closing, Lined, TaskFds, ResultFds
  <2> QED BY <2>1, <2>2, <2>3 DEF NoDescriptorLeaks
<1> QED BY <1>3, <1>4, <1>5, <1>6, <1>7 DEF User

\* A task is run: that of a File hands the descriptor on.
LEMMA RunLeaksNothing == ASSUME Inv, NoDescriptorLeaks, RunTask PROVE NoDescriptorLeaks'
<1> DEFINE t == Head(tasks)
           q == Tail(tasks)
<1>1. Typing /\ tasks # <<>> /\ UNCHANGED <<results, table>> /\ fd_ \in [Handle -> Fd \cup {NoFd}]
  BY DEF Inv, Typing, RunTask, RunUser, RunPush, RunFile, RunFileUnclaimed, RunSubmit, NextTask
<1>2. /\ t \in Task /\ q \in Seq(Task) /\ Items(tasks) = {t} \cup Items(q)
      /\ FirmCalls(Items(tasks)) \subseteq FirmCalls(Items(q)) \cup {c \in {t.call} : t \in FirmTasks}
  BY <1>1, TaskRun
<1>3. ResultFds' = ResultFds
  BY <1>1 DEF ResultFds
<1> HIDE DEF q
<1>4. TaskFds \subseteq {u.fd : u \in Items(q) \cap FileTasks} \cup {d \in {t.fd} : t \in FileTasks}
  BY <1>2 DEF TaskFds
<1>5. /\ t.kind = "push" => t \in FirmTasks /\ t \notin FileTasks /\ t.call \in SysCalls
      /\ t.kind = "file" => t \in FileTasks /\ t.file \in Opening /\ t.fd \in Fd /\ t \notin FirmTasks
      /\ t.kind = "user" => t \notin FirmTasks /\ t \notin FileTasks
      /\ t.kind = "submit" => t \notin FileTasks /\ t.call.kind = "dma"
  BY <1>2, TaskKinds, CallKinds DEF FirmTasks
<1>6. ASSUME RunUser \/ RunSubmit PROVE NoDescriptorLeaks'
  <2>1. tasks' = q /\ UNCHANGED <<sysSem, calls, fd_>> /\ t.kind \in {"user", "submit"}
    BY <1>6 DEF RunUser, RunSubmit, NextTask, q
  <2> HIDE DEF t
  <2>2. Closing \subseteq Closing'
    BY <1>2, <1>5, <2>1 DEF Closing, Lined
  <2>3. /\ ClosingFds \subseteq ClosingFds' /\ TaskFds \subseteq TaskFds' /\ HandleFds' = HandleFds
    BY <1>4, <1>5, <2>1, <2>2 DEF ClosingFds, TaskFds, HandleFds
  <2> QED BY <1>1, <1>3, <2>3 DEF NoDescriptorLeaks
<1>7. ASSUME RunPush PROVE NoDescriptorLeaks'
  <2>1. /\ tasks' = q /\ calls' = Append(calls, t.call) /\ UNCHANGED <<sysSem, fd_>>
        /\ t.kind = "push" /\ calls \in Seq(SysCalls)
    BY <1>1, <1>7 DEF RunPush, NextTask, Typing, q
  <2> HIDE DEF t
  <2>2. Items(calls') = Items(calls) \cup {t.call}
    BY <1>5, <2>1, ItemsAppend
  <2>3. Closing \subseteq Closing'
    BY <1>2, <2>1, <2>2 DEF Closing, Lined
  <2>4. /\ ClosingFds \subseteq ClosingFds' /\ TaskFds \subseteq TaskFds' /\ HandleFds' = HandleFds
    BY <1>4, <1>5, <2>1, <2>3 DEF ClosingFds, TaskFds, HandleFds
  <2> QED BY <1>1, <1>3, <2>4 DEF NoDescriptorLeaks
<1>8. ASSUME RunFile PROVE NoDescriptorLeaks'
  <2>1. tasks' = q /\ UNCHANGED <<sysSem, calls>> /\ t.kind = "file"
    BY <1>8 DEF RunFile, NextTask, q
  <2>2. PICK h \in Handle : fd_[h] = NoFd /\ fd_' = [fd_ EXCEPT ![h] = t.fd]
    BY <1>8 DEF RunFile
  <2> HIDE DEF t
  <2>3. Closing \subseteq Closing'
    BY <1>2, <1>5, <2>1 DEF Closing, Lined
  <2>4. t.fd \in HandleFds' /\ HandleFds \subseteq HandleFds' \cup {NoFd}
    <3>1. fd_'[h] = t.fd /\ \A g \in Handle \ {h} : fd_'[g] = fd_[g]
      BY <1>1, <2>2
    <3> QED BY <2>2, <3>1 DEF HandleFds
  <2>5. /\ ClosingFds \subseteq ClosingFds' /\ TaskFds \subseteq TaskFds' \cup {t.fd}
    BY <1>4, <2>1, <2>3 DEF ClosingFds, TaskFds
  <2>6. NoFd \notin Fd
    BY FilesAssumption
  <2> QED BY <1>1, <1>3, <2>4, <2>5, <2>6 DEF NoDescriptorLeaks
<1>9. ASSUME RunFileUnclaimed PROVE NoDescriptorLeaks'
  <2> DEFINE c == CallOn("close", t.file, t.fd)
  <2>1. SubmitSyscall(q, c) /\ UNCHANGED fd_ /\ t.kind = "file"
    BY <1>9 DEF RunFileUnclaimed, NextTask, Unclaimed, q
  <2>2. table[t.fd] = t.file
    BY <1>2, <1>5, <2>1 DEF Inv, Owners
  <2> HIDE DEF t
  <2>3. c \in SysCalls /\ c.kind = "close" /\ c.fd = t.fd
    BY <1>5, <2>1, <2>2, CallForms DEF SysCalls
  <2> HIDE DEF c
  <2>4. /\ FirmCalls(Items(tasks)) \subseteq FirmCalls(Items(q))
        /\ TaskFds \subseteq {u.fd : u \in Items(q) \cap FileTasks} \cup {c.fd}
    BY <1>2, <1>4, <1>5, <2>1, <2>3
  <2>5. HandleFds \subseteq HandleFds' \cup {c.fd}
    BY <2>1 DEF HandleFds
  <2> QED BY <1>1, <1>2, <2>1, <2>3, <2>4, <2>5, CallLeaksNothing
<1> QED BY <1>6, <1>7, <1>8, <1>9 DEF RunTask

\* A sequence put behind another takes nothing from it.
LEMMA ItemsStay ==
  ASSUME NEW S, NEW q \in Seq(S), NEW T, NEW s \in Seq(T)
  PROVE  Items(q) \subseteq Items(q \o s) /\ q \o s \in Seq(S \cup T)
<1> DEFINE U == S \cup T
<1>1. q \in Seq(U) /\ s \in Seq(U)
  OBVIOUS
<1> HIDE DEF U
<1>2. q \o s \in Seq(U)
  BY <1>1, ConcatProperties
<1>3. Items(q) \subseteq Items(q \o s)
  <2>1. PICK R : R = {}
    OBVIOUS
  <2>2. Items(q \o s) = Items(q) \cup Items(s)
    BY <1>1, OrderedConcat
  <2> QED BY <2>2
<1> QED BY <1>2, <1>3 DEF U

\* The worker opens a descriptor and has its result, or closes one.
LEMMA WorkLeaksNothing == ASSUME Inv, NoDescriptorLeaks, Work PROVE NoDescriptorLeaks'
<1> DEFINE c == Head(calls)
<1>1. /\ calls # <<>> /\ calls' = Tail(calls) /\ UNCHANGED <<tasks, sysSem, fd_>>
      /\ calls \in Seq(SysCalls) /\ results \in Seq(DoneCalls)
      /\ table \in [Fd -> Opening \cup {NoFile}]
  BY DEF Work, Inv, Typing
<1>2. c \in SysCalls /\ c.kind \in {"open", "meta", "close"} /\ Items(calls) = {c} \cup Items(calls')
  <2>1. PICK R : R = {}
    OBVIOUS
  <2>2. c \in SysCalls /\ Items(calls) = {c} \cup Items(Tail(calls))
    BY <1>1, OrderedTail
  <2> QED BY <1>1, <2>2, CallKinds
<1>3. TaskFds' = TaskFds /\ HandleFds' = HandleFds
  BY <1>1 DEF TaskFds, HandleFds
<1>4. \A x \in Closing : x = c \/ x \in Closing'
  <2> HIDE DEF c
  <2> QED BY <1>1, <1>2 DEF Closing, Lined
<1>5. c \in DoneCalls
  BY <1>2 DEF DoneCalls
<1>6. ASSUME c.kind # "close", UNCHANGED table, results' = Append(results, c)
      PROVE  NoDescriptorLeaks'
  <2> HIDE DEF c
  <2>1. Items(results') = Items(results) \cup {c}
    BY <1>1, <1>5, <1>6, ItemsAppend
  <2>2. ClosingFds \subseteq ClosingFds' /\ ResultFds \subseteq ResultFds'
    BY <1>4, <1>6, <2>1 DEF ClosingFds, Closing, ResultFds
  <2> QED BY <1>3, <1>6, <2>2 DEF NoDescriptorLeaks
<1>7. ASSUME c.kind = "open", NEW fd \in Fd, table' = [table EXCEPT ![fd] = c.op],
             results' = Append(results, [c EXCEPT !.fd = fd])
      PROVE  NoDescriptorLeaks'
  <2> DEFINE d == [c EXCEPT !.fd = fd]
  <2> HIDE DEF c
  <2>1. c \in OpenCalls
    BY <1>2, <1>7 DEF SysCalls, MetaCalls, CloseCalls
  <2>2. d \in OpenedCalls /\ d.fd = fd
    BY <2>1 DEF OpenCalls, OpenedCalls
  <2>3. results' = Append(results, d)
    BY <1>7
  <2> HIDE DEF d
  <2>4. d \in DoneCalls
    BY <2>2 DEF DoneCalls
  <2>5. Items(results') = Items(results) \cup {d}
    BY <1>1, <2>3, <2>4, ItemsAppend
  <2>6. fd \in ResultFds' /\ ResultFds \subseteq ResultFds'
    BY <2>2, <2>5 DEF ResultFds
  <2>7. ClosingFds \subseteq ClosingFds'
    BY <1>4, <1>7 DEF ClosingFds, Closing
  <2>8. \A e \in Fd : e # fd => table'[e] = table[e]
    BY <1>1, <1>7
  <2> QED BY <1>3, <2>6, <2>7, <2>8 DEF NoDescriptorLeaks
<1>8. ASSUME table' = [table EXCEPT ![c.fd] = NoFile], results' = Append(results, c)
      PROVE  NoDescriptorLeaks'
  <2> HIDE DEF c
  <2>1. Items(results') = Items(results) \cup {c}
    BY <1>1, <1>5, <1>8, ItemsAppend
  <2>2. ClosingFds \subseteq ClosingFds' \cup {c.fd} /\ ResultFds \subseteq ResultFds'
    BY <1>4, <2>1 DEF ClosingFds, ResultFds
  <2>3. \A e \in Fd : table'[e] # NoFile => table[e] # NoFile /\ e # c.fd
    BY <1>1, <1>8
  <2> QED BY <1>3, <2>2, <2>3 DEF NoDescriptorLeaks
<1>9. \/ \E fd \in Fd : c.kind = "open" /\ table' = [table EXCEPT ![fd] = c.op]
                          /\ results' = Append(results, [c EXCEPT !.fd = fd])
      \/ c.kind # "close" /\ UNCHANGED table /\ results' = Append(results, c)
      \/ table' = [table EXCEPT ![c.fd] = NoFile] /\ results' = Append(results, c)
  <2>1. CASE c.kind = "open"
    BY <2>1 DEF Work
  <2>2. CASE c.kind = "meta"
    BY <2>2 DEF Work
  <2>3. CASE c.kind = "close"
    BY <2>3 DEF Work
  <2> QED BY <1>2, <2>1, <2>2, <2>3
<1> QED BY <1>6, <1>7, <1>8, <1>9

\* A result that had a descriptor hands it to the task that makes the File.
LEMMA PollLeaksNothing == ASSUME Inv, NoDescriptorLeaks, PollResults PROVE NoDescriptorLeaks'
<1> DEFINE n == Len(results)
           done == [i \in 1 .. n |-> Continuation(results[i])]
           q == tasks \o done
<1>1. /\ UNCHANGED <<calls, table, fd_>> /\ sysSem' = AfterRelease(sysSem, n)
      /\ tasks' = q \o IF Grants(sysSem, n) THEN <<PushTask(Head(sysSem.waiting).who)>> ELSE <<>>
  BY DEF PollResults
<1>2. /\ tasks \in Seq(Task) /\ results \in Seq(DoneCalls) /\ n \in Nat
      /\ \A i \in 1 .. n : results[i] \in DoneCalls
  <2>1. tasks \in Seq(Task) /\ results \in Seq(DoneCalls)
    BY DEF Inv, Typing
  <2> QED BY <2>1, LenProperties
<1>3. done \in Seq({UserTask} \cup FileTasks) /\ Len(done) = n
  <2>1. Len(done) = n
    BY <1>2
  <2>2. done \in Seq({UserTask} \cup FileTasks)
    BY Continued
  <2> QED BY <2>1, <2>2
<1>4. ResultFds \subseteq {t.fd : t \in Items(done) \cap FileTasks}
  <2> SUFFICES ASSUME NEW c \in Items(results) \cap OpenedCalls
               PROVE  \E t \in Items(done) \cap FileTasks : t.fd = c.fd
    BY DEF ResultFds
  <2>1. PICK i \in 1 .. n : results[i] = c
    BY <1>2 DEF Items
  <2>2. c \in DoneCalls /\ c.kind = "open" /\ c.fd # NoFd /\ c.op \in Opening /\ c.fd \in Fd
    BY <1>2, <2>1, CallKinds DEF OpenedCalls
  <2>3. done[i] = FileTask(c.op, c.fd)
    BY <2>1, <2>2 DEF Continuation
  <2>4. done[i] \in FileTasks /\ done[i].fd = c.fd
    BY <2>2, <2>3, TaskForms
  <2>5. done[i] \in Items(done)
    BY <1>3 DEF Items
  <2> QED BY <2>4, <2>5
<1> HIDE DEF done, n
<1>5. done \in Seq(Task)
  <2>1. {UserTask} \cup FileTasks \subseteq Task
    BY TaskForms
  <2> QED BY <1>3, <2>1
<1>6. Items(q) = Items(tasks) \cup Items(done) /\ q \in Seq(Task)
  <2>1. PICK R : R = {}
    OBVIOUS
  <2> QED BY <1>2, <1>5, OrderedConcat, ConcatProperties
<1> HIDE DEF q
<1>7. FirmCalls(Items(tasks)) \subseteq FirmCalls(Items(q))
  BY <1>6 DEF FirmCalls
<1>8. Lined \subseteq Lined' /\ Items(q) \subseteq Items(tasks')
  BY <1>1, <1>2, <1>6, <1>7, GrantedLined
<1>9. /\ ResultFds \cup TaskFds \subseteq TaskFds' /\ ClosingFds \subseteq ClosingFds'
      /\ HandleFds' = HandleFds
  BY <1>1, <1>4, <1>6, <1>8 DEF TaskFds, ClosingFds, Closing, HandleFds
<1> QED BY <1>1, <1>9 DEF NoDescriptorLeaks

LEMMA ReapLeaksNothing ==
  ASSUME Inv, NoDescriptorLeaks, NEW done \in SUBSET aio, Reap(done)
  PROVE  NoDescriptorLeaks'
<1> DEFINE n == Cardinality(done)
           u == [i \in 1 .. n |-> UserTask]
           g == Head(ioSem.waiting).who
<1>1. /\ UNCHANGED <<sysSem, calls, results, table, fd_>>
      /\ \/ tasks' = (tasks \o u) \o <<SubmitTask(g, TRUE)>>
         \/ tasks' = (tasks \o u) \o <<>>
  BY DEF Reap
<1>2. tasks \in Seq(Task) /\ n \in Nat
  <2>1. tasks \in Seq(Task) /\ IsFiniteSet(done)
    BY FS_Subset DEF Inv, Typing
  <2> QED BY <2>1, FS_CardinalityType
<1>3. u \in Seq({UserTask})
  BY <1>2
<1> HIDE DEF u, g
<1>4. Items(tasks) \subseteq Items(tasks \o u) /\ tasks \o u \in Seq(Task \cup {UserTask})
  BY <1>2, <1>3, ItemsStay
<1>5. \A T : \A s \in Seq(T) : Items(tasks \o u) \subseteq Items((tasks \o u) \o s)
  BY <1>4, ItemsStay
<1>6. <<>> \in Seq({}) /\ <<SubmitTask(g, TRUE)>> \in Seq({SubmitTask(g, TRUE)})
  OBVIOUS
<1>7. Items(tasks) \subseteq Items(tasks')
  BY <1>1, <1>4, <1>5, <1>6
<1>8. /\ TaskFds \subseteq TaskFds' /\ ClosingFds \subseteq ClosingFds'
      /\ HandleFds' = HandleFds /\ ResultFds' = ResultFds
  BY <1>1, <1>7 DEF TaskFds, ClosingFds, Closing, Lined, FirmCalls, HandleFds, ResultFds
<1> QED BY <1>1, <1>8 DEF NoDescriptorLeaks

\* A descriptor that is open is in a handle, or on its way into one, or on its way
\* to be closed: the destructor of a File that nobody received, the swap of a move
\* and the order of the worker's calls leave none behind (file.cpp:10-18, 71-73,
\* file.h:20-35).
THEOREM NoDescriptorIsLost == Safe => []NoDescriptorLeaks
<1>1. Init => NoDescriptorLeaks
  BY DEF Init, NoDescriptorLeaks
<1>2. Inv /\ NoDescriptorLeaks /\ [Next]_vars => NoDescriptorLeaks'
  <2> SUFFICES ASSUME Inv, NoDescriptorLeaks, [Next]_vars PROVE NoDescriptorLeaks'
    OBVIOUS
  <2>1. CASE User
    BY <2>1, UserLeaksNothing
  <2>2. CASE RunTask
    BY <2>2, RunLeaksNothing
  <2>3. CASE Work
    BY <2>3, WorkLeaksNothing
  <2>4. CASE PollResults
    BY <2>4, PollLeaksNothing
  <2>5. CASE \E done \in SUBSET aio : Reap(done)
    BY <2>5, ReapLeaksNothing
  <2>6. CASE UNCHANGED vars
    BY <2>6 DEF vars, NoDescriptorLeaks, HandleFds, ResultFds, TaskFds, ClosingFds, Closing, Lined
  <2> QED BY <2>1, <2>2, <2>3, <2>4, <2>5, <2>6 DEF Next
<1> QED BY <1>1, <1>2, InvHolds, PTL DEF Safe

\* When nothing is left to run, every descriptor that is open is in a handle, and no
\* handle has one that is closed.
AtRest == tasks = <<>> /\ calls = <<>> /\ results = <<>> /\ sysSem.waiting = <<>>

OpenIsHeld ==
  AtRest => \A fd \in Fd : table[fd] # NoFile <=> \E h \in Handle : fd_[h] = fd

\* Once the CPU and the worker are at rest the process's descriptors are those of the
\* handles user code still has (file.cpp:71-73).
THEOREM WhatIsOpenIsHeld == Safe => []OpenIsHeld
<1>1. Inv /\ NoDescriptorLeaks => OpenIsHeld
  <2> SUFFICES ASSUME Inv, NoDescriptorLeaks, AtRest, NEW fd \in Fd
               PROVE  table[fd] # NoFile <=> \E h \in Handle : fd_[h] = fd
    BY DEF OpenIsHeld
  <2>1. /\ Items(tasks) = {} /\ Items(calls) = {} /\ Items(results) = {}
        /\ Items(sysSem.waiting) = {}
    BY ItemsEmpty DEF AtRest
  <2>2. TaskFds = {} /\ ResultFds = {} /\ ClosingFds = {}
    BY <2>1 DEF TaskFds, ResultFds, ClosingFds, Closing, Lined, FirmCalls, WaitCalls
  <2>3. table[fd] # NoFile => fd \in HandleFds
    BY <2>2 DEF NoDescriptorLeaks
  <2>4. fd # NoFd
    BY FilesAssumption
  <2> QED BY <2>3, <2>4 DEF HandleFds, Inv, Owners
<1> QED BY <1>1, InvHolds, NoDescriptorIsLost, PTL
=============================================================================
