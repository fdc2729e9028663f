-------------------------------- MODULE Files -------------------------------
(***************************************************************************)
(* File handles: an object of class File owns a descriptor, which the      *)
(* worker thread opens and closes while the kernel's AIO context reads and *)
(* writes it.  The two services do not know of each other; what keeps a    *)
(* descriptor open until the calls made on it have got to the kernel is    *)
(* the order in which a CPU's tasks run.                                   *)
(*                                                                         *)
(* The module stands above Syscalls, FileIo and the reactor loop and takes *)
(* from them what they are shown to do: between two tasks the CPU may poll *)
(* either service, and in the end does; the worker runs the calls pushed   *)
(* to it in order.  User code may run between any two tasks.               *)
(***************************************************************************)
EXTENDS Semaphore, FiniteSets

CONSTANTS
  Opening,      \* the calls of open_file; the file each one opens
  Handle,       \* the places user code keeps an object of class File in
  Meta,         \* the calls of stat, size and flush
  Request,      \* the calls of dma_read and dma_write
  Fd,           \* the descriptors the process may use
  SysTokens,    \* queue_size of Syscall_runner
  IoTokens,     \* max_io of File_io
  NoFd, NoFile

ASSUME FilesAssumption ==
  /\ SysTokens \in Nat \ {0} /\ IoTokens \in Nat \ {0}
  /\ NoFd \notin Fd /\ NoFile \notin Opening

VARIABLES
  tasks,     \* CPU::task_queue_
  sysSem,    \* queue_has_room_
  calls,     \* pushed to the worker and not run yet
  results,   \* run and not polled yet
  ioSem,     \* aio_available_
  aio,       \* the requests the kernel has taken
  table,     \* the process's descriptor table
  fd_,       \* the descriptor of the File in each place
  used,      \* the calls user code has made
  closed     \* the files whose handle was closed or destroyed

vars == <<tasks, sysSem, calls, results, ioSem, aio, table, fd_, used, closed>>

\* What a call carries with it: the descriptor, copied from the handle.  Its
\* file is on record for the properties.
CallOn(kind, op, fd) == [kind |-> kind, op |-> op, fd |-> fd, file |-> table[fd]]
OpenCall(o) == [kind |-> "open", op |-> o, fd |-> NoFd, file |-> o]

\* The continuations that run as tasks: user code, the push of a call, the making
\* of a File, the submission of a request.
UserTask == [kind |-> "user"]
PushTask(call) == [kind |-> "push", call |-> call]
FileTask(o, fd) == [kind |-> "file", file |-> o, fd |-> fd]
SubmitTask(call, waited) == [kind |-> "submit", call |-> call, waited |-> waited]

Init ==
  /\ tasks = <<>>
  /\ sysSem = NewSemaphore(SysTokens) /\ calls = <<>> /\ results = <<>>
  /\ ioSem = NewSemaphore(IoTokens) /\ aio = {}
  /\ table = [fd \in Fd |-> NoFile]
  /\ fd_ = [h \in Handle |-> NoFd]
  /\ used = {} /\ closed = {}

-----------------------------------------------------------------------------
(* The calls of user code.                                                 *)

\* A call that is let in is pushed to the worker at once.
PushAtOnce(queue, call) ==
  /\ sysSem' = AfterWait(sysSem, 1, call)
  /\ tasks' = queue
  /\ calls' = IF Admits(sysSem, 1) THEN Append(calls, call) ELSE calls

\* submit_syscall, the task queue being queue: the push is a task of its own.
SubmitSyscall(queue, call) ==
  /\ sysSem' = AfterWait(sysSem, 1, call)
  /\ tasks' = IF Admits(sysSem, 1) THEN Append(queue, PushTask(call)) ELSE queue
  /\ UNCHANGED calls

OpenFile(o) ==
  /\ o \notin used
  /\ used' = used \cup {o}
  /\ SubmitSyscall(tasks, OpenCall(o))
  /\ UNCHANGED <<results, ioSem, aio, table, fd_, closed>>

\* stat, size and flush.
MetaCall(m, h) ==
  /\ m \notin used /\ fd_[h] # NoFd
  /\ used' = used \cup {m}
  /\ SubmitSyscall(tasks, CallOn("meta", m, fd_[h]))
  /\ UNCHANGED <<results, ioSem, aio, table, fd_, closed>>

\* dma_read and dma_write: submit_io_.
DmaCall(r, h) ==
  LET call == CallOn("dma", r, fd_[h])
  IN  /\ r \notin used /\ fd_[h] # NoFd
      /\ used' = used \cup {r}
      /\ ioSem' = AfterWait(ioSem, 1, call)
      /\ tasks' = IF Admits(ioSem, 1) THEN Append(tasks, SubmitTask(call, FALSE)) ELSE tasks
      /\ UNCHANGED <<sysSem, calls, results, aio, table, fd_, closed>>

\* A close that leaves the descriptor in the handle.
KeepsFd(h) == UNCHANGED fd_

TakeFd(h) == fd_' = [fd_ EXCEPT ![h] = NoFd]

\* close, and the destructor of a handle that is open.
Close(h) ==
  /\ fd_[h] # NoFd
  /\ TakeFd(h)
  /\ closed' = closed \cup {table[fd_[h]]}
  /\ SubmitSyscall(tasks, CallOn("close", table[fd_[h]], fd_[h]))
  /\ UNCHANGED <<results, ioSem, aio, table, used>>

\* Move construction leaves the source without a descriptor, and move
\* assignment swaps: into a handle that has none the two are the same.
Swapped(h, g) == [fd_ EXCEPT ![h] = fd_[g], ![g] = fd_[h]]

Move(h, g) ==
  /\ h # g /\ fd_[g] # NoFd
  /\ fd_' = Swapped(h, g)
  /\ UNCHANGED <<tasks, sysSem, calls, results, ioSem, aio, table, used, closed>>

User ==
  \/ \E o \in Opening : OpenFile(o)
  \/ \E h \in Handle : Close(h) \/ \E g \in Handle : Move(h, g)
  \/ \E h \in Handle : (\E m \in Meta : MetaCall(m, h)) \/ (\E r \in Request : DmaCall(r, h))

-----------------------------------------------------------------------------
(* The tasks of the CPU.                                                   *)

NextTask(kind) == tasks # <<>> /\ Head(tasks).kind = kind

RunPush ==
  /\ NextTask("push")
  /\ tasks' = Tail(tasks)
  /\ calls' = Append(calls, Head(tasks).call)
  /\ UNCHANGED <<sysSem, results, ioSem, aio, table, fd_, used, closed>>

\* open_file's continuation makes the File in the state of a future, from which
\* user code moves it to a place that is free ...
RunFile ==
  /\ NextTask("file")
  /\ tasks' = Tail(tasks)
  /\ \E h \in Handle : fd_[h] = NoFd /\ fd_' = [fd_ EXCEPT ![h] = Head(tasks).fd]
  /\ UNCHANGED <<sysSem, calls, results, ioSem, aio, table, used, closed>>

\* The File nobody receives goes without its destructor.
Forgotten(t) ==
  tasks' = Tail(tasks) /\ closed' = closed \cup {t.file} /\ UNCHANGED <<sysSem, calls>>

\* ... which dies with its promise if nobody holds the future any more.
Unclaimed(t) ==
  /\ closed' = closed \cup {t.file}
  /\ SubmitSyscall(Tail(tasks), CallOn("close", t.file, t.fd))

RunFileUnclaimed ==
  /\ NextTask("file")
  /\ Unclaimed(Head(tasks))
  /\ UNCHANGED <<results, ioSem, aio, table, fd_, used>>

RunUser ==
  /\ NextTask("user")
  /\ tasks' = Tail(tasks)
  /\ UNCHANGED <<sysSem, calls, results, ioSem, aio, table, fd_, used, closed>>

\* io_submit looks the descriptor up; a closed one is refused, and the token is
\* not given back.
RunSubmit ==
  LET call == Head(tasks).call
  IN  /\ NextTask("submit")
      /\ tasks' = Tail(tasks)
      /\ aio' = IF table[call.fd] = NoFile THEN aio ELSE aio \cup {call}
      /\ UNCHANGED <<sysSem, calls, results, ioSem, table, fd_, used, closed>>

RunTask == RunUser \/ RunPush \/ RunFile \/ RunFileUnclaimed \/ RunSubmit

-----------------------------------------------------------------------------
(* The two services.                                                       *)

\* The worker: open takes any free descriptor, or fails; close frees it.
Work ==
  LET call == Head(calls)
  IN  /\ calls # <<>>
      /\ calls' = Tail(calls)
      /\ CASE call.kind = "open" ->
                \/ \E fd \in Fd :
                     /\ table[fd] = NoFile
                     /\ table' = [table EXCEPT ![fd] = call.op]
                     /\ results' = Append(results, [call EXCEPT !.fd = fd])
                \/ UNCHANGED table /\ results' = Append(results, call)
           [] call.kind = "meta" ->
                UNCHANGED table /\ results' = Append(results, call)
           [] call.kind = "close" ->
                /\ table' = [table EXCEPT ![call.fd] = NoFile]
                /\ results' = Append(results, call)
      /\ UNCHANGED <<tasks, sysSem, ioSem, aio, fd_, used, closed>>

\* The continuation of a call: that of an open that succeeded makes the File.
Continuation(call) ==
  IF call.kind = "open" /\ call.fd # NoFd THEN FileTask(call.op, call.fd) ELSE UserTask

\* poll_results: the continuations of the calls that are done, then that of the
\* one release() lets in.
PollResults ==
  LET n == Len(results)
      done == [i \in 1 .. n |-> Continuation(results[i])]
  IN  /\ results' = <<>>
      /\ sysSem' = AfterRelease(sysSem, n)
      /\ tasks' = tasks \o done
                    \o IF Grants(sysSem, n) THEN <<PushTask(Head(sysSem.waiting).who)>> ELSE <<>>
      /\ UNCHANGED <<calls, ioSem, aio, table, fd_, used, closed>>

\* reap_io, for the requests the kernel has done.
Reap(done) ==
  LET n == Cardinality(done)
  IN  /\ aio' = aio \ done
      /\ ioSem' = AfterRelease(ioSem, n)
      /\ tasks' = tasks \o [i \in 1 .. n |-> UserTask]
                    \o IF Grants(ioSem, n)
                         THEN <<SubmitTask(Head(ioSem.waiting).who, TRUE)>> ELSE <<>>
      /\ UNCHANGED <<sysSem, calls, results, table, fd_, used, closed>>

-----------------------------------------------------------------------------
Next == User \/ RunTask \/ Work \/ PollResults \/ \E done \in SUBSET aio : Reap(done)

Safe == Init /\ [][Next]_vars

\* Tasks run, the worker works, the results are polled: Syscalls and CrossCpu
\* show as much.
Fairness == WF_vars(RunTask) /\ WF_vars(Work) /\ WF_vars(PollResults)

Spec == Safe /\ Fairness

-----------------------------------------------------------------------------
(* Properties.                                                             *)

Elements(s) == {s[i] : i \in DOMAIN s}
Waiting(sem) == {w.who : w \in Elements(sem.waiting)}
PushTasks == {t.call : t \in {u \in Elements(tasks) : u.kind = "push"}}
SubmitTasks == {u \in Elements(tasks) : u.kind = "submit"}

\* The worker uses a descriptor for the file it was opened for: no call that
\* waits for a token, for its task or for the worker finds its descriptor closed
\* or, worse, open for another file; and no two handles have the same one.
CallsReachTheirFile ==
  /\ \A call \in Waiting(sysSem) \cup PushTasks \cup Elements(calls) :
       call.kind \in {"meta", "close"} => table[call.fd] = call.file
  /\ \A h \in Handle : fd_[h] # NoFd =>
       table[fd_[h]] # NoFile /\ \A g \in Handle \ {h} : fd_[g] # fd_[h]

\* So does the kernel, although close does not wait for it: a request that was
\* let in at once is submitted before a later close gets to the worker.  Only
\* one that waits for a token (file_io.cpp:62) can be overtaken by the close of
\* its own file.
RequestsReachTheirFile ==
  /\ \A t \in SubmitTasks :
       table[t.call.fd] = t.call.file \/ (t.waited /\ t.call.file \in closed)
  /\ \A call \in Waiting(ioSem) : table[call.fd] = call.file \/ call.file \in closed

\* The descriptor of a file whose handle is gone, be it closed, destroyed,
\* assigned over or never received, is closed in the end: none leaks.
OpenFd(o) == {fd \in Fd : table[fd] = o}

Held(o) ==
  \/ \E h \in Handle : fd_[h] \in OpenFd(o)
  \/ \E call \in Elements(results) : call.kind = "open" /\ call.op = o
  \/ \E t \in Elements(tasks) : t.kind = "file" /\ t.file = o

EveryDescriptorIsClosed ==
  \A o \in Opening : OpenFd(o) # {} /\ ~Held(o) ~> OpenFd(o) = {}
=============================================================================
