----------------------------- MODULE HdcTransfer -----------------------------
(***************************************************************************)
(* Copying files: common/transfer.cpp and file.cpp at both ends, and       *)
(* host_app.cpp, the master that sends packages to install.  The master    *)
(* opens a file, has the slave open its copy, reads block after block and  *)
(* sends what it read; the slave writes every buffer at its offset, several *)
(* writes at a time.  File requests run in libuv's thread pool and end in   *)
(* any order; one action is one callback of the loop of an end, with the    *)
(* effect of the request that ended.                                        *)
(*                                                                         *)
(* A block is what one read or write moves at least.  The buffers come from *)
(* the CircleBuffer of the end.  A file may turn out shorter than it was    *)
(* when it was opened, but not longer.  An end whose fsCloseReq was begun   *)
(* again while it was under way is broken and not followed further.         *)
(* Compression, which this build leaves out, and paths are not part of it.  *)
(***************************************************************************)
EXTENDS Integers, Sequences, FiniteSets, SequencesExt

CONSTANTS
    Kinds,        \* what tasks are run: "file", "dir", "app"
    FaultKinds,   \* in which of them the requests in Faults may fail
    Faults,       \* how: "read", "write" with an error, "eof" before the file
                  \* has ended, "short" writes; opening may always fail
    MaxFiles,     \* bound: the files of a directory or packages of a command
    MaxBlocks,    \* bound: blocks of a file
    MaxRead,      \* blocks one read asks for
    MaxDirs,      \* bound: directories in a directory, whose mode is sent with -m
    MaxBufs,      \* bound: buffers of a CircleBuffer, which allocates what is asked for
    DataByte      \* the first byte of a payload of CMD_FILE_DATA

ASSUME KindsAssumption == FaultKinds \subseteq Kinds /\ Kinds \subseteq {"file", "dir", "app"}
                           /\ Faults \subseteq {"read", "write", "eof", "short"}
ASSUME BoundsAssumption ==
    /\ MaxFiles \in Nat \ {0} /\ MaxBlocks \in Nat /\ MaxRead \in Nat \ {0}
    /\ MaxDirs \in Nat /\ MaxBufs \in Nat \ {0} /\ DataByte \in Nat \ {0}
\* The payload begins with the tag of a number: the field times 8.
ASSUME DataByteAssumption == DataByte % 2 = 0

VARIABLES
    job,        \* what is copied: kind of task, sizes of the files, -m; what may fail
    end,        \* per end: the task object with its file context ctxNow
    net,        \* per end: commands on their way to it
    disk        \* per file: the blocks the slave has written

vars == <<job, end, net, disk>>

Ends == {"master", "slave"}
Other(e) == IF e = "master" THEN "slave" ELSE "master"
Files == 1..MaxFiles
Fds == 1..3    \* bound: descriptors an end has open
Bufs == 1..MaxBufs

Jobs == {j \in [kind : Kinds, size : [Files -> 0..MaxBlocks], count : Files,
                sync : BOOLEAN, fault : Faults \cup {"open"}] :
            /\ j.fault # "open" => j.kind \in FaultKinds
            /\ j.count = IF j.kind = "file" THEN 1 ELSE MaxFiles
            /\ j.sync => j.kind # "app"
            /\ \A f \in Files : f > j.count => j.size[f] = 0}

\* A request in the thread pool: buf is 0 for opens and closes, and index and n
\* are the offset and the blocks of a read or write.
Request == [op : {"open", "read", "write", "close"}, fd : Fds \cup {0},
            buf : Bufs \cup {0}, index : 0..MaxBlocks, n : 0..MaxRead]

Commands == {"MODE", "DIR_MODE", "CHECK", "BEGIN", "DATA", "FINISH",
             "APP_FINISH", "CHANNEL_CLOSE"}
\* n is the payload of FINISH and CHANNEL_CLOSE and the blocks of DATA.
Message == [cmd : Commands, file : Files \cup {0}, index : 0..MaxBlocks,
            n : 0..(MaxRead + DataByte + 1)]

\* cur is the file localPath names and queue is taskQueue; fd is what the last
\* open returned; failed stands for lastErrno # 0.  said is the last result the
\* user was told, lost the files an end said it could not open.  early is history:
\* a read or write that moved nothing ended a file before its size.  broken is set
\* when fsCloseReq is begun again before its close has ended.  out collects what
\* the callback sends.
End == [fd : Fds \cup {0}, isFdOpen : BOOLEAN, ioFinish : BOOLEAN,
        closeNotify : BOOLEAN, closeReqSubmitted : BOOLEAN,
        indexIO : Nat, failed : BOOLEAN, isDir : BOOLEAN, cur : Files \cup {0},
        queue : Seq(Files), dirMode : 0..MaxDirs,
        pending : SUBSET Request, refCount : Nat, openFds : SUBSET Fds,
        bufs : [Bufs -> {"absent", "free", "used"}],
        begun : BOOLEAN, stop : BOOLEAN, released : BOOLEAN,
        said : {"none", "OK", "Stop"}, lost : SUBSET Files,
        early : BOOLEAN, broken : BOOLEAN, out : {<<>>}]

TypeOK ==
    /\ job \in Jobs
    /\ end \in [Ends -> End]
    /\ net \in [Ends -> Seq(Message)]
    /\ disk \in [Files -> SUBSET (0..(MaxBlocks - 1))]

New == [fd |-> 0, isFdOpen |-> FALSE, ioFinish |-> FALSE, closeNotify |-> FALSE,
        closeReqSubmitted |-> FALSE, indexIO |-> 0, failed |-> FALSE,
        isDir |-> FALSE, cur |-> 0,
        queue |-> <<>>, dirMode |-> 0, pending |-> {}, refCount |-> 0,
        openFds |-> {}, bufs |-> [b \in Bufs |-> "absent"], begun |-> FALSE,
        stop |-> FALSE, released |-> FALSE, said |-> "none", lost |-> {},
        early |-> FALSE, broken |-> FALSE, out |-> <<>>]

Init ==
    /\ job \in Jobs
    /\ end = [e \in Ends |-> New]
    /\ net = [e \in Ends |-> <<>>]
    /\ disk = [f \in Files |-> {}]

-----------------------------------------------------------------------------
(* One end: every operator takes the record of an end and returns it changed *)

\* fileSize of the file context.
FileSize(x) == IF x.cur = 0 THEN 0 ELSE job.size[x.cur]

Msg(cmd, n) == [cmd |-> cmd, file |-> 0, index |-> 0, n |-> n]

\* Only HdcFile has a StopTask that sets singalStop.
Mute(x) == x.stop /\ job.kind # "app"

\* SendToAnother.
Send(x, m) == IF Mute(x) THEN x ELSE [x EXCEPT !.out = Append(x.out, m)]

TaskFinish(x) == Send(x, Msg("CHANNEL_CLOSE", 1))

\* A request is handed to the thread pool: it keeps the task object.
Submit(x, r) == [x EXCEPT !.pending = x.pending \cup {r}, !.refCount = x.refCount + 1]

\* The request ended: its callback returns the reference when it is done.
Took(x, r) == [x EXCEPT !.pending = x.pending \ {r}]
Return(x) == [x EXCEPT !.refCount = x.refCount - 1]

OpenRequest == [op |-> "open", fd |-> 0, buf |-> 0, index |-> 0, n |-> 0]
CloseRequest(fd) == [op |-> "close", fd |-> fd, buf |-> 0, index |-> 0, n |-> 0]

\* uv_fs_open of the file f.
Open(x, f) == Submit([x EXCEPT !.cur = f], OpenRequest)

\* fsCloseReq is one request: when it is begun again before its close has ended,
\* that close ends with the callback and the loop of the other call, or with none.
CloseBusy(x) == \E r \in x.pending : r.op = "close"
UseCloseReq(x) == [x EXCEPT !.broken = x.broken \/ CloseBusy(x)]

\* uv_fs_close without a loop, which closes at once.
CloseNow(x) == [UseCloseReq(x) EXCEPT !.openFds = x.openFds \ {x.fd}, !.isFdOpen = FALSE]

\* CircleBuffer::Malloc: a buffer that is not used, or one more.
Malloc(x) ==
    LET unused == {b \in Bufs : x.bufs[b] = "free"}
    IN  IF unused # {} THEN CHOOSE b \in unused : TRUE
        ELSE CHOOSE b \in Bufs : x.bufs[b] = "absent"

\* There is a buffer left within the bound.
Room(x) == \E b \in Bufs : x.bufs[b] # "used"

\* CircleBuffer::Free.
FreeBuf(x, b) == [x EXCEPT !.bufs = [x.bufs EXCEPT ![b] = "free"]]

\* Fault: the reference is taken only when a write is started.
SimpleFileIOWriteRef(x, op, index, n) ==
    IF x.ioFinish THEN FreeBuf(x, Malloc(x))
    ELSE LET b == Malloc(x)
             y == [x EXCEPT !.bufs = [x.bufs EXCEPT ![b] = "used"],
                            !.pending = x.pending \cup
                       {[op |-> op, fd |-> x.fd, buf |-> b, index |-> index,
                         n |-> n]}]
         IN  IF op = "write" THEN [y EXCEPT !.refCount = y.refCount + 1] ELSE y

\* SimpleFileIO: a read or write of n blocks at index.  When ioFinish is set it
\* fails, and leaves a buffer that was allocated.
SimpleFileIO(x, op, index, n) ==
    IF x.ioFinish THEN FreeBuf(x, Malloc(x))
    ELSE LET b == Malloc(x) IN
         Submit([x EXCEPT !.bufs = [x.bufs EXCEPT ![b] = "used"]],
                [op |-> op, fd |-> x.fd, buf |-> b, index |-> index, n |-> n])

\* RunQueue opens the last file of the queue, TransferNext also takes it out.
RunQueue(x) == Open(x, Last(x.queue))
TransferNext(x) == [RunQueue(x) EXCEPT !.queue = Front(x.queue)]

\* WhenTransferFinish.  The package that was received is installed by a class of
\* the daemon, which then sends the result; that of the master does nothing.
WhenTransferFinish(e, x) ==
    IF job.kind # "app" THEN Send(x, Msg("FINISH", 1))
    ELSE IF e = "slave" THEN Send(x, Msg("APP_FINISH", 0)) ELSE x

\* CMD_FILE_FINISH with payload n: the next file of a directory, the answer to
\* the other end, or the summary.  "FileTransfer finish" is what TransferSummary
\* says when all bytes came or there was no error.
Finish(x, n) ==
    IF n = 0
    THEN TaskFinish([x EXCEPT !.said =
             IF x.indexIO >= FileSize(x) \/ ~x.failed THEN "OK" ELSE "Stop"])
    ELSE LET y == IF x.isFdOpen THEN CloseNow(x) ELSE x
         IN  IF y.isDir /\ y.queue # <<>> THEN TransferNext(y)
             ELSE Send([y EXCEPT !.ioFinish = TRUE], Msg("FINISH", n - 1))

\* The end of OnFileIO: the buffer goes back, and the reference.
EndFileIO(x, r) == Return(FreeBuf(x, r.buf))

\* close-step1, at the end of every OnFileIO that finds ioFinish set.  The fsync
\* of the slave, which writes, is done at once, but on fsCloseReq too.
CloseStep(e, x) ==
    IF ~x.ioFinish THEN x
    ELSE IF ~x.failed /\ ~x.closeReqSubmitted
    THEN [Submit(UseCloseReq(x), CloseRequest(x.fd)) EXCEPT
              !.closeReqSubmitted = TRUE, !.isFdOpen = FALSE]
    ELSE WhenTransferFinish(e, IF e = "slave" THEN UseCloseReq(x) ELSE x)

Failed(x) == [x EXCEPT !.closeNotify = TRUE, !.failed = TRUE, !.ioFinish = TRUE]

-----------------------------------------------------------------------------
(* Steps *)

\* The callback at e ends with the record x; rest is net without what it read.
Step(e, x, rest) ==
    /\ ~end[e].broken
    /\ end' = [end EXCEPT ![e] = [x EXCEPT !.out = <<>>]]
    /\ net' = [rest EXCEPT ![Other(e)] = rest[Other(e)] \o x.out]
    /\ UNCHANGED job

Rest(e) == [net EXCEPT ![e] = Tail(net[e])]

\* A command with name cmd is handed to the task, which was not stopped.
Receives(e, cmd) ==
    /\ net[e] # <<>>
    /\ Head(net[e]).cmd = cmd
    /\ end[e].begun \/ e = "slave"
    /\ ~end[e].stop

AllFiles == [i \in 1..job.count |-> i]

\* BeginTransfer: the files of a directory, and the modes of those in it.
BeginTransfer(x) ==
    TransferNext([x EXCEPT !.isDir = job.kind = "dir", !.queue = AllFiles,
                           !.dirMode = IF job.kind = "dir" THEN MaxDirs ELSE 0])

\* BeginInstall: packages stay in the queue until they are installed.
BeginInstall(x) == RunQueue([x EXCEPT !.queue = AllFiles])

\* CMD_FILE_INIT or CMD_APP_INIT; ok is whether the arguments name something.
Begin(ok) ==
    LET x == [end["master"] EXCEPT !.begun = TRUE] IN
    /\ ~end["master"].begun
    /\ ~x.stop
    /\ Step("master", IF ~ok THEN TaskFinish(x)
                      ELSE IF job.kind = "app" THEN BeginInstall(x)
                      ELSE BeginTransfer(x), net)
    /\ UNCHANGED disk

\* OnFileOpen, when the file cannot be opened.
OpenFailed(e) ==
    LET x == Return(Took(end[e], OpenRequest))
        y == [x EXCEPT !.lost = x.lost \cup {x.cur}, !.fd = 0] IN
    /\ job.fault = "open"
    /\ OpenRequest \in end[e].pending
    /\ Step(e, IF ~y.isDir THEN TaskFinish(y)
               ELSE IF e = "master" THEN Finish(y, 1) ELSE Send(y, Msg("FINISH", 1)),
            net)
    /\ UNCHANGED disk

\* ResetCtx.
ResetCtx(x) == [x EXCEPT !.closeNotify = FALSE, !.indexIO = 0, !.failed = FALSE,
                         !.ioFinish = FALSE, !.closeReqSubmitted = FALSE]

\* CheckMaster: what the master knows of the file goes to the slave.
CheckMaster(x) ==
    Send(x, [Msg(IF job.sync THEN "MODE" ELSE "CHECK", 0) EXCEPT !.file = x.cur])

\* OnFileOpen: the slave, whose copy is empty now, asks for the data.
OnFileOpen(e) ==
    LET x == Return(Took(end[e], OpenRequest))
        fd == CHOOSE d \in Fds \ x.openFds : TRUE
        y == [ResetCtx(x) EXCEPT !.fd = fd, !.isFdOpen = TRUE,
                                 !.openFds = x.openFds \cup {fd}] IN
    /\ OpenRequest \in end[e].pending
    /\ x.openFds # Fds
    /\ Step(e, IF e = "slave" THEN Send(y, Msg("BEGIN", 0)) ELSE CheckMaster(y), net)
    /\ disk' = IF e = "slave" THEN [disk EXCEPT ![x.cur] = {}] ELSE disk

\* FileModeSync: the slave acknowledges every mode; the master sends those of the
\* directories, then the file.
FileModeSync(e) ==
    LET x == end[e] IN
    /\ Receives(e, "MODE") \/ Receives(e, "DIR_MODE")
    /\ Step(e, IF e = "slave" THEN Send(x, Msg("MODE", 0))
               ELSE IF x.dirMode > 0
               THEN Send([x EXCEPT !.dirMode = x.dirMode - 1], Msg("DIR_MODE", 0))
               ELSE Send(x, [Msg("CHECK", 0) EXCEPT !.file = x.cur]), Rest(e))
    /\ UNCHANGED disk

\* CheckLocalPath: a name with a directory in it makes this a directory transfer.
CheckLocalPath(x) == [x EXCEPT !.isDir = job.kind = "dir"]

\* What CheckLocalPath, CheckFilename and SmartSlavePath may find.
PathChecks == {"writable", "refused"}

\* SlaveCheck: the copy is opened, unless its path is refused.
SlaveCheck(path) ==
    LET f == Head(net["slave"]).file
        x == CheckLocalPath([end["slave"] EXCEPT !.begun = TRUE]) IN
    /\ Receives("slave", "CHECK")
    /\ path = "writable" \/ job.fault = "open"
    /\ Step("slave", IF path = "writable" THEN Open(x, f)
                     ELSE TaskFinish([x EXCEPT !.cur = f, !.lost = x.lost \cup {f}]),
            Rest("slave"))
    /\ UNCHANGED disk

\* The command that starts reading.  When ioFinish is set only the app task ends.
BeginData ==
    LET x == end["master"]
        y == SimpleFileIO(x, "read", x.indexIO, MaxRead) IN
    /\ Receives("master", "BEGIN")
    /\ Room(x)
    /\ Step("master", IF x.ioFinish /\ job.kind = "app" THEN TaskFinish(y) ELSE y,
            Rest("master"))
    /\ UNCHANGED disk

\* SendIOPayload.
SendIOPayload(x, index, n) ==
    Send(x, [cmd |-> "DATA", file |-> 0, index |-> index, n |-> n])

\* OnFileIO of a read that returned n blocks: they are sent, and the next read
\* starts unless this was the end of the file, which may have become shorter.
ReadDone(r, n) ==
    LET x == Took(end["master"], r)
        y == [x EXCEPT !.indexIO = x.indexIO + n]
        more == y.indexIO < FileSize(x)
        z == IF x.ioFinish THEN x
             ELSE IF Mute(x) THEN [y EXCEPT !.ioFinish = TRUE]
             ELSE IF n > 0 /\ more
             THEN SimpleFileIO(SendIOPayload(y, x.indexIO, n), "read", y.indexIO, MaxRead)
             ELSE [SendIOPayload(y, x.indexIO, n) EXCEPT
                       !.ioFinish = TRUE, !.early = x.early \/ more] IN
    /\ r \in end["master"].pending
    /\ r.op = "read"
    /\ Room(x)
    /\ n <= MaxRead
    /\ n <= FileSize(x) - r.index
    /\ n = 0 => r.index = FileSize(x) \/ job.fault = "eof"
    /\ Step("master", EndFileIO(CloseStep("master", z), r), net)
    /\ UNCHANGED disk

ReadFailed(r) ==
    LET x == Took(end["master"], r)
        y == IF x.ioFinish THEN x ELSE Failed(x) IN
    /\ job.fault = "read"
    /\ r \in end["master"].pending
    /\ r.op = "read"
    /\ Step("master", EndFileIO(CloseStep("master", y), r), net)
    /\ UNCHANGED disk

\* RecvIOPayload: a write at the offset the payload names.
FileData ==
    LET m == Head(net["slave"]) IN
    /\ Receives("slave", "DATA")
    /\ ~end["slave"].ioFinish
    /\ Room(end["slave"])
    /\ Step("slave", SimpleFileIO(end["slave"], "write", m.index, m.n), Rest("slave"))
    /\ UNCHANGED disk

\* The same when the transfer of the file is over already: the file is closed and
\* the first byte of the data is taken for the payload of CMD_FILE_FINISH.
FileDataLate ==
    /\ Receives("slave", "DATA")
    /\ end["slave"].ioFinish
    /\ Step("slave", LET x == CloseNow(end["slave"]) IN
                     IF job.kind = "app" THEN TaskFinish(x) ELSE Finish(x, DataByte),
            Rest("slave"))
    /\ UNCHANGED disk

\* Fault: the file is finished with the first write at or behind its last block.
WriteDoneLast(r, n) ==
    LET x == Took(end["slave"], r)
        y == [x EXCEPT !.indexIO = r.index + n]
        z == IF x.ioFinish THEN x
             ELSE IF y.indexIO >= FileSize(x) \/ n = 0
             THEN [y EXCEPT !.closeNotify = TRUE, !.ioFinish = TRUE,
                            !.early = x.early \/ y.indexIO < FileSize(x)]
             ELSE y IN
    /\ r \in end["slave"].pending
    /\ r.op = "write"
    /\ n <= r.n
    /\ n < r.n => job.fault = "short"
    /\ Step("slave", EndFileIO(CloseStep("slave", z), r), net)
    /\ disk' = [disk EXCEPT ![x.cur] = disk[x.cur] \cup r.index..(r.index + n - 1)]

\* Fault: the file that is complete is closed, but nobody is told.
WriteDoneSilent(r, n) ==
    LET x == Took(end["slave"], r)
        y == [x EXCEPT !.indexIO = x.indexIO + n]
        z == IF ~x.ioFinish /\ (y.indexIO >= FileSize(x) \/ n = 0)
             THEN [y EXCEPT !.ioFinish = TRUE] ELSE y IN
    /\ r \in end["slave"].pending
    /\ r.op = "write"
    /\ n <= r.n
    /\ n < r.n => job.fault = "short"
    /\ Step("slave", EndFileIO(CloseStep("slave", z), r), net)
    /\ disk' = [disk EXCEPT ![x.cur] = disk[x.cur] \cup r.index..(r.index + n - 1)]

\* OnFileIO of a write that stored n of its blocks: the file is complete when as
\* many blocks have been written as it has, whichever write ended last, and is
\* taken for complete when nothing was stored.
WriteDone(r, n) ==
    LET x == Took(end["slave"], r)
        y == [x EXCEPT !.indexIO = x.indexIO + n]
        z == IF x.ioFinish THEN x
             ELSE IF y.indexIO >= FileSize(x) \/ n = 0
             THEN [y EXCEPT !.closeNotify = TRUE, !.ioFinish = TRUE,
                            !.early = x.early \/ y.indexIO < FileSize(x)]
             ELSE y IN
    /\ r \in end["slave"].pending
    /\ r.op = "write"
    /\ n <= r.n
    /\ n < r.n => job.fault = "short"
    /\ Step("slave", EndFileIO(CloseStep("slave", z), r), net)
    /\ disk' = [disk EXCEPT ![x.cur] = disk[x.cur] \cup r.index..(r.index + n - 1)]

WriteFailed(r) ==
    LET x == Took(end["slave"], r)
        y == IF x.ioFinish THEN x ELSE Failed(x) IN
    /\ job.fault = "write"
    /\ r \in end["slave"].pending
    /\ r.op = "write"
    /\ Step("slave", EndFileIO(CloseStep("slave", y), r), net)
    /\ UNCHANGED disk

\* OnFileClose.
OnFileClose(e, r) ==
    LET x == [Took(end[e], r) EXCEPT !.openFds = end[e].openFds \ {r.fd},
                                     !.closeReqSubmitted = FALSE] IN
    /\ r \in end[e].pending
    /\ r.op = "close"
    /\ Step(e, Return(IF x.closeNotify THEN WhenTransferFinish(e, x) ELSE x), net)
    /\ UNCHANGED disk

FileFinish(e) ==
    /\ Receives(e, "FINISH")
    /\ Step(e, Finish(end[e], Head(net[e]).n), Rest(e))
    /\ UNCHANGED disk

\* CheckInstallContinue: the next package, or the end of the task.
CheckInstallContinue(x) ==
    LET y == [x EXCEPT !.queue = IF x.queue = <<>> THEN <<>> ELSE Front(x.queue)] IN
    IF y.queue = <<>> THEN TaskFinish([y EXCEPT !.said = "OK"]) ELSE RunQueue(y)

AppFinish ==
    /\ Receives("master", "APP_FINISH")
    /\ Step("master", CheckInstallContinue(end["master"]), Rest("master"))
    /\ UNCHANGED disk

\* FreeMemory, which the timer thread of the daemon runs: a buffer that was not
\* used for some seconds goes.
FreeMemory(b) ==
    /\ ~end["slave"].broken
    /\ end["slave"].bufs[b] = "free"
    /\ end' = [end EXCEPT !["slave"] = [end["slave"] EXCEPT
                  !.bufs = [end["slave"].bufs EXCEPT ![b] = "absent"]]]
    /\ UNCHANGED <<job, net, disk>>

-----------------------------------------------------------------------------
(* The end of the task *)

StopTask(x) == [x EXCEPT !.stop = TRUE]

\* The user interrupts the command, or the channel goes.
Detach(e) ==
    /\ ~end[e].stop
    /\ Step(e, [StopTask(end[e]) EXCEPT !.out = <<Msg("CHANNEL_CLOSE", 0)>>], net)
    /\ UNCHANGED disk

\* CMD_KERNEL_CHANNEL_CLOSE: the count of TaskFinish is sent back once.
ChannelClose(e) ==
    LET n == Head(net[e]).n IN
    /\ net[e] # <<>>
    /\ Head(net[e]).cmd = "CHANNEL_CLOSE"
    /\ Step(e, [StopTask(end[e]) EXCEPT !.out =
                   IF n = 0 THEN <<>> ELSE <<Msg("CHANNEL_CLOSE", n - 1)>>], Rest(e))
    /\ UNCHANGED disk

\* What comes for a task that was stopped is ignored.
Ignore(e) ==
    /\ end[e].stop
    /\ net[e] # <<>>
    /\ Head(net[e]).cmd # "CHANNEL_CLOSE"
    /\ Step(e, end[e], Rest(e))
    /\ UNCHANGED disk

\* ~HdcTransferBase.
Destructor(x) == IF x.isFdOpen /\ (x.failed \/ ~x.ioFinish) THEN CloseNow(x) ELSE x

\* The task object is deleted when ReadyForRelease says so.
TryRemoveTask(e) ==
    /\ end[e].stop
    /\ ~end[e].broken
    /\ ~end[e].released
    /\ end[e].refCount = 0
    /\ end' = [end EXCEPT ![e] = [Destructor(end[e]) EXCEPT !.released = TRUE]]
    /\ UNCHANGED <<job, net, disk>>

-----------------------------------------------------------------------------
\* The thread pool ends one of the requests of e.
RequestDone(e) ==
    \/ OpenFailed(e)
    \/ OnFileOpen(e)
    \/ \E r \in end[e].pending : OnFileClose(e, r)

BeginTask == \E ok \in BOOLEAN : Begin(ok)

ReadDone1 == \E r \in end["master"].pending :
                 ReadFailed(r) \/ \E n \in 0..MaxRead : ReadDone(r, n)
WriteDone1 == \E r \in end["slave"].pending :
                  WriteFailed(r) \/ \E n \in 0..MaxRead : WriteDone(r, n)

\* The loop of e reads a command.
CommandDispatch(e) ==
    \/ FileModeSync(e)
    \/ FileFinish(e)
    \/ ChannelClose(e)
    \/ Ignore(e)

MasterCommand == BeginData \/ AppFinish
SlaveCommand == FileData \/ FileDataLate \/ \E path \in PathChecks : SlaveCheck(path)

Next ==
    \/ BeginTask
    \/ ReadDone1
    \/ WriteDone1
    \/ MasterCommand
    \/ SlaveCommand
    \/ \E e \in Ends :
           RequestDone(e) \/ CommandDispatch(e) \/ Detach(e) \/ TryRemoveTask(e)
    \/ \E b \in Bufs : FreeMemory(b)

Spec == Init /\ [][Next]_vars

\* Requests end and both loops run.  Nothing is assumed of the user.
FairSpec ==
    /\ Spec
    /\ WF_vars(BeginTask)
    /\ WF_vars(ReadDone1)
    /\ WF_vars(WriteDone1)
    /\ WF_vars(MasterCommand)
    /\ WF_vars(SlaveCommand)
    /\ \A e \in Ends : /\ WF_vars(RequestDone(e))
                       /\ WF_vars(CommandDispatch(e))
                       /\ WF_vars(TryRemoveTask(e))

-----------------------------------------------------------------------------
(* Safety *)

IO(e) == {r \in end[e].pending : r.op \in {"read", "write"}}

\* For an end that is broken the count of its requests means nothing.
RefCountsRequests ==
    \A e \in Ends :
        ~end[e].broken => end[e].refCount = Cardinality(end[e].pending)

BuffersAreOwned ==
    \A e \in Ends :
        /\ {r.buf : r \in IO(e)} = {b \in Bufs : end[e].bufs[b] = "used"}
        /\ Cardinality(IO(e)) = Cardinality({r.buf : r \in IO(e)})

\* An end has said that a file ended before its size.
Early == \E e \in Ends : end[e].early

\* Nothing went wrong after the files were opened.
Healthy == \A e \in Ends : ~end[e].failed /\ ~end[e].early /\ ~end[e].broken

\* fsCloseReq is begun again before its close has ended only after the master could
\* not read or a file ended early, or by a master whose file is not the only one.
CloseReqIsFree ==
    \A e \in Ends : end[e].broken =>
        \/ end["master"].failed
        \/ Early
        \/ e = "master" /\ job.kind # "file"

\* refCount counts the requests under way, however much each of them moves and
\* whichever way it ends, so ReadyForRelease, which looks at nothing else, is right;
\* every read or write has a buffer of the pool to itself, and none is lost; and
\* the one fsCloseReq of the context serves one close at a time, save in the cases
\* of CloseReqIsFree, in which the process ends.
RequestsAreAccounted == RefCountsRequests /\ BuffersAreOwned /\ CloseReqIsFree

\* The file is closed only when no other request is under way on it, and only
\* once, although the write that ended last decides.
NoRequestOnClosedFd ==
    Healthy => \A e \in Ends :
        /\ \A r \in IO(e) : r.fd \in end[e].openFds
        /\ \A r, s \in end[e].pending :
               r.op = "close" =>
                   r.fd \in end[e].openFds /\ (s.fd = r.fd => s = r)

Lost == end["master"].lost \cup end["slave"].lost

\* The user is told that the transfer is finished only when every file is there
\* in full, save those one of the ends has said it could not open, or when a file
\* ended before its size, of which the user is told nothing.
FinishedIsComplete ==
    (\E e \in Ends : end[e].said = "OK") =>
        \/ Early
        \/ \A f \in 1..job.count : f \in Lost \/ disk[f] = 0..(job.size[f] - 1)

\* No descriptor is left when the task object is deleted, at whatever point the
\* transfer was interrupted and whatever failed.
ReleasedHasNoFd == \A e \in Ends : end[e].released => end[e].openFds = {}

\* As long as no read or write has failed or ended its file early, a descriptor is
\* closed once and not before the last request on it is done.  After that it may
\* be closed twice and under way; but it is closed when the task is deleted.
FilesAreClosed == NoRequestOnClosedFd /\ ReleasedHasNoFd

(* The invariants behind these, for the copy of one file (job.kind = "file") *)

M == end["master"]
S == end["slave"]

Opens(e) == OpenRequest \in end[e].pending
Reads == {r \in M.pending : r.op = "read"}
Writes == {r \in S.pending : r.op = "write"}
At(e, cmd) == {i \in DOMAIN net[e] : net[e][i].cmd = cmd}
Finishes(e, parity) == {i \in At(e, "FINISH") : net[e][i].n % 2 = parity}
Size == job.size[1]
Complete == disk[1] = 0..(Size - 1)

\* An end by itself: what is counted, and who has a buffer.
RequestsOK(x) ==
    /\ IsFiniteSet(x.pending)
    /\ x.refCount = Cardinality(x.pending)
    /\ \A r \in x.pending :
           /\ r.op = "open" => r = OpenRequest
           /\ r.op = "close" => x.closeReqSubmitted
           /\ r.op \in {"read", "write"} => r.buf \in Bufs /\ x.bufs[r.buf] = "used"
    /\ \A r, s \in x.pending : r.op = "close" /\ s.op = "close" => r = s

BufsOK(x) ==
    /\ \A r, s \in x.pending :
           {r.op, s.op} \subseteq {"read", "write"} /\ r.buf = s.buf => r = s
    /\ \A b \in Bufs : x.bufs[b] = "used" =>
           \E r \in x.pending : r.op \in {"read", "write"} /\ r.buf = b

\* A descriptor that is open is the current one or is being closed.
FdsOK(x) ==
    /\ \A fd \in x.openFds : \/ x.isFdOpen /\ fd = x.fd
                             \/ \E r \in x.pending : r.op = "close" /\ r.fd = fd
    /\ x.isFdOpen => ~x.closeReqSubmitted /\ (x.ioFinish => x.failed)
    /\ x.failed \/ x.closeReqSubmitted \/ x.closeNotify => x.ioFinish
    /\ x.failed => ~x.closeReqSubmitted
    /\ x.released => x.stop /\ x.openFds = {} /\ x.pending = {}

\* Nothing was opened yet.
Unopened(x) ==
    /\ x.pending \subseteq {OpenRequest} /\ x.openFds = {}
    /\ ~x.isFdOpen /\ ~x.ioFinish /\ x.indexIO = 0

EndOK(x) ==
    /\ RequestsOK(x) /\ BufsOK(x) /\ FdsOK(x)
    /\ ~x.isDir /\ x.cur \in {0, 1} /\ x.dirMode = 0
    /\ x.cur = 0 => x.pending = {}
    /\ x.cur = 0 \/ OpenRequest \in x.pending => Unopened(x)

\* Nothing was read and nothing is finished.
Quiet ==
    /\ Reads = {} /\ At("slave", "DATA") = {} /\ Writes = {}
    /\ M.indexIO = 0 /\ ~M.ioFinish /\ ~S.ioFinish
    /\ At("master", "FINISH") = {} /\ At("slave", "FINISH") = {}
    /\ M.said = "none" /\ S.said = "none"

\* What the master asks before the slave opens its copy, and the answer to -m.
Checks == At("slave", "CHECK") \cup At("slave", "MODE")
ModeAcks == At("master", "MODE")

\* The file is opened by the master, its mode acknowledged with -m, checked and
\* opened by the slave, and then asked for, each once.
StageOK ==
    /\ ~M.begun => M.cur = 0
    /\ M.cur = 0 \/ Opens("master") => Checks = {} /\ ModeAcks = {} /\ S.cur = 0
    /\ Checks # {} \/ ModeAcks # {} => S.cur = 0
    /\ Checks # {} => ModeAcks = {}
    /\ S.cur = 0 \/ Opens("slave") => At("master", "BEGIN") = {}
    /\ S.cur = 0 \/ Opens("slave") \/ At("master", "BEGIN") # {} => Quiet
    /\ \A i, j \in Checks : i = j
    /\ \A i, j \in ModeAcks : i = j
    /\ \A i, j \in At("master", "BEGIN") : i = j

CommandsOK ==
    /\ \A i \in DOMAIN net["master"] :
           net["master"][i].cmd \in {"MODE", "BEGIN", "FINISH", "CHANNEL_CLOSE"}
    /\ \A i \in DOMAIN net["slave"] :
           /\ net["slave"][i].cmd \in {"MODE", "CHECK", "DATA", "FINISH", "CHANNEL_CLOSE"}
           /\ net["slave"][i].cmd = "CHECK" => net["slave"][i].file = 1

\* The master reads a block at a time.
ReadsOK ==
    /\ \A r \in M.pending : r.op # "write"
    /\ \A r \in S.pending : r.op # "read"
    /\ \A r, s \in Reads : r = s
    /\ \A r \in Reads : r.index = M.indexIO /\ ~M.failed /\ ~M.closeReqSubmitted
    /\ M.indexIO <= Size
    /\ M.ioFinish \/ M.indexIO = 0 \/ M.indexIO < Size
    /\ M.failed => M.indexIO < Size \/ Size = 0
    /\ M.closeNotify => M.failed /\ ~M.closeReqSubmitted

\* The pieces of the file that were read and are not on the disk yet do not
\* overlap; one of a file without blocks counts as a block.
Width(n) == IF n = 0 THEN 1 ELSE n
Apart(p, q) == p.index + Width(p.n) <= q.index \/ q.index + Width(q.n) <= p.index

PieceOK(p) ==
    /\ p.n <= MaxRead
    /\ p.n = 0 => M.ioFinish /\ (Size = 0 \/ M.early)
    /\ p.index + p.n <= M.indexIO
    /\ \A b \in disk[1] : b < p.index \/ p.index + p.n <= b

PiecesOK ==
    /\ \A i \in At("slave", "DATA") : PieceOK(net["slave"][i])
    /\ \A r \in Writes : PieceOK(r)
    /\ \A i, j \in At("slave", "DATA") : i # j => Apart(net["slave"][i], net["slave"][j])
    /\ \A r, s \in Writes : r # s => Apart(r, s)
    /\ \A i \in At("slave", "DATA"), r \in Writes : Apart(net["slave"][i], r)

\* The slave counts no block twice.
DiskOK ==
    /\ disk[1] \subseteq 0..(M.indexIO - 1)
    /\ S.indexIO <= Cardinality(disk[1])

\* The slave has all blocks, or an end knows that it has not.
Resolved == S.failed \/ Complete \/ Early

\* The task ends whatever is said next.
Over == M.stop \/ S.stop \/ At("slave", "CHANNEL_CLOSE") # {}

\* What a FINISH says: the slave asks with an odd payload and the master answers
\* with an even one.  When it is the master whose read failed, it asks, and the
\* answer reaches it before anything else the slave may say.
AnswerOK(i) == Resolved \/ S.stop \/ \E j \in At("slave", "CHANNEL_CLOSE") : j < i

AskOK(i) == Resolved \/ Over \/ \E j \in Finishes("master", 0) : j < i

MasterAsksOK ==
    \A i \in Finishes("slave", 1) :
        /\ net["slave"][i].n = 1 /\ M.failed
        /\ \A j \in At("slave", "DATA") : j < i
        /\ \A j \in Finishes("slave", 1) : j = i

\* The slave that stopped because the master told it so gets no more data.
SlaveDoneOK ==
    S.ioFinish => \/ Resolved
                  \/ /\ M.failed
                     /\ At("slave", "DATA") = {} /\ Finishes("slave", 1) = {}
                     /\ Over \/ Finishes("master", 0) # {}

FinishOK ==
    /\ \A i \in Finishes("slave", 0) : AnswerOK(i)
    /\ \A i \in Finishes("master", 1) : AskOK(i)
    /\ \A i \in Finishes("master", 0) : net["master"][i].n = 0 /\ M.failed
    /\ MasterAsksOK /\ SlaveDoneOK
    /\ S.closeNotify => Resolved
    /\ M.said = "OK" \/ S.said = "OK" => Complete \/ Early

\* While nothing has failed, an end closes its file behind its last request.
HealthyEnd(x) ==
    /\ x.isFdOpen => x.fd \in x.openFds
    /\ \A r \in x.pending :
           /\ r.op \in {"read", "write"} => r.fd = x.fd /\ x.isFdOpen
           /\ r.op = "close" => r.fd \in x.openFds

IsOpen(x) == x.ioFinish \/ x.isFdOpen \/ x.stop

HealthyOK ==
    /\ HealthyEnd(M) /\ HealthyEnd(S)
    /\ Checks # {} \/ ModeAcks # {} \/ Opens("slave") \/ At("master", "BEGIN") # {} => IsOpen(M)
    /\ At("master", "BEGIN") # {} \/ Reads # {} \/ At("slave", "DATA") # {} => IsOpen(S)
    /\ S.ioFinish => M.ioFinish /\ At("slave", "DATA") = {}
    /\ At("master", "FINISH") # {} \/ At("slave", "FINISH") # {} => S.ioFinish

FileInv ==
    /\ TypeOK
    /\ \A e \in Ends : EndOK(end[e])
    /\ StageOK /\ CommandsOK /\ ReadsOK /\ PiecesOK /\ DiskOK /\ FinishOK
    /\ Healthy => HealthyOK

OneFileInv == job.kind = "file" => FileInv /\ CloseReqIsFree

(* Liveness *)

\* A write stored less than it should: the slave waits for blocks that were all
\* sent and written, but are not counted, and nobody ends the transfer.
WaitsForBlocks ==
    LET x == end["slave"] IN
    /\ job.fault = "short" /\ end["master"].ioFinish
    /\ x.indexIO < FileSize(x) /\ ~x.ioFinish
    /\ \A e \in Ends : end[e].pending = {} /\ net[e] = <<>>

\* A transfer that was begun ends, and both task objects are deleted, unless the
\* slave waits after a short write or an end is broken.
TransferEnds ==
    end["master"].begun ~>
        \/ \A e \in Ends : end[e].released
        \/ \E e \in Ends : end[e].broken
        \/ WaitsForBlocks
============================================================================
