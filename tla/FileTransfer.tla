---------------------------- MODULE FileTransfer ----------------------------
(***************************************************************************)
(* The file transfers of one session: FileTransfer with its queue builder  *)
(* and FileWorker on the client's worker thread, the window that starts,   *)
(* cancels and answers, and the FileRequestHandlers of both computers.     *)
(*                                                                         *)
(* The worker thread has one queue of posted events.  Signals of the       *)
(* window, tasks, replies of the remote computer and deferred deletions    *)
(* all go through it, so a deletion runs after whatever was posted before. *)
(* A local request is served within its event, a remote one by the other   *)
(* computer, one at a time and in order.                                   *)
(*                                                                         *)
(* A directory is listed and created, a file is copied block by block, one *)
(* block per packet.  Names, sizes in bytes, progress and speed are left   *)
(* out; a name that is refused counts as a listing that fails.             *)
(***************************************************************************)
EXTENDS Naturals, Sequences, SequencesExt, FiniteSetsExt

CONSTANTS
    Items,             \* the selected paths, in the order of the window
    Children,          \* [directory -> sequence of the paths in it]
    Size,              \* [file -> number of its blocks]
    RemovesOpenFiles,  \* whether the target's system removes a file that is open
    MaxTransfers,      \* bound: transfers started in the session
    MaxFaults          \* bound: requests that fail on a disk or on permissions

Directories == DOMAIN Children
Files       == DOMAIN Size
Paths       == Directories \union Files

ASSUME FilesAssumption ==
    /\ Directories \intersect Files = {}
    /\ Items \in Seq(Paths)
    /\ \A d \in Directories : Children[d] \in Seq(Paths)
    /\ \A f \in Files : Size[f] \in Nat
    /\ RemovesOpenFiles \in BOOLEAN /\ {MaxTransfers, MaxFaults} \subseteq Nat

ErrorTypes == {"queue", "create_directory", "create_file", "open_file", "already_exists",
               "write_file", "read_file"}

Answers == {"abort", "skip", "skip_all", "replace", "replace_all"}

\* kActions; a message box without buttons of its own can only be closed.
AvailableActions(type) ==
    {"abort"} \union (IF type = "queue" THEN {} ELSE {"skip", "skip_all"})
              \union (IF type = "already_exists" THEN {"replace", "replace_all"} ELSE {})

VARIABLES
    type,          \* FileTransfer::type_, the same for all transfers of a behaviour
    started,       \* transfers started so far
    transfer,      \* the FileTransfer object and its queue builder
    events,        \* posted events of the worker thread
    remote_queue,  \* FileWorker::remote_task_queue_
    wire,          \* the request that is on its way to the remote computer
    packetizer,    \* FileRequestHandler::packetizer_ of the source, <<>> when null
    depacketizer,  \* FileRequestHandler::depacketizer_ of the target, <<>> when null
    disk,          \* target files: <<>> when absent, <<blocks>> otherwise
    dirs,          \* target directories that exist
    window,        \* what the window shows
    signals,       \* signals posted to the window
    faults,        \* failures so far
    copied,        \* files whose copy was confirmed and which nobody replaced since
    granted        \* files the user agreed to replace

vars == <<type, started, transfer, events, remote_queue, wire, packetizer, depacketizer, disk,
          dirs, window, signals, faults, copied, granted>>

handlerVars == <<packetizer, depacketizer, disk, dirs, faults>>
workerVars  == <<transfer, events, remote_queue>>
windowVars  == <<started, window, granted>>

----------------------------------------------------------------------------
(* Files                                                                   *)

Absent     == <<>>
Block(f, i) == <<f, i>>
Content(f) == <<[i \in 1 .. Size[f] |-> Block(f, i)]>>
Old(f)     == << <<Block(f, 0)>> >>

NoTransfer ==
    [alive |-> FALSE, finished |-> FALSE, crashed |-> FALSE, canceled |-> FALSE,
     timer |-> FALSE, builder |-> "none", pending |-> <<>>, queue |-> <<>>, tasks |-> <<>>,
     overwrite |-> FALSE, actions |-> [e \in ErrorTypes |-> "ask"]]

Init ==
    /\ type \in {"uploader", "downloader"}
    /\ started = 0
    /\ transfer = NoTransfer
    /\ events = <<>> /\ remote_queue = <<>> /\ wire = <<>>
    /\ packetizer = <<>> /\ depacketizer = <<>>
    /\ \E existing \in SUBSET Files :
         disk = [f \in Files |-> IF f \in existing THEN Old(f) ELSE Absent]
    /\ dirs = {} \/ dirs = Directories
    /\ window = [shown |-> FALSE, stopping |-> FALSE, prompt |-> "none"]
    /\ signals = <<>>
    /\ faults = 0 /\ copied = {} /\ granted = {}
    /\ \A f \in Files : disk[f] # Absent => dirs = Directories

----------------------------------------------------------------------------
(* FileRequestHandler: what serving a request does, and its reply          *)

ReplyOf(code, packet) == [code |-> code, packet |-> packet]
Ok     == ReplyOf("ok", <<>>)
Exists == ReplyOf("exists", <<>>)
Failed == ReplyOf("error", <<>>)

Fault == faults < MaxFaults /\ faults' = faults + 1

DestroyKeepsFile(d, dep) == d

\* ~FileDepacketizer of one whose file is open: the file is removed.
Destroy(d, dep) == IF dep = <<>> THEN d ELSE [d EXCEPT ![dep[1].path] = Absent]

DoFileList(req, rep) ==
    /\ \/ rep = Ok /\ UNCHANGED faults
       \/ rep = Failed /\ Fault
    /\ UNCHANGED <<packetizer, depacketizer, disk, dirs>>

\* The directory a path is in, if it is one that a transfer creates, is not there.
MissingParent(path) == \E d \in Directories \ dirs : path \in ToSet(Children[d])

DoCreateDirectory(req, rep) ==
    /\ \/ /\ req.path \in dirs
          /\ rep = Exists /\ UNCHANGED <<dirs, faults>>
       \/ /\ req.path \notin dirs /\ ~ MissingParent(req.path)
          /\ rep = Ok /\ dirs' = dirs \union {req.path} /\ UNCHANGED faults
       \/ /\ req.path \notin dirs
          /\ IF MissingParent(req.path) THEN UNCHANGED faults ELSE Fault
          /\ rep = Failed /\ UNCHANGED dirs
    /\ UNCHANGED <<packetizer, depacketizer, disk>>

DoDownload(req, rep) ==
    /\ \/ /\ rep = Ok
          /\ packetizer' = <<[path |-> req.path, left |-> Size[req.path]]>>
          /\ UNCHANGED faults
       \/ rep = Failed /\ Fault /\ packetizer' = <<>>
    /\ UNCHANGED <<depacketizer, disk, dirs>>

\* The new file is opened and truncated before the old depacketizer is destroyed; when
\* that one's file is the same and still open, its removal unlinks the new file, unless
\* the system refuses to remove an open file.
CreateDepacketizer(f) ==
    LET opened == [disk EXCEPT ![f] = << <<>> >>]
        stale  == depacketizer # <<>> /\ depacketizer[1].path = f IN
      /\ disk' = IF stale /\ ~ RemovesOpenFiles THEN opened ELSE Destroy(opened, depacketizer)
      /\ depacketizer' = <<[path |-> f, size |-> 0, left |-> 0,
                          linked |-> ~ (stale /\ RemovesOpenFiles)]>>

DoUpload(req, rep) ==
    /\ \/ /\ ~ req.overwrite /\ disk[req.path] # Absent
          /\ rep = Exists
          /\ UNCHANGED <<depacketizer, disk, faults>>
       \/ /\ req.overwrite \/ disk[req.path] = Absent
          /\ \/ /\ ~ MissingParent(req.path)
                /\ rep = Ok
                /\ CreateDepacketizer(req.path)
                /\ UNCHANGED faults
             \/ /\ IF MissingParent(req.path) THEN UNCHANGED faults ELSE Fault
                /\ rep = Failed
                /\ depacketizer' = <<>> /\ disk' = Destroy(disk, depacketizer)
    /\ UNCHANGED <<packetizer, dirs>>

Packet(blocks, first, last, size) ==
    [blocks |-> blocks, first |-> first, last |-> last, size |-> size]

\* FilePacketizer::readNextPacket
NextPacket(p) ==
    LET n == Size[p.path] - p.left + 1 IN
      Packet(IF p.left = 0 THEN <<>> ELSE <<Block(p.path, n)>>, n = 1, p.left <= 1, Size[p.path])

DoPacketRequest(req, rep) ==
    /\ \/ /\ packetizer = <<>>
          /\ rep = Failed /\ UNCHANGED <<packetizer, faults>>
       \/ /\ packetizer # <<>> /\ req.cancel
          /\ rep = ReplyOf("ok", <<Packet(<<>>, FALSE, TRUE, 0)>>)
          /\ packetizer' = <<>> /\ UNCHANGED faults
       \/ /\ packetizer # <<>> /\ ~ req.cancel
          /\ \/ rep = Failed /\ packetizer' = <<>> /\ Fault
             \/ /\ rep = ReplyOf("ok", <<NextPacket(packetizer[1])>>)
                /\ packetizer' = IF packetizer[1].left <= 1 THEN <<>>
                                 ELSE <<[packetizer[1] EXCEPT !.left = @ - 1]>>
                /\ UNCHANGED faults
    /\ UNCHANGED <<depacketizer, disk, dirs>>

\* writeNextPacket takes data only within the size that the first packet announced, and
\* the last packet only if it completes the file.
Accepts(dep, packet) ==
    LET left == IF packet.first THEN packet.size ELSE dep.left IN
      /\ packet.first => dep.size = 0
      /\ left >= 1
      /\ packet.last => left = 1

WriteDataNotClosed(dep, packet) ==
    LET size == IF packet.first THEN packet.size ELSE dep.size
        left == (IF packet.first THEN packet.size ELSE dep.left) - 1 IN
      IF packet.last
        THEN disk' = Destroy(disk, <<dep>>) /\ depacketizer' = <<>>
        ELSE /\ disk' = [disk EXCEPT ![dep.path] = <<Append(@[1], packet.blocks[1])>>]
             /\ depacketizer' = <<[dep EXCEPT !.size = size, !.left = left]>>

WriteData(dep, packet) ==
    LET size == IF packet.first THEN packet.size ELSE dep.size
        left == (IF packet.first THEN packet.size ELSE dep.left) - 1 IN
      /\ disk' = IF dep.linked
                   THEN [disk EXCEPT ![dep.path] = <<Append(@[1], packet.blocks[1])>>]
                   ELSE disk
      /\ depacketizer' = IF packet.last THEN <<>>
                         ELSE <<[dep EXCEPT !.size = size, !.left = left]>>

IsCancelPacket(packet) == packet.blocks = <<>> /\ ~ packet.first

DoPacket(req, rep) ==
    LET packet == req.packet IN
    /\ \/ /\ depacketizer = <<>>
          /\ rep = Failed /\ UNCHANGED <<depacketizer, disk, faults>>
       \/ /\ depacketizer # <<>> /\ packet.blocks = <<>>
          /\ rep = Ok /\ depacketizer' = <<>>
          /\ disk' = IF IsCancelPacket(packet) THEN Destroy(disk, depacketizer) ELSE disk
          /\ UNCHANGED faults
       \/ /\ depacketizer # <<>> /\ packet.blocks # <<>>
          /\ \/ /\ rep = Ok /\ Accepts(depacketizer[1], packet)
                /\ WriteData(depacketizer[1], packet) /\ UNCHANGED faults
             \/ /\ rep = Failed
                /\ IF Accepts(depacketizer[1], packet) THEN Fault ELSE UNCHANGED faults
                /\ depacketizer' = <<>> /\ disk' = Destroy(disk, depacketizer)
    /\ UNCHANGED <<packetizer, dirs>>

\* FileRequestHandler::doRequest
DoRequest(req, rep) ==
    CASE req.kind = "file_list"        -> DoFileList(req, rep)
      [] req.kind = "create_directory" -> DoCreateDirectory(req, rep)
      [] req.kind = "download"         -> DoDownload(req, rep)
      [] req.kind = "upload"           -> DoUpload(req, rep)
      [] req.kind = "packet_request"   -> DoPacketRequest(req, rep)
      [] req.kind = "packet"           -> DoPacket(req, rep)

\* Every reply there can be to a request now.
Replies ==
    {Ok, Exists, Failed, ReplyOf("ok", <<Packet(<<>>, FALSE, TRUE, 0)>>)}
        \union {ReplyOf("ok", <<NextPacket(p)>>) : p \in ToSet(packetizer)}

\* An upload that is granted starts the file anew.
Forget(req, rep) == IF req.kind = "upload" /\ rep = Ok THEN {req.path} ELSE {}

----------------------------------------------------------------------------
(* FileTransfer and its queue builder: each handler gives the new object,  *)
(* the events it posts to the worker thread and those for the window       *)

Out(t, posts, sigs) == [t |-> t, posts |-> posts, sigs |-> sigs]

Event(at) == [at |-> at]

\* sig_doTask, a queued call of FileWorker::onTask.
DoTask(req) == [at |-> "task", request |-> req]

\* The requests of FileTaskFactory, with the transfer whose factory waits for the reply.
FileListTask(path)        == DoTask([kind |-> "file_list", path |-> path, by |-> started])
CreateDirectoryTask(path) == DoTask([kind |-> "create_directory", path |-> path, by |-> started])
DownloadTask(path)        == DoTask([kind |-> "download", path |-> path, by |-> started])
UploadTask(path, over)    == DoTask([kind |-> "upload", path |-> path, overwrite |-> over,
                                     by |-> started])
PacketRequestTask(cancel) == DoTask([kind |-> "packet_request", cancel |-> cancel, by |-> started])
PacketTask(packet)        == DoTask([kind |-> "packet", packet |-> packet, by |-> started])

\* onFinished; deleteLater, which sig_finished calls, posts one deletion.
OnFinished(t) ==
    Out([t EXCEPT !.finished = TRUE],
        IF t.finished THEN <<>> ELSE <<Event("delete_transfer")>>,
        <<"finished">>)

DoFrontTaskKeepsOverwrite(t, overwrite) ==
    LET path == Head(t.tasks) IN
      Out([t EXCEPT !.overwrite = @ \/ overwrite],
          <<IF path \in Directories THEN CreateDirectoryTask(path) ELSE DownloadTask(path)>>,
          <<>>)

DoFrontTask(t, overwrite) ==
    LET path == Head(t.tasks) IN
      Out([t EXCEPT !.overwrite = overwrite],
          <<IF path \in Directories THEN CreateDirectoryTask(path) ELSE DownloadTask(path)>>,
          <<>>)

DoNextTask(t) ==
    LET rest == IF t.canceled \/ t.tasks = <<>> THEN <<>> ELSE Tail(t.tasks) IN
      IF rest = <<>> THEN OnFinished([t EXCEPT !.tasks = <<>>, !.timer = FALSE])
                     ELSE DoFrontTask([t EXCEPT !.tasks = rest], FALSE)

\* setAction; an answer for all errors of the type is kept.
SetAction(t, error, action) ==
    LET u == IF action \in {"skip_all", "replace_all"}
               THEN [t EXCEPT !.actions[error] = action] ELSE t IN
      CASE action = "abort"                      -> OnFinished(u)
        [] action \in {"replace", "replace_all"} -> DoFrontTask(u, TRUE)
        [] action \in {"skip", "skip_all"}       -> DoNextTask(u)

OnError(t, error) ==
    IF t.actions[error] # "ask" THEN SetAction(t, error, t.actions[error])
                                ELSE Out(t, <<>>, <<error>>)

\* The queue builder is done: the handler of its sig_finished.  It takes the queue through
\* queue_builder_, which stop() has reset while the builder waits for its deletion.
QueueFinished(t, ok) ==
    LET u == [t EXCEPT !.builder = "none", !.pending = <<>>, !.queue = <<>>] IN
      CASE ~ ok                                    -> OnError(u, "queue")
        [] ok /\ t.builder # "held"                -> Out([u EXCEPT !.crashed = TRUE], <<>>, <<>>)
        [] ok /\ t.builder = "held" /\ t.queue = <<>> -> OnFinished(u)
        [] ok /\ t.builder = "held" /\ t.queue # <<>> ->
             DoFrontTask([u EXCEPT !.tasks = t.queue], FALSE)

\* doPendingTasks: up to the next directory, which is listed.
DoPendingTasks(t) ==
    LET at == {i \in DOMAIN t.pending : t.pending[i] \in Directories} IN
      IF at = {} THEN QueueFinished([t EXCEPT !.queue = @ \o t.pending], TRUE)
      ELSE Out([t EXCEPT !.queue   = @ \o SubSeq(t.pending, 1, Min(at)),
                         !.pending = SubSeq(@, Min(at) + 1, Len(@))],
               <<FileListTask(t.pending[Min(at)])>>, <<>>)

\* FileTransferQueueBuilder::onTaskDone
ListReply(t, req, rep) ==
    IF rep = Ok THEN DoPendingTasks([t EXCEPT !.pending = @ \o Children[req.path]])
                ELSE QueueFinished(t, FALSE)

\* sourceReply
SourceReply(t, req, rep) ==
    CASE req.kind = "download" ->
           IF rep.code = "ok" THEN Out(t, <<UploadTask(Head(t.tasks), t.overwrite)>>, <<>>)
                              ELSE OnError(t, "open_file")
      [] req.kind = "packet_request" ->
           IF rep.code = "ok" THEN Out(t, <<PacketTask(rep.packet[1])>>, <<>>)
                              ELSE OnError(t, "read_file")

\* targetReply; an existing directory is as good as a created one.
TargetReply(t, req, rep) ==
    CASE req.kind = "create_directory" ->
           IF rep \in {Ok, Exists} THEN DoNextTask(t) ELSE OnError(t, "create_directory")
      [] req.kind = "upload" ->
           IF rep.code = "ok" THEN Out(t, <<PacketRequestTask(FALSE)>>, <<>>)
           ELSE OnError(t, IF rep.code = "exists" THEN "already_exists" ELSE "create_file")
      [] req.kind = "packet" ->
           CASE rep.code # "ok"                     -> OnError(t, "write_file")
             [] rep.code = "ok" /\ req.packet.last   -> DoNextTask(t)
             [] rep.code = "ok" /\ ~ req.packet.last ->
                  Out(t, <<PacketRequestTask(t.canceled)>>, <<>>)

SourceKinds == {"file_list", "download", "packet_request"}

\* FileTask::onReply: nobody hears it when the factory is gone.
Heard(req) ==
    /\ transfer.alive /\ req.by = started
    /\ req.kind = "file_list" => transfer.builder # "none"

OnReply(req, rep) ==
    CASE ~ Heard(req)                              -> Out(transfer, <<>>, <<>>)
      [] Heard(req) /\ req.kind = "file_list"      -> ListReply(transfer, req, rep)
      [] Heard(req) /\ req.kind # "file_list" /\ transfer.tasks = <<>> ->
           Out(transfer, <<>>, <<>>)
      [] Heard(req) /\ req.kind # "file_list" /\ transfer.tasks # <<>> ->
           IF req.kind \in SourceKinds THEN SourceReply(transfer, req, rep)
                                       ELSE TargetReply(transfer, req, rep)

\* The reply tells the transfer that the front task's file is complete.
Confirms(req, rep) ==
    IF /\ Heard(req) /\ transfer.tasks # <<>>
       /\ req.kind = "packet" /\ rep = Ok /\ req.packet.last /\ ~ IsCancelPacket(req.packet)
      THEN {Head(transfer.tasks)} ELSE {}

----------------------------------------------------------------------------
(* FileWorker: the events of its thread                                    *)

\* The client has not crashed.
Running == ~ transfer.crashed

Handling(at) == Running /\ events # <<>> /\ Head(events).at = at

\* The event is handled with this outcome.
Done(out) ==
    /\ transfer' = out.t
    /\ events' = Tail(events) \o out.posts
    /\ signals' = signals \o out.sigs

\* onTransferRequest
OnTransferRequest ==
    /\ Handling("request")
    /\ Done(Out(transfer, <<Event("start")>>, <<>>))
    /\ UNCHANGED <<type, windowVars, remote_queue, wire, handlerVars, copied>>

\* FileTransfer::start, and FileTransferQueueBuilder::start
Start ==
    /\ Handling("start")
    /\ Done(DoPendingTasks([transfer EXCEPT !.builder = "held", !.pending = Items]))
    /\ UNCHANGED <<type, windowVars, remote_queue, wire, handlerVars, copied>>

StopWithoutTimer(t) ==
    IF t.builder = "held"
      THEN LET out == OnFinished([t EXCEPT !.builder = "released"]) IN
             [out EXCEPT !.posts = <<Event("delete_builder")>> \o @]
      ELSE Out([t EXCEPT !.canceled = TRUE], <<>>, <<>>)

StopTransfer(t) ==
    IF t.builder = "held"
      THEN LET out == OnFinished([t EXCEPT !.builder = "released"]) IN
             [out EXCEPT !.posts = <<Event("delete_builder")>> \o @]
      ELSE Out([t EXCEPT !.canceled = TRUE, !.timer = TRUE], <<>>, <<>>)

\* FileTransfer::stop
Stop ==
    /\ Handling("stop")
    /\ Done(StopTransfer(transfer))
    /\ UNCHANGED <<type, windowVars, remote_queue, wire, handlerVars, copied>>

\* The timer of stop() fires.
CancelTimeout ==
    /\ Running /\ transfer.alive /\ transfer.timer
    /\ LET out == OnFinished([transfer EXCEPT !.timer = FALSE]) IN
         /\ transfer' = out.t
         /\ events' = events \o out.posts
         /\ signals' = signals \o out.sigs
    /\ UNCHANGED <<type, windowVars, remote_queue, wire, handlerVars, copied>>

\* FileTransfer::setAction, called by the window.
Action ==
    /\ Handling("action")
    /\ Done(SetAction(transfer, Head(events).error, Head(events).action))
    /\ UNCHANGED <<type, windowVars, remote_queue, wire, handlerVars, copied>>

DeleteBuilder ==
    /\ Handling("delete_builder")
    /\ Done(Out([transfer EXCEPT !.builder = "none", !.pending = <<>>, !.queue = <<>>], <<>>, <<>>))
    /\ UNCHANGED <<type, windowVars, remote_queue, wire, handlerVars, copied>>

\* The object goes, with its builder and whatever is still posted to them.
DeleteTransfer ==
    /\ Handling("delete_transfer")
    /\ transfer' = NoTransfer
    /\ LET kept == {i \in DOMAIN events : events[i].at \in {"task", "reply"}} IN
         \E h \in [1 .. Cardinality(kept) -> kept] :
            /\ \A i, j \in DOMAIN h : i < j => h[i] < h[j]
            /\ events' = [i \in DOMAIN h |-> events[h[i]]]
    /\ UNCHANGED <<type, windowVars, signals, remote_queue, wire, handlerVars, copied>>

IsLocal(req) == (req.kind \in SourceKinds) = (type = "uploader")

\* onTask for the local computer: the request is served and answered at once.
LocalTask ==
    /\ Handling("task")
    /\ LET req == Head(events).request IN
         /\ IsLocal(req)
         /\ \E rep \in Replies :
              /\ DoRequest(req, rep)
              /\ Done(OnReply(req, rep))
              /\ copied' = (copied \ Forget(req, rep)) \union Confirms(req, rep)
    /\ UNCHANGED <<type, windowVars, remote_queue, wire>>

\* onTask for the remote computer.
RemoteTask ==
    /\ Handling("task")
    /\ LET req == Head(events).request IN
         /\ ~ IsLocal(req)
         /\ remote_queue' = Append(remote_queue, req)
         /\ wire' = IF remote_queue = <<>> THEN <<req>> ELSE wire
    /\ Done(Out(transfer, <<>>, <<>>))
    /\ UNCHANGED <<type, windowVars, handlerVars, copied>>

\* The other computer serves the request that reached it.
RemoteServe ==
    /\ wire # <<>>
    /\ \E rep \in Replies :
         /\ DoRequest(wire[1], rep)
         /\ events' = Append(events, [at |-> "reply", reply |-> rep])
         /\ copied' = copied \ Forget(wire[1], rep)
    /\ wire' = <<>>
    /\ UNCHANGED <<type, windowVars, transfer, remote_queue, signals>>

\* FileClient::onMessage of the other computer, where nobody is logged on, refuses the
\* request unserved.  onChannelMessage tells the window that the session failed, but it
\* neither answers the oldest request nor removes it, so nothing more is sent.
NoLoggedOnUser ==
    /\ wire # <<>>
    /\ wire' = <<>>
    /\ UNCHANGED <<type, windowVars, workerVars, signals, handlerVars, copied>>

\* onChannelMessage: the oldest request is answered, and the next one is sent.
OnChannelMessage ==
    /\ Handling("reply")
    /\ LET req == Head(remote_queue)
           rep == Head(events).reply IN
         /\ Done(OnReply(req, rep))
         /\ copied' = copied \union Confirms(req, rep)
    /\ remote_queue' = Tail(remote_queue)
    /\ wire' = IF Len(remote_queue) > 1 THEN <<remote_queue[2]>> ELSE <<>>
    /\ UNCHANGED <<type, windowVars, handlerVars>>

----------------------------------------------------------------------------
(* The window                                                              *)

\* transferItems.  The user begins the next transfer when the worker is done with the
\* previous one, which the window does not check.
TransferItems(replace_existing) ==
    /\ Running
    /\ ~ window.shown /\ window.prompt = "none" /\ signals = <<>> /\ ~ transfer.alive
    /\ started < MaxTransfers
    /\ started' = started + 1
    /\ window' = [shown |-> TRUE, stopping |-> FALSE, prompt |-> "none"]
    /\ transfer' = [NoTransfer EXCEPT !.alive = TRUE,
                       !.actions["already_exists"] = IF replace_existing THEN "replace_all" ELSE "ask"]
    /\ granted' = IF replace_existing THEN Files ELSE granted
    /\ events' = Append(events, Event("request"))
    /\ UNCHANGED <<type, signals, remote_queue, wire, handlerVars, copied>>

\* What the window posts to the transfer, if that is still there.
PostToTransfer(e) == events' = IF transfer.alive THEN Append(events, e) ELSE events

\* requestStop, of the button or of mcpCancelTask, which a message box does not block.
RequestStop ==
    /\ Running
    /\ window.shown /\ ~ window.stopping
    /\ window' = [window EXCEPT !.stopping = TRUE]
    /\ PostToTransfer(Event("stop"))
    /\ UNCHANGED <<type, started, granted, transfer, signals, remote_queue, wire, handlerVars,
                   copied>>

\* A button of the message box.
Answer(action) ==
    /\ Running
    /\ window.prompt # "none" /\ action \in AvailableActions(window.prompt)
    /\ window' = [window EXCEPT !.prompt = "none"]
    /\ PostToTransfer([at |-> "action", error |-> window.prompt, action |-> action])
    /\ granted' = CASE action = "replace_all" -> Files
                    [] action = "replace" /\ transfer.tasks # <<>> ->
                         granted \union {Head(transfer.tasks)}
                    [] OTHER -> granted
    /\ UNCHANGED <<type, started, transfer, signals, remote_queue, wire, handlerVars, copied>>

\* The window handles the signals of the transfer.
OnSignals ==
    /\ Running /\ signals # <<>>
    /\ window' = [window EXCEPT
                    !.shown  = @ /\ "finished" \notin ToSet(signals),
                    !.prompt = IF ToSet(signals) \ {"finished"} = {} THEN @
                               ELSE CHOOSE e \in ToSet(signals) \ {"finished"} : TRUE]
    /\ signals' = <<>>
    /\ UNCHANGED <<type, started, granted, workerVars, wire, handlerVars, copied>>

----------------------------------------------------------------------------

WorkerNext ==
    \/ OnTransferRequest \/ Start \/ Stop \/ Action
    \/ DeleteBuilder \/ DeleteTransfer
    \/ LocalTask \/ RemoteTask \/ OnChannelMessage

Next ==
    \/ WorkerNext
    \/ CancelTimeout
    \/ RemoteServe
    \/ NoLoggedOnUser
    \/ \E replace_existing \in BOOLEAN : TransferItems(replace_existing)
    \/ RequestStop
    \/ \E action \in Answers : Answer(action)
    \/ OnSignals

Spec == Init /\ [][Next]_vars

\* The event loops of the worker and of the window serve what is posted and their timers.
\* Nothing is assumed of the other computer or of the user.
Fairness ==
    /\ WF_vars(WorkerNext)
    /\ WF_vars(CancelTimeout)
    /\ WF_vars(OnSignals)

FairSpec == Spec /\ Fairness

----------------------------------------------------------------------------
(* Properties                                                              *)

Packets == [blocks : Seq(Files \X Nat), first : BOOLEAN, last : BOOLEAN, size : Nat]

Requests ==
    LET By == 1 .. MaxTransfers IN
      [kind : {"file_list", "create_directory"}, path : Directories, by : By]
        \union [kind : {"download"}, path : Files, by : By]
        \union [kind : {"upload"}, path : Files, overwrite : BOOLEAN, by : By]
        \union [kind : {"packet_request"}, cancel : BOOLEAN, by : By]
        \union [kind : {"packet"}, packet : Packets, by : By]

ReplyRecords == [code : {"ok", "exists", "error"}, packet : Seq(Packets)]

Events ==
    [at : {"request", "start", "stop", "delete_builder", "delete_transfer"}]
      \union [at : {"task"}, request : Requests]
      \union [at : {"reply"}, reply : ReplyRecords]
      \union [at : {"action"}, error : ErrorTypes, action : Answers]

Transfers ==
    [alive : BOOLEAN, finished : BOOLEAN, crashed : BOOLEAN, canceled : BOOLEAN, timer : BOOLEAN,
     builder : {"none", "held", "released"}, pending : Seq(Paths), queue : Seq(Paths),
     tasks : Seq(Paths), overwrite : BOOLEAN,
     actions : [ErrorTypes -> {"ask", "skip_all", "replace_all"}]]

TypeOK ==
    /\ type \in {"uploader", "downloader"}
    /\ started \in 0 .. MaxTransfers /\ faults \in 0 .. MaxFaults
    /\ transfer \in Transfers
    /\ events \in Seq(Events)
    /\ remote_queue \in Seq(Requests)
    /\ wire \in Seq(Requests) /\ Len(wire) <= 1
    /\ packetizer \in Seq([path : Files, left : Nat]) /\ Len(packetizer) <= 1
    /\ depacketizer \in Seq([path : Files, size : Nat, left : Nat, linked : BOOLEAN])
    /\ Len(depacketizer) <= 1
    /\ disk \in [Files -> Seq(Seq(Files \X Nat))]
    /\ dirs \in SUBSET Directories
    /\ window \in [shown : BOOLEAN, stopping : BOOLEAN, prompt : ErrorTypes \union {"none"}]
    /\ signals \in Seq(ErrorTypes \union {"finished"})
    /\ copied \in SUBSET Files /\ granted \in SUBSET Files

\* A target file that nothing is writing is absent, untouched or complete: whatever
\* fails, is skipped, aborted or cancelled, and whatever transfer follows, no truncated
\* or mixed file stays behind under the name of a good one.
NoTruncatedFile ==
    \A f \in Files :
        \/ disk[f] \in {Absent, Old(f), Content(f)}
        \/ depacketizer # <<>> /\ depacketizer[1].path = f

\* "Delete the task only after confirmation of its successful execution": a file whose
\* last packet was confirmed is complete on the target, and stays so until it is
\* transferred again.
ConfirmedFileKept == \A f \in copied : disk[f] = Content(f)

\* A file that was on the target before is lost only if the user agreed to replace it,
\* for this file or for all, in this transfer or an earlier one.
OldKeptUnlessReplaced ==
    [][\A f \in Files : disk[f] = Old(f) /\ disk'[f] # Old(f) => f \in granted]_vars

\* A transfer that the user cancels ends, even if the other computer never answers and
\* whatever the transfer is waiting for.
CancelEnds == window.stopping ~> (~ window.shown \/ transfer.crashed)

\* ScopedQPointer says that its reset() "makes it safe to release objects that may still be
\* processing queued events": a cancel never makes the worker use what was released.
ReleasedBuilderUnused == ~ transfer.crashed
=============================================================================
