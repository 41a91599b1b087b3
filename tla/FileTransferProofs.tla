------------------------- MODULE FileTransferProofs -------------------------
(* Theorems about FileTransfer, for every tree of files, every number of    *)
(* transfers and of failures, and both directions.                          *)
EXTENDS FileTransfer, FiniteSetTheorems, WellFoundedInduction, TLAPS

----------------------------------------------------------------------------
(* The inductive invariant                                                 *)

\* The request belongs to the transfer that is alive.
Live(req) == transfer.alive /\ req.by = started

\* What drives a transfer is in one place: a posted event, a request that the other
\* computer has to answer, an error that was signalled, or a question to the user.
LiveEvent(e) ==
    \/ e.at \in {"request", "start", "action"}
    \/ e.at = "task" /\ Live(e.request)

InEvents  == \E i \in 1 .. Len(events) : LiveEvent(events[i])
InQueue   == \E i \in 1 .. Len(remote_queue) : Live(remote_queue[i])
Signalled == \E i \in 1 .. Len(signals) : signals[i] # "finished"
Asked     == window.prompt # "none"

OneDriver ==
    /\ \A i, j \in 1 .. Len(events) : LiveEvent(events[i]) /\ LiveEvent(events[j]) => i = j
    /\ \A i, j \in 1 .. Len(signals) : signals[i] # "finished" /\ signals[j] # "finished" => i = j
    /\ InEvents => ~ InQueue /\ ~ Signalled /\ ~ Asked
    /\ InQueue => ~ Signalled /\ ~ Asked
    /\ Signalled => ~ Asked

\* What earlier transfers left behind comes first: before the request that begins a
\* transfer in the events, and before its request in the queue.
OrderInv ==
    /\ ~ transfer.alive => \A i \in 1 .. Len(events) : events[i].at \in {"task", "reply"}
    /\ \A i \in 1 .. Len(events) : events[i].at = "request" =>
         /\ ~ transfer.timer
         /\ \A j \in 1 .. Len(events) : j < i => events[j].at \in {"task", "reply"}
         /\ \A j \in 1 .. Len(events) : j > i => events[j].at \in {"stop", "reply"}
    /\ transfer.alive /\ (\A i \in 1 .. Len(events) : events[i].at # "request") =>
         \A i \in 1 .. Len(events) : events[i].at = "task" => events[i].request.by = started
    /\ \A i \in 1 .. Len(events) : events[i].at = "task" => events[i].request.by <= started

QueueInv ==
    \A i \in 1 .. Len(remote_queue) :
        /\ ~ IsLocal(remote_queue[i])
        /\ remote_queue[i].by <= started
        /\ Live(remote_queue[i]) => i = Len(remote_queue)

\* One request is with the other computer, or its reply is posted.
ReplyInv ==
    /\ \A i, j \in 1 .. Len(events) : events[i].at = "reply" /\ events[j].at = "reply" => i = j
    /\ \A i \in 1 .. Len(events) : events[i].at = "reply" => wire = <<>> /\ remote_queue # <<>>
    /\ wire # <<>> => remote_queue # <<>> /\ wire[1] = remote_queue[1]

SourceInv == packetizer # <<>> => packetizer[1].left <= Size[packetizer[1].path]

\* The blocks that a depacketizer has taken, and what it has made of them.
Written(d) == IF d.size = 0 THEN 0 ELSE d.size - d.left
Blocks(f, k) == [i \in 1 .. k |-> Block(f, i)]

DepacketizerInv ==
    depacketizer # <<>> =>
        LET d == depacketizer[1] IN
          /\ \/ d.size = 0 /\ d.left = 0
             \/ d.size = Size[d.path] /\ 1 <= d.left /\ d.left < d.size
          /\ disk[d.path] = IF d.linked THEN << Blocks(d.path, Written(d)) >> ELSE Absent
          /\ ~ RemovesOpenFiles => d.linked

\* A confirmed file is complete, and nobody writes it.
Kept(files, dsk, dep) ==
    \A f \in files :
        /\ ~ RemovesOpenFiles => dsk[f] = Content(f)
        /\ dep # <<>> => dep[1].path # f

CopiedInv == Kept(copied, disk, depacketizer)

\* The packet that comes after |k| blocks of a file, and the one that cancels.
CancelPacket == Packet(<<>>, FALSE, TRUE, 0)
PacketAt(f, k) ==
    Packet(IF Size[f] = 0 THEN <<>> ELSE << Block(f, k + 1) >>, k = 0, k + 1 >= Size[f], Size[f])

PacketFits(p, dep) ==
    \/ p = CancelPacket
    \/ dep # <<>> /\ p = PacketAt(dep[1].path, Written(dep[1]))

\* A packet that was not served yet, of a transfer that is alive or not, is the next
\* request of the target and continues the file that is open there.
PacketTasks ==
    \A i \in 1 .. Len(events) :
        events[i].at = "task" /\ events[i].request.kind = "packet" =>
          /\ remote_queue = <<>>
          /\ \A j \in 1 .. Len(events) : events[j].at = "task" => j = i
          /\ PacketFits(events[i].request.packet, depacketizer)

PacketQueue ==
    \A i \in 1 .. Len(remote_queue) : remote_queue[i].kind = "packet" =>
        /\ i = 1
        /\ wire # <<>> => PacketFits(remote_queue[i].packet, depacketizer)

PacketInv == PacketTasks /\ PacketQueue

\* How far source and target are with a file.
Reading(f, left) == << [path |-> f, left |-> left] >>

InStep(f, pk, dep) ==
    dep # <<>> /\ dep[1].path = f /\ pk = Reading(f, Size[f] - Written(dep[1]))

PacketGoes(p, f, pk, dep) ==
    \/ p = CancelPacket
    \/ /\ dep # <<>> /\ dep[1].path = f
       /\ p = PacketAt(f, Written(dep[1]))
       /\ ~ p.last => pk = Reading(f, Size[f] - Written(dep[1]) - 1)

\* What holds while a request of the transfer |t| waits to be served, ...
RequestFits(req, t, pk, dep) ==
    req.kind \notin {"file_list", "create_directory"} =>
        /\ t.tasks # <<>> /\ t.tasks[1] \in Files
        /\ req.kind = "download" => req.path = t.tasks[1]
        /\ req.kind = "upload" => req.path = t.tasks[1] /\ pk = Reading(req.path, Size[req.path])
        /\ req.kind = "packet_request" => InStep(t.tasks[1], pk, dep)
        /\ req.kind = "packet" => PacketGoes(req.packet, t.tasks[1], pk, dep)

\* ... and when it was, until the transfer reads the reply.
ReplyFits(req, rep, t, pk, dep, dsk) ==
    req.kind \notin {"file_list", "create_directory"} =>
        /\ t.tasks # <<>> /\ t.tasks[1] \in Files
        /\ rep.code = "ok" =>
             /\ req.kind = "download" => pk = Reading(t.tasks[1], Size[t.tasks[1]])
             /\ req.kind = "upload" => InStep(t.tasks[1], pk, dep)
             /\ req.kind = "packet_request" =>
                  rep.packet # <<>> /\ PacketGoes(rep.packet[1], t.tasks[1], pk, dep)
             /\ req.kind = "packet" /\ ~ req.packet.last => InStep(t.tasks[1], pk, dep)
             /\ req.kind = "packet" /\ req.packet.last =>
                  /\ dep = <<>>
                  /\ ~ RemovesOpenFiles /\ ~ IsCancelPacket(req.packet) =>
                       dsk[t.tasks[1]] = Content(t.tasks[1])

\* A request that is only made after the other computer has answered another one of the
\* same transfer, and therefore everything before it.
Follows(req) ==
    req.kind \in {"packet_request", "packet"} \/ (req.kind = "upload" /\ type = "downloader")

LiveTasks ==
    \A i \in 1 .. Len(events) : events[i].at = "task" /\ Live(events[i].request) =>
        /\ RequestFits(events[i].request, transfer, packetizer, depacketizer)
        /\ Follows(events[i].request) => remote_queue = <<>>

LiveQueue ==
    \A i \in 1 .. Len(remote_queue) : Live(remote_queue[i]) =>
        /\ i > 1 \/ wire # <<>> => RequestFits(remote_queue[i], transfer, packetizer, depacketizer)
        /\ Follows(remote_queue[i]) => Len(remote_queue) = 1

LiveReply ==
    \A i \in 1 .. Len(events) : events[i].at = "reply" /\ Live(remote_queue[1]) =>
        ReplyFits(remote_queue[1], events[i].reply, transfer, packetizer, depacketizer, disk)

LiveInv == LiveTasks /\ LiveQueue /\ LiveReply

\* A question to the user is about the first task.
ErrorFits(e, t) ==
    /\ e # "queue" => t.tasks # <<>>
    /\ e = "already_exists" => t.tasks[1] \in Files

ErrorInv ==
    transfer.alive =>
      /\ \A i \in 1 .. Len(signals) : signals[i] # "finished" => ErrorFits(signals[i], transfer)
      /\ window.prompt # "none" => ErrorFits(window.prompt, transfer)
      /\ \A i \in 1 .. Len(events) : events[i].at = "action" =>
           /\ ErrorFits(events[i].error, transfer)
           /\ events[i].action \in AvailableActions(events[i].error)
           /\ events[i].action = "replace_all" => Files \subseteq granted
           /\ events[i].action = "replace" => transfer.tasks[1] \in granted

\* Whatever may replace a file has the user's consent.
Consented(req) == req.kind = "upload" /\ req.overwrite => req.path \in granted

Consents(t) ==
    /\ t.overwrite /\ t.tasks # <<>> /\ t.tasks[1] \in Files => t.tasks[1] \in granted
    /\ \A e \in ErrorTypes : t.actions[e] = "replace_all" =>
          e = "already_exists" /\ Files \subseteq granted

ConsentTasks ==
    \A i \in 1 .. Len(events) : events[i].at = "task" => Consented(events[i].request)

ConsentQueue == \A i \in 1 .. Len(remote_queue) : Consented(remote_queue[i])

ConsentInv == Consents(transfer) /\ ConsentTasks /\ ConsentQueue

\* The object exists only in a transfer that was started, and its tasks go with it.
StartedInv ==
    /\ transfer.alive => started # 0
    /\ ~ transfer.alive => transfer.tasks = <<>>

FilesInv ==
    /\ TypeOK /\ StartedInv /\ OneDriver /\ OrderInv /\ QueueInv /\ ReplyInv
    /\ SourceInv /\ DepacketizerInv /\ CopiedInv /\ NoTruncatedFile
    /\ PacketInv /\ LiveInv /\ ErrorInv /\ ConsentInv

----------------------------------------------------------------------------
(* Constants, types and sequences                                          *)

LEMMA ConstantFacts ==
    /\ Directories \intersect Files = {} /\ Directories \subseteq Paths /\ Files \subseteq Paths
    /\ Items \in Seq(Paths)
    /\ \A d \in Directories : Children[d] \in Seq(Paths)
    /\ \A f \in Files : Size[f] \in Nat
    /\ \A p \in Paths : p \notin Directories => p \in Files
    /\ RemovesOpenFiles \in BOOLEAN /\ MaxTransfers \in Nat /\ MaxFaults \in Nat
BY FilesAssumption DEF Paths

LEMMA RequestTypes ==
    ASSUME NEW req \in Requests
    PROVE  /\ req.kind \in {"file_list", "create_directory", "download", "upload",
                            "packet_request", "packet"}
           /\ req.by \in 1 .. MaxTransfers
           /\ req.kind \in {"file_list", "create_directory"} => req.path \in Directories
           /\ req.kind \in {"download", "upload"} => req.path \in Files
           /\ req.kind = "upload" => req.overwrite \in BOOLEAN
           /\ req.kind = "packet_request" => req.cancel \in BOOLEAN
           /\ req.kind = "packet" => req.packet \in Packets
BY DEF Requests

LEMMA EventTypes ==
    ASSUME NEW e \in Events
    PROVE  /\ e.at \in {"request", "start", "stop", "delete_builder", "delete_transfer", "task",
                        "reply", "action"}
           /\ e.at = "task" => e.request \in Requests
           /\ e.at = "reply" => e.reply \in ReplyRecords
           /\ e.at = "action" => e.error \in ErrorTypes /\ e.action \in Answers
BY DEF Events

LEMMA EventsMade ==
    /\ \A at \in {"request", "start", "stop", "delete_builder", "delete_transfer"} :
          Event(at) \in Events /\ Event(at).at = at
    /\ \A req \in Requests : /\ DoTask(req) \in Events
                             /\ DoTask(req).at = "task" /\ DoTask(req).request = req
BY DEF Events, Event, DoTask

\* The requests of FileTaskFactory.
LEMMA TasksMade ==
    ASSUME started \in 1 .. MaxTransfers
    PROVE  /\ \A p \in Directories : \E req \in Requests :
                FileListTask(p) = DoTask(req) /\ req.kind = "file_list" /\ req.by = started
           /\ \A p \in Directories : \E req \in Requests :
                /\ CreateDirectoryTask(p) = DoTask(req)
                /\ req.kind = "create_directory" /\ req.by = started
           /\ \A p \in Files : \E req \in Requests :
                /\ DownloadTask(p) = DoTask(req)
                /\ req.kind = "download" /\ req.path = p /\ req.by = started
           /\ \A p \in Files, over \in BOOLEAN : \E req \in Requests :
                /\ UploadTask(p, over) = DoTask(req) /\ req.kind = "upload" /\ req.path = p
                /\ req.overwrite = over /\ req.by = started
           /\ \A cancel \in BOOLEAN : \E req \in Requests :
                /\ PacketRequestTask(cancel) = DoTask(req)
                /\ req.kind = "packet_request" /\ req.cancel = cancel /\ req.by = started
           /\ \A packet \in Packets : \E req \in Requests :
                /\ PacketTask(packet) = DoTask(req)
                /\ req.kind = "packet" /\ req.packet = packet /\ req.by = started
<1>1. ASSUME NEW p \in Directories
      PROVE  /\ [kind |-> "file_list", path |-> p, by |-> started] \in Requests
             /\ [kind |-> "create_directory", path |-> p, by |-> started] \in Requests
  BY DEF Requests
<1>2. ASSUME NEW p \in Files
      PROVE  [kind |-> "download", path |-> p, by |-> started] \in Requests
  BY DEF Requests
<1>3. ASSUME NEW p \in Files, NEW over \in BOOLEAN
      PROVE  [kind |-> "upload", path |-> p, overwrite |-> over, by |-> started] \in Requests
  BY DEF Requests
<1>4. ASSUME NEW cancel \in BOOLEAN
      PROVE  [kind |-> "packet_request", cancel |-> cancel, by |-> started] \in Requests
  BY DEF Requests
<1>5. ASSUME NEW packet \in Packets
      PROVE  [kind |-> "packet", packet |-> packet, by |-> started] \in Requests
  BY DEF Requests
<1>6. ASSUME NEW p \in Directories
      PROVE  /\ \E req \in Requests :
                FileListTask(p) = DoTask(req) /\ req.kind = "file_list" /\ req.by = started
             /\ \E req \in Requests :
                /\ CreateDirectoryTask(p) = DoTask(req)
                /\ req.kind = "create_directory" /\ req.by = started
  BY <1>1 DEF FileListTask, CreateDirectoryTask
<1>7. ASSUME NEW p \in Files
      PROVE  \E req \in Requests :
                /\ DownloadTask(p) = DoTask(req)
                /\ req.kind = "download" /\ req.path = p /\ req.by = started
  BY <1>2 DEF DownloadTask
<1>8. ASSUME NEW p \in Files, NEW over \in BOOLEAN
      PROVE  \E req \in Requests :
                /\ UploadTask(p, over) = DoTask(req) /\ req.kind = "upload" /\ req.path = p
                /\ req.overwrite = over /\ req.by = started
  BY <1>3 DEF UploadTask
<1>9. ASSUME NEW cancel \in BOOLEAN
      PROVE  \E req \in Requests :
                /\ PacketRequestTask(cancel) = DoTask(req)
                /\ req.kind = "packet_request" /\ req.cancel = cancel /\ req.by = started
  BY <1>4 DEF PacketRequestTask
<1>10. ASSUME NEW packet \in Packets
       PROVE  \E req \in Requests :
                /\ PacketTask(packet) = DoTask(req)
                /\ req.kind = "packet" /\ req.packet = packet /\ req.by = started
  BY <1>5 DEF PacketTask
<1> QED
  BY <1>6, <1>7, <1>8, <1>9, <1>10

LEMMA SeqFacts ==
    ASSUME NEW T, NEW q \in Seq(T)
    PROVE  /\ Len(q) \in Nat /\ DOMAIN q = 1 .. Len(q)
           /\ \A i \in 1 .. Len(q) : q[i] \in T
           /\ q = <<>> <=> Len(q) = 0
OBVIOUS

LEMMA TailFacts ==
    ASSUME NEW T, NEW q \in Seq(T), q # <<>>
    PROVE  /\ Tail(q) \in Seq(T) /\ Len(Tail(q)) = Len(q) - 1 /\ Len(q) - 1 \in Nat
           /\ \A i \in 1 .. Len(Tail(q)) : i + 1 \in 1 .. Len(q) /\ Tail(q)[i] = q[i + 1]
           /\ Head(q) = q[1] /\ Head(q) \in T /\ 1 \in 1 .. Len(q)
<1>1. Len(q) \in Nat /\ Len(q) # 0
  OBVIOUS
<1>2. Tail(q) \in Seq(T) /\ Len(Tail(q)) = Len(q) - 1
  BY <1>1
<1>3. \A i \in 1 .. Len(Tail(q)) : i + 1 \in 1 .. Len(q) /\ Tail(q)[i] = q[i + 1]
  BY <1>1, <1>2
<1>4. Head(q) = q[1] /\ q[1] \in T
  BY <1>1
<1> QED
  BY <1>1, <1>2, <1>3, <1>4

LEMMA ConcatFacts ==
    ASSUME NEW T, NEW q \in Seq(T), NEW r \in Seq(T)
    PROVE  /\ q \o r \in Seq(T) /\ Len(q \o r) = Len(q) + Len(r)
           /\ \A i \in 1 .. Len(q) : (q \o r)[i] = q[i]
           /\ \A i \in 1 .. Len(q \o r) :
                \/ i \in 1 .. Len(q) /\ (q \o r)[i] = q[i]
                \/ i > Len(q) /\ i - Len(q) \in 1 .. Len(r) /\ (q \o r)[i] = r[i - Len(q)]
OBVIOUS

LEMMA AppendFacts ==
    ASSUME NEW T, NEW q \in Seq(T), NEW e \in T
    PROVE  /\ Append(q, e) \in Seq(T) /\ Len(Append(q, e)) = Len(q) + 1
           /\ \A i \in 1 .. Len(q) : Append(q, e)[i] = q[i]
           /\ Append(q, e)[Len(q) + 1] = e
           /\ \A i \in 1 .. Len(Append(q, e)) :
                \/ i \in 1 .. Len(q) /\ Append(q, e)[i] = q[i]
                \/ i = Len(q) + 1 /\ Append(q, e)[i] = e
OBVIOUS

\* The first directory of a list.
LEMMA MinFacts ==
    ASSUME NEW S \in SUBSET Nat, S # {}
    PROVE  Min(S) \in S /\ \A x \in S : Min(S) <= x
<1>1. \E x \in S : \A y \in S : ~ (<<y, x>> \in OpToRel(<, Nat))
  BY NatLessThanWellFounded, WFMin, Zenon
<1>2. PICK x \in S : \A y \in S : ~ (y < x)
  BY <1>1 DEF OpToRel
<1>3. \A y \in S : x <= y
  BY <1>2
<1> QED
  BY <1>3 DEF Min

LEMMA SubSeqFacts ==
    ASSUME NEW T, NEW q \in Seq(T), NEW m \in 1 .. Len(q)
    PROVE  SubSeq(q, 1, m) \in Seq(T) /\ SubSeq(q, m + 1, Len(q)) \in Seq(T)
OBVIOUS

----------------------------------------------------------------------------
(* What the handlers of a transfer do: nothing that drives it on, a        *)
(* question, or one request that fits the state of the two computers       *)

Deletes == {"delete_builder", "delete_transfer"}

Silent(out) ==
    /\ \A i \in 1 .. Len(out.posts) : out.posts[i].at \in Deletes
    /\ \A i \in 1 .. Len(out.sigs) : out.sigs[i] = "finished"

Asks(out) ==
    /\ out.posts = <<>>
    /\ \E e \in ErrorTypes : out.sigs = <<e>> /\ ErrorFits(e, out.t)

Works(out, pk, dep, q) ==
    /\ out.sigs = <<>>
    /\ \E req \in Requests :
         /\ out.posts = << DoTask(req) >> /\ req.by = started
         /\ RequestFits(req, out.t, pk, dep) /\ Consented(req)
         /\ Follows(req) => q = <<>>

OutcomeTypes(out) ==
    /\ out.t \in Transfers /\ out.posts \in Seq(Events)
    /\ out.sigs \in Seq(ErrorTypes \union {"finished"})

Outcome(t, out, pk, dep, q) ==
    /\ OutcomeTypes(out) /\ out.t.alive = t.alive /\ Consents(out.t)
    /\ Silent(out) \/ Asks(out) \/ Works(out, pk, dep, q)

LEMMA OutFacts ==
    ASSUME NEW t, NEW posts, NEW sigs
    PROVE  Out(t, posts, sigs).t = t /\ Out(t, posts, sigs).posts = posts /\ Out(t, posts, sigs).sigs = sigs
BY DEF Out

LEMMA SilentOut ==
    ASSUME NEW t \in Transfers, Consents(t), NEW pk, NEW dep, NEW q
    PROVE  Outcome(t, Out(t, <<>>, <<>>), pk, dep, q)
<1> DEFINE out == Out(t, <<>>, <<>>)
<1>1. out.t = t /\ out.posts = <<>> /\ out.sigs = <<>>
  BY DEF Out
<1> HIDE DEF out
<1>2. OutcomeTypes(out) /\ Silent(out)
  BY <1>1 DEF OutcomeTypes, Silent
<1> QED
  BY <1>1, <1>2 DEF Outcome, out

LEMMA AskingOut ==
    ASSUME NEW t \in Transfers, Consents(t), NEW e \in ErrorTypes, ErrorFits(e, t), NEW pk, NEW dep, NEW q
    PROVE  Outcome(t, Out(t, <<>>, <<e>>), pk, dep, q)
<1> DEFINE out == Out(t, <<>>, <<e>>)
<1>1. out.t = t /\ out.posts = <<>> /\ out.sigs = <<e>>
  BY DEF Out
<1> HIDE DEF out
<1>2. OutcomeTypes(out) /\ Asks(out)
  BY <1>1 DEF OutcomeTypes, Asks
<1> QED
  BY <1>1, <1>2 DEF Outcome, out

LEMMA WorkingOut ==
    ASSUME NEW t \in Transfers, Consents(t), NEW req \in Requests, req.by = started, NEW pk, NEW dep, NEW q,
           RequestFits(req, t, pk, dep), Consented(req), Follows(req) => q = <<>>
    PROVE  Outcome(t, Out(t, << DoTask(req) >>, <<>>), pk, dep, q)
<1> DEFINE out == Out(t, << DoTask(req) >>, <<>>)
<1>1. out.t = t /\ out.posts = << DoTask(req) >> /\ out.sigs = <<>>
  BY DEF Out
<1>0. DoTask(req) \in Events
  BY EventsMade
<1> HIDE DEF out
<1>2. OutcomeTypes(out)
  BY <1>0, <1>1 DEF OutcomeTypes
<1>3. Works(out, pk, dep, q)
  BY <1>1 DEF Works
<1> QED
  BY <1>1, <1>2, <1>3 DEF Outcome, out

LEMMA FinishedOutcome ==
    ASSUME NEW t \in Transfers, Consents(t), NEW pk, NEW dep, NEW q
    PROVE  /\ Outcome(t, OnFinished(t), pk, dep, q) /\ Silent(OnFinished(t))
           /\ OnFinished(t).t.tasks = t.tasks /\ OnFinished(t).t.overwrite = t.overwrite
           /\ OnFinished(t).t.actions = t.actions /\ OnFinished(t).t.timer = t.timer
<1> DEFINE out == OnFinished(t)
           u == [t EXCEPT !.finished = TRUE]
<1>0. /\ Event("delete_transfer") \in Events /\ Event("delete_transfer").at = "delete_transfer"
  BY EventsMade
<1>1. /\ out.t = u /\ out.sigs = <<"finished">>
      /\ out.posts = <<>> \/ out.posts = << Event("delete_transfer") >>
  BY DEF OnFinished, Out
<1>2. /\ u \in Transfers /\ u.alive = t.alive /\ u.tasks = t.tasks /\ u.overwrite = t.overwrite
      /\ u.actions = t.actions /\ u.timer = t.timer
  BY DEF Transfers
<1> HIDE DEF out, u
<1>3. OutcomeTypes(out)
  <2>1. out.posts \in Seq(Events)
    <3>1. <<>> \in Seq(Events) /\ << Event("delete_transfer") >> \in Seq(Events)
      BY <1>0
    <3> QED
      BY <1>1, <3>1
  <2>2. out.sigs \in Seq(ErrorTypes \union {"finished"})
    BY <1>1
  <2> QED
    BY <1>1, <1>2, <2>1, <2>2 DEF OutcomeTypes
<1>4. Silent(out)
  BY <1>0, <1>1 DEF Silent, Deletes
<1>5. Consents(out.t)
  BY <1>1, <1>2 DEF Consents
<1> QED
  BY <1>1, <1>2, <1>3, <1>4, <1>5 DEF Outcome, out

LEMMA FrontOutcome ==
    ASSUME NEW t \in Transfers, started \in 1 .. MaxTransfers, NEW over \in BOOLEAN, t.tasks # <<>>,
           \A e \in ErrorTypes : t.actions[e] = "replace_all" =>
                e = "already_exists" /\ Files \subseteq granted,
           over /\ t.tasks[1] \in Files => t.tasks[1] \in granted,
           NEW pk, NEW dep, NEW q
    PROVE  Outcome(t, DoFrontTask(t, over), pk, dep, q)
<1> DEFINE u == [t EXCEPT !.overwrite = over]
<1>1. /\ u \in Transfers /\ u.alive = t.alive /\ u.tasks = t.tasks /\ u.overwrite = over
      /\ u.actions = t.actions
  BY DEF Transfers
<1>2. t.tasks \in Seq(Paths) /\ Head(t.tasks) = t.tasks[1] /\ t.tasks[1] \in Paths
  <2>1. t.tasks \in Seq(Paths)
    BY DEF Transfers
  <2> QED
    BY <2>1, TailFacts
<1>3. Consents(u)
  <2> HIDE DEF u
  <2> QED
    BY <1>1 DEF Consents
<1>4. PICK req \in Requests :
        /\ DoFrontTask(t, over) = Out(u, << DoTask(req) >>, <<>>) /\ req.by = started
        /\ \/ req.kind = "create_directory"
           \/ req.kind = "download" /\ t.tasks[1] \in Files /\ req.path = t.tasks[1]
  <2>1. CASE t.tasks[1] \in Directories
    <3>1. PICK req \in Requests : /\ CreateDirectoryTask(t.tasks[1]) = DoTask(req)
                                  /\ req.kind = "create_directory" /\ req.by = started
      BY <2>1, TasksMade
    <3> QED
      BY <1>2, <2>1, <3>1 DEF DoFrontTask
  <2>2. CASE t.tasks[1] \notin Directories
    <3>1. t.tasks[1] \in Files
      BY <1>2, <2>2, ConstantFacts
    <3>2. PICK req \in Requests : /\ DownloadTask(t.tasks[1]) = DoTask(req)
                                  /\ req.kind = "download" /\ req.path = t.tasks[1] /\ req.by = started
      BY <3>1, TasksMade
    <3> QED
      BY <1>2, <2>2, <3>1, <3>2 DEF DoFrontTask
  <2> QED
    BY <2>1, <2>2
<1> HIDE DEF u
<1>5. RequestFits(req, u, pk, dep) /\ Consented(req) /\ ~ Follows(req)
  BY <1>1, <1>4 DEF RequestFits, Consented, Follows
<1>6. Outcome(u, Out(u, << DoTask(req) >>, <<>>), pk, dep, q)
  BY <1>1, <1>3, <1>4, <1>5, WorkingOut
<1> QED
  BY <1>1, <1>4, <1>6 DEF Outcome

LEMMA NextOutcome ==
    ASSUME NEW t \in Transfers, started \in 1 .. MaxTransfers, Consents(t), NEW pk, NEW dep, NEW q
    PROVE  Outcome(t, DoNextTask(t), pk, dep, q)
<1>1. t.tasks \in Seq(Paths) /\ <<>> \in Seq(Paths)
  BY DEF Transfers
<1> DEFINE rest == IF t.canceled \/ t.tasks = <<>> THEN <<>> ELSE Tail(t.tasks)
<1>2. rest \in Seq(Paths)
  <2>1. CASE t.canceled \/ t.tasks = <<>>
    BY <1>1, <2>1
  <2>2. CASE ~ (t.canceled \/ t.tasks = <<>>)
    BY <1>1, <2>2, TailFacts
  <2> QED
    BY <2>1, <2>2
<1>3. CASE rest = <<>>
  <2> DEFINE u == [t EXCEPT !.tasks = <<>>, !.timer = FALSE]
  <2>1. DoNextTask(t) = OnFinished(u)
    BY <1>3 DEF DoNextTask
  <2>2. u \in Transfers /\ u.alive = t.alive /\ u.tasks = <<>> /\ u.actions = t.actions
    BY <1>1 DEF Transfers
  <2> HIDE DEF u
  <2>3. Consents(u)
    BY <2>2 DEF Consents
  <2>4. Outcome(u, OnFinished(u), pk, dep, q)
    BY <2>2, <2>3, FinishedOutcome
  <2> QED
    BY <2>1, <2>2, <2>4 DEF Outcome
<1>4. CASE rest # <<>>
  <2> DEFINE u == [t EXCEPT !.tasks = rest]
  <2>1. DoNextTask(t) = DoFrontTask(u, FALSE)
    BY <1>4 DEF DoNextTask
  <2> HIDE DEF rest
  <2>2. u \in Transfers /\ u.alive = t.alive /\ u.tasks = rest /\ u.actions = t.actions
    BY <1>2 DEF Transfers
  <2> HIDE DEF u
  <2>3. Outcome(u, DoFrontTask(u, FALSE), pk, dep, q)
    BY <1>4, <2>2, FrontOutcome DEF Consents
  <2> QED
    BY <2>1, <2>2, <2>3 DEF Outcome
<1> QED
  BY <1>3, <1>4

LEMMA SetActionOutcome ==
    ASSUME NEW t \in Transfers, started \in 1 .. MaxTransfers, Consents(t), NEW e \in ErrorTypes,
           NEW a \in AvailableActions(e), ErrorFits(e, t),
           a = "replace_all" => Files \subseteq granted,
           a = "replace" => t.tasks[1] \in granted,
           NEW pk, NEW dep, NEW q
    PROVE  Outcome(t, SetAction(t, e, a), pk, dep, q)
<1> DEFINE u == IF a \in {"skip_all", "replace_all"} THEN [t EXCEPT !.actions[e] = a] ELSE t
<1>0. /\ a \in Answers
      /\ a \in {"replace", "replace_all"} => e = "already_exists"
  BY DEF AvailableActions, Answers
<1>1. /\ u \in Transfers /\ u.alive = t.alive /\ u.tasks = t.tasks /\ u.overwrite = t.overwrite
      /\ \A x \in ErrorTypes : u.actions[x] = "replace_all" =>
            t.actions[x] = "replace_all" \/ (x = e /\ a = "replace_all")
  <2>1. CASE a \in {"skip_all", "replace_all"}
    <3>1. u = [t EXCEPT !.actions[e] = a]
      BY <2>1
    <3>2. [t.actions EXCEPT ![e] = a] \in [ErrorTypes -> {"ask", "skip_all", "replace_all"}]
      BY <2>1 DEF Transfers
    <3>3. /\ u \in Transfers /\ u.alive = t.alive /\ u.tasks = t.tasks /\ u.overwrite = t.overwrite
          /\ u.actions = [t.actions EXCEPT ![e] = a]
      BY <3>1, <3>2 DEF Transfers
    <3> HIDE DEF u
    <3>4. t.actions \in [ErrorTypes -> {"ask", "skip_all", "replace_all"}]
      BY DEF Transfers
    <3> QED
      BY <3>3, <3>4
  <2>2. CASE a \notin {"skip_all", "replace_all"}
    BY <2>2
  <2> QED
    BY <2>1, <2>2
<1>2. SetAction(t, e, a) = IF a = "abort" THEN OnFinished(u)
                           ELSE IF a \in {"replace", "replace_all"} THEN DoFrontTask(u, TRUE)
                           ELSE DoNextTask(u)
  BY <1>0 DEF SetAction, Answers
<1> HIDE DEF u
<1>3. /\ Consents(u)
      /\ \A x \in ErrorTypes : u.actions[x] = "replace_all" => x = "already_exists" /\ Files \subseteq granted
  BY <1>0, <1>1 DEF Consents
<1>4. Outcome(u, SetAction(t, e, a), pk, dep, q)
  <2>1. CASE a = "abort"
    BY <1>1, <1>2, <1>3, <2>1, FinishedOutcome
  <2>2. CASE a \in {"replace", "replace_all"}
    <3>1. u.tasks # <<>> /\ u.tasks[1] \in Files /\ u.tasks[1] \in granted
      BY <1>0, <1>1, <2>2 DEF ErrorFits
    <3>2. Outcome(u, DoFrontTask(u, TRUE), pk, dep, q)
      BY <1>1, <1>3, <3>1, FrontOutcome
    <3> QED
      BY <1>2, <2>2, <3>2
  <2>3. CASE a \notin {"abort", "replace", "replace_all"}
    BY <1>1, <1>2, <1>3, <2>3, NextOutcome
  <2> QED
    BY <2>1, <2>2, <2>3
<1> QED
  BY <1>1, <1>4 DEF Outcome

LEMMA ErrorOutcome ==
    ASSUME NEW t \in Transfers, started \in 1 .. MaxTransfers, Consents(t), NEW e \in ErrorTypes,
           ErrorFits(e, t), NEW pk, NEW dep, NEW q
    PROVE  Outcome(t, OnError(t, e), pk, dep, q)
<1>1. t.actions[e] \in {"ask", "skip_all", "replace_all"}
  BY DEF Transfers
<1>2. CASE t.actions[e] = "ask"
  BY <1>2, AskingOut DEF OnError
<1>3. CASE t.actions[e] = "replace_all"
  <2>1. t.actions[e] \in AvailableActions(e) /\ Files \subseteq granted
    BY <1>3 DEF Consents, AvailableActions
  <2>2. Outcome(t, SetAction(t, e, t.actions[e]), pk, dep, q)
    BY <1>3, <2>1, SetActionOutcome
  <2> QED
    BY <1>3, <2>2 DEF OnError
<1>4. CASE t.actions[e] = "skip_all" /\ e # "queue"
  <2>1. t.actions[e] \in AvailableActions(e)
    BY <1>4 DEF AvailableActions
  <2>2. Outcome(t, SetAction(t, e, t.actions[e]), pk, dep, q)
    BY <1>4, <2>1, SetActionOutcome
  <2> QED
    BY <1>4, <2>2 DEF OnError
<1>5. CASE t.actions[e] = "skip_all" /\ e = "queue"
  <2>1. [t EXCEPT !.actions[e] = t.actions[e]] = t
    BY DEF Transfers
  <2>2. OnError(t, e) = DoNextTask(t)
    BY <1>5, <2>1 DEF OnError, SetAction
  <2> QED
    BY <2>2, NextOutcome
<1> QED
  BY <1>1, <1>2, <1>3, <1>4, <1>5

LEMMA QueueOutcome ==
    ASSUME NEW t \in Transfers, started \in 1 .. MaxTransfers, Consents(t), NEW ok \in BOOLEAN,
           NEW pk, NEW dep, NEW q
    PROVE  Outcome(t, QueueFinished(t, ok), pk, dep, q)
<1> DEFINE u == [t EXCEPT !.builder = "none", !.pending = <<>>, !.queue = <<>>]
<1>1. /\ u \in Transfers /\ u.alive = t.alive /\ u.tasks = t.tasks /\ u.overwrite = t.overwrite
      /\ u.actions = t.actions
  <2>1. <<>> \in Seq(Paths)
    OBVIOUS
  <2> QED
    BY <2>1 DEF Transfers
<1>2. t.queue \in Seq(Paths)
  BY DEF Transfers
<1>3. CASE ~ ok
  <2>1. QueueFinished(t, ok) = OnError(u, "queue")
    BY <1>3 DEF QueueFinished
  <2> HIDE DEF u
  <2>2. Consents(u) /\ ErrorFits("queue", u) /\ "queue" \in ErrorTypes
    BY <1>1 DEF Consents, ErrorFits, ErrorTypes
  <2>3. Outcome(u, OnError(u, "queue"), pk, dep, q)
    BY <1>1, <2>2, ErrorOutcome
  <2> QED
    BY <1>1, <2>1, <2>3 DEF Outcome
<1>4. CASE ok /\ t.builder # "held"
  <2> DEFINE v == [u EXCEPT !.crashed = TRUE]
  <2>1. QueueFinished(t, ok) = Out(v, <<>>, <<>>)
    BY <1>4 DEF QueueFinished
  <2> HIDE DEF u
  <2>2. /\ v \in Transfers /\ v.alive = t.alive /\ v.tasks = t.tasks /\ v.overwrite = t.overwrite
        /\ v.actions = t.actions
    BY <1>1 DEF Transfers
  <2> HIDE DEF v
  <2>3. Consents(v)
    BY <2>2 DEF Consents
  <2> QED
    BY <2>1, <2>2, <2>3, SilentOut DEF Outcome
<1>5. CASE ok /\ t.builder = "held" /\ t.queue = <<>>
  <2>1. QueueFinished(t, ok) = OnFinished(u)
    BY <1>5 DEF QueueFinished
  <2> HIDE DEF u
  <2>2. Consents(u)
    BY <1>1 DEF Consents
  <2> QED
    BY <1>1, <2>1, <2>2, FinishedOutcome DEF Outcome
<1>6. CASE ok /\ t.builder = "held" /\ t.queue # <<>>
  <2> DEFINE v == [u EXCEPT !.tasks = t.queue]
  <2>1. QueueFinished(t, ok) = DoFrontTask(v, FALSE)
    BY <1>6 DEF QueueFinished
  <2> HIDE DEF u
  <2>2. v \in Transfers /\ v.alive = t.alive /\ v.tasks = t.queue /\ v.actions = t.actions
    BY <1>1, <1>2 DEF Transfers
  <2> HIDE DEF v
  <2>3. Outcome(v, DoFrontTask(v, FALSE), pk, dep, q)
    BY <1>6, <2>2, FrontOutcome DEF Consents
  <2> QED
    BY <2>1, <2>2, <2>3 DEF Outcome
<1> QED
  BY <1>3, <1>4, <1>5, <1>6

LEMMA PendingOutcome ==
    ASSUME NEW t \in Transfers, started \in 1 .. MaxTransfers, Consents(t),
           NEW pk, NEW dep, NEW q
    PROVE  Outcome(t, DoPendingTasks(t), pk, dep, q)
<1> DEFINE at == {i \in DOMAIN t.pending : t.pending[i] \in Directories}
<1>1. t.pending \in Seq(Paths) /\ t.queue \in Seq(Paths) /\ DOMAIN t.pending = 1 .. Len(t.pending)
  BY DEF Transfers
<1>2. CASE at = {}
  <2> DEFINE u == [t EXCEPT !.queue = @ \o t.pending]
  <2>1. DoPendingTasks(t) = QueueFinished(u, TRUE)
    BY <1>2 DEF DoPendingTasks
  <2>2. t.queue \o t.pending \in Seq(Paths)
    BY <1>1
  <2>3. /\ u \in Transfers /\ u.alive = t.alive /\ u.tasks = t.tasks /\ u.overwrite = t.overwrite
        /\ u.actions = t.actions
    BY <2>2 DEF Transfers
  <2> HIDE DEF u
  <2>4. Consents(u)
    BY <2>3 DEF Consents
  <2>5. Outcome(u, QueueFinished(u, TRUE), pk, dep, q)
    BY <2>3, <2>4, QueueOutcome
  <2> QED
    BY <2>1, <2>3, <2>5 DEF Outcome
<1>3. CASE at # {}
  <2> DEFINE m == Min(at)
             u == [t EXCEPT !.queue = @ \o SubSeq(t.pending, 1, m),
                            !.pending = SubSeq(@, m + 1, Len(@))]
  <2>1. DoPendingTasks(t) = Out(u, << FileListTask(t.pending[m]) >>, <<>>)
    BY <1>3 DEF DoPendingTasks
  <2>2. m \in at
    <3>1. at \in SUBSET Nat
      BY <1>1
    <3> QED
      BY <1>3, <3>1, MinFacts
  <2>3. m \in 1 .. Len(t.pending) /\ t.pending[m] \in Directories
    BY <1>1, <2>2
  <2> HIDE DEF m, at
  <2>4. SubSeq(t.pending, 1, m) \in Seq(Paths) /\ SubSeq(t.pending, m + 1, Len(t.pending)) \in Seq(Paths)
    BY <1>1, <2>3, SubSeqFacts
  <2>5. t.queue \o SubSeq(t.pending, 1, m) \in Seq(Paths)
    BY <1>1, <2>4, ConcatFacts
  <2>6. /\ u \in Transfers /\ u.alive = t.alive /\ u.tasks = t.tasks /\ u.overwrite = t.overwrite
        /\ u.actions = t.actions
    BY <2>4, <2>5 DEF Transfers
  <2> HIDE DEF u
  <2>7. Consents(u)
    BY <2>6 DEF Consents
  <2>8. PICK req \in Requests : /\ FileListTask(t.pending[m]) = DoTask(req)
                                /\ req.kind = "file_list" /\ req.by = started
    BY <2>3, TasksMade
  <2>9. RequestFits(req, u, pk, dep) /\ Consented(req) /\ ~ Follows(req)
    BY <2>8 DEF RequestFits, Consented, Follows
  <2>10. Outcome(u, Out(u, << DoTask(req) >>, <<>>), pk, dep, q)
    BY <2>6, <2>7, <2>8, <2>9, WorkingOut
  <2> QED
    BY <2>1, <2>6, <2>8, <2>10 DEF Outcome
<1> QED
  BY <1>2, <1>3

LEMMA ListOutcome ==
    ASSUME NEW t \in Transfers, started \in 1 .. MaxTransfers, Consents(t),
           NEW req \in Requests, req.kind = "file_list", NEW rep, NEW pk, NEW dep, NEW q
    PROVE  Outcome(t, ListReply(t, req, rep), pk, dep, q)
<1>1. CASE rep = Ok
  <2> DEFINE u == [t EXCEPT !.pending = @ \o Children[req.path]]
  <2>1. ListReply(t, req, rep) = DoPendingTasks(u)
    BY <1>1 DEF ListReply
  <2>2. t.pending \o Children[req.path] \in Seq(Paths)
    <3>1. t.pending \in Seq(Paths) /\ Children[req.path] \in Seq(Paths)
      BY RequestTypes, ConstantFacts DEF Transfers
    <3> QED
      BY <3>1, ConcatFacts
  <2>3. /\ u \in Transfers /\ u.alive = t.alive /\ u.tasks = t.tasks /\ u.overwrite = t.overwrite
        /\ u.actions = t.actions
    BY <2>2 DEF Transfers
  <2> HIDE DEF u
  <2>4. Consents(u)
    BY <2>3 DEF Consents
  <2>5. Outcome(u, DoPendingTasks(u), pk, dep, q)
    BY <2>3, <2>4, PendingOutcome
  <2> QED
    BY <2>1, <2>3, <2>5 DEF Outcome
<1>2. CASE rep # Ok
  BY <1>2, QueueOutcome DEF ListReply
<1> QED
  BY <1>1, <1>2

LEMMA SourceOutcome ==
    ASSUME NEW t \in Transfers, started \in 1 .. MaxTransfers, Consents(t), t.tasks # <<>>,
           NEW req \in Requests, req.kind \in {"download", "packet_request"}, NEW rep \in ReplyRecords,
           NEW pk, NEW dep, NEW dsk, NEW q, ReplyFits(req, rep, t, pk, dep, dsk),
           type = "downloader" \/ req.kind = "packet_request" => q = <<>>,
           type \in {"uploader", "downloader"}
    PROVE  Outcome(t, SourceReply(t, req, rep), pk, dep, q)
<1>0. /\ t.tasks[1] \in Files /\ t.overwrite \in BOOLEAN /\ rep.packet \in Seq(Packets)
      /\ Head(t.tasks) = t.tasks[1]
  <2>1. t.tasks \in Seq(Paths) /\ t.overwrite \in BOOLEAN
    BY DEF Transfers
  <2> QED
    BY <2>1, TailFacts DEF ReplyFits, ReplyRecords
<1>1. CASE req.kind = "download" /\ rep.code = "ok"
  <2>1. SourceReply(t, req, rep) = Out(t, << UploadTask(t.tasks[1], t.overwrite) >>, <<>>)
    BY <1>0, <1>1 DEF SourceReply
  <2>2. PICK r \in Requests : /\ UploadTask(t.tasks[1], t.overwrite) = DoTask(r) /\ r.kind = "upload"
                              /\ r.path = t.tasks[1] /\ r.overwrite = t.overwrite /\ r.by = started
    BY <1>0, TasksMade
  <2>3. pk = Reading(t.tasks[1], Size[t.tasks[1]])
    BY <1>1 DEF ReplyFits
  <2>4. RequestFits(r, t, pk, dep)
    BY <1>0, <2>2, <2>3 DEF RequestFits
  <2>5. Consented(r) /\ (Follows(r) => q = <<>>)
    BY <1>0, <2>2 DEF Consented, Consents, Follows
  <2>6. Outcome(t, Out(t, << DoTask(r) >>, <<>>), pk, dep, q)
    BY <2>2, <2>4, <2>5, WorkingOut
  <2> QED
    BY <2>1, <2>2, <2>6
<1>2. CASE req.kind = "packet_request" /\ rep.code = "ok"
  <2>0. rep.packet # <<>> /\ PacketGoes(rep.packet[1], t.tasks[1], pk, dep)
    BY <1>2 DEF ReplyFits
  <2>1. rep.packet[1] \in Packets
    BY <1>0, <2>0
  <2>2. SourceReply(t, req, rep) = Out(t, << PacketTask(rep.packet[1]) >>, <<>>)
    BY <1>2 DEF SourceReply
  <2>3. PICK r \in Requests : /\ PacketTask(rep.packet[1]) = DoTask(r) /\ r.kind = "packet"
                              /\ r.packet = rep.packet[1] /\ r.by = started
    BY <2>1, TasksMade
  <2>4. RequestFits(r, t, pk, dep)
    BY <1>0, <2>0, <2>3 DEF RequestFits
  <2>5. Consented(r) /\ (Follows(r) => q = <<>>)
    BY <1>2, <2>3 DEF Consented, Follows
  <2>6. Outcome(t, Out(t, << DoTask(r) >>, <<>>), pk, dep, q)
    BY <2>3, <2>4, <2>5, WorkingOut
  <2> QED
    BY <2>2, <2>3, <2>6
<1>3. CASE rep.code # "ok"
  <2>1. PICK e \in {"open_file", "read_file"} : SourceReply(t, req, rep) = OnError(t, e)
    BY <1>3 DEF SourceReply
  <2>2. e \in ErrorTypes /\ ErrorFits(e, t)
    BY <2>1 DEF ErrorTypes, ErrorFits
  <2> QED
    BY <2>1, <2>2, ErrorOutcome
<1> QED
  BY <1>1, <1>2, <1>3

LEMMA TargetOutcome ==
    ASSUME NEW t \in Transfers, started \in 1 .. MaxTransfers, Consents(t), t.tasks # <<>>,
           NEW req \in Requests, req.kind \in {"create_directory", "upload", "packet"},
           NEW rep \in ReplyRecords,
           NEW pk, NEW dep, NEW dsk, NEW q, ReplyFits(req, rep, t, pk, dep, dsk),
           req.kind # "create_directory" => q = <<>>
    PROVE  Outcome(t, TargetReply(t, req, rep), pk, dep, q)
<1>0. /\ t.canceled \in BOOLEAN
      /\ req.kind = "packet" => req.packet.last \in BOOLEAN
  BY RequestTypes DEF Transfers, Packets
<1>1. CASE req.kind = "create_directory"
  <2>1. CASE rep \in {Ok, Exists}
    <3>1. TargetReply(t, req, rep) = DoNextTask(t)
      BY <1>1, <2>1 DEF TargetReply
    <3> QED
      BY <3>1, NextOutcome
  <2>2. CASE rep \notin {Ok, Exists}
    <3>1. TargetReply(t, req, rep) = OnError(t, "create_directory")
      BY <1>1, <2>2 DEF TargetReply
    <3>2. "create_directory" \in ErrorTypes /\ ErrorFits("create_directory", t)
      BY DEF ErrorTypes, ErrorFits
    <3> QED
      BY <3>1, <3>2, ErrorOutcome
  <2> QED
    BY <2>1, <2>2
<1>2. ASSUME req.kind \in {"upload", "packet"}, rep.code = "ok", req.kind = "packet" => ~ req.packet.last
      PROVE  Outcome(t, TargetReply(t, req, rep), pk, dep, q)
  <2>1. PICK cancel \in BOOLEAN : TargetReply(t, req, rep) = Out(t, << PacketRequestTask(cancel) >>, <<>>)
    BY <1>0, <1>2 DEF TargetReply
  <2>2. PICK r \in Requests : /\ PacketRequestTask(cancel) = DoTask(r)
                              /\ r.kind = "packet_request" /\ r.by = started
    BY TasksMade
  <2>3. InStep(t.tasks[1], pk, dep) /\ t.tasks[1] \in Files
    BY <1>2 DEF ReplyFits
  <2>4. RequestFits(r, t, pk, dep)
    BY <2>2, <2>3 DEF RequestFits
  <2>5. Consented(r) /\ (Follows(r) => q = <<>>)
    BY <1>2, <2>2 DEF Consented
  <2>6. Outcome(t, Out(t, << DoTask(r) >>, <<>>), pk, dep, q)
    BY <2>2, <2>4, <2>5, WorkingOut
  <2> QED
    BY <2>1, <2>2, <2>6
<1>3. ASSUME req.kind = "packet", rep.code = "ok", req.packet.last
      PROVE  Outcome(t, TargetReply(t, req, rep), pk, dep, q)
  <2>1. TargetReply(t, req, rep) = DoNextTask(t)
    BY <1>3 DEF TargetReply
  <2> QED
    BY <2>1, NextOutcome
<1>4. ASSUME req.kind \in {"upload", "packet"}, rep.code # "ok"
      PROVE  Outcome(t, TargetReply(t, req, rep), pk, dep, q)
  <2>1. PICK e \in {"already_exists", "create_file", "write_file"} : TargetReply(t, req, rep) = OnError(t, e)
    BY <1>4 DEF TargetReply
  <2>2. e \in ErrorTypes /\ ErrorFits(e, t)
    BY <1>4, <2>1 DEF ErrorTypes, ErrorFits, ReplyFits
  <2> QED
    BY <2>1, <2>2, ErrorOutcome
<1> QED
  BY <1>0, <1>1, <1>2, <1>3, <1>4

\* FileTask::onReply
LEMMA ReplyOutcome ==
    ASSUME transfer \in Transfers, started \in 0 .. MaxTransfers, type \in {"uploader", "downloader"},
           Consents(transfer), NEW req \in Requests, NEW rep \in ReplyRecords,
           NEW pk, NEW dep, NEW dsk, NEW q,
           Live(req) => ReplyFits(req, rep, transfer, pk, dep, dsk),
           Live(req) /\ (Follows(req) \/ ~ IsLocal(req)) => q = <<>>
    PROVE  /\ Outcome(transfer, OnReply(req, rep), pk, dep, q)
           /\ ~ Live(req) => OnReply(req, rep) = Out(transfer, <<>>, <<>>)
<1>1. CASE ~ Heard(req)
  <2>1. OnReply(req, rep) = Out(transfer, <<>>, <<>>)
    BY <1>1 DEF OnReply
  <2> QED
    BY <2>1, SilentOut
<1>2. CASE Heard(req)
  <2>1. Live(req) /\ started \in 1 .. MaxTransfers
    BY <1>2, RequestTypes DEF Heard, Live
  <2>2. CASE req.kind = "file_list"
    <3>1. OnReply(req, rep) = ListReply(transfer, req, rep)
      BY <1>2, <2>2 DEF OnReply
    <3> QED
      BY <2>1, <2>2, <3>1, ListOutcome
  <2>3. CASE req.kind # "file_list" /\ transfer.tasks = <<>>
    <3>1. OnReply(req, rep) = Out(transfer, <<>>, <<>>)
      BY <1>2, <2>3 DEF OnReply
    <3> QED
      BY <2>1, <3>1, SilentOut
  <2>4. CASE req.kind \in {"download", "packet_request"} /\ transfer.tasks # <<>>
    <3>1. OnReply(req, rep) = SourceReply(transfer, req, rep)
      BY <1>2, <2>4 DEF OnReply, SourceKinds
    <3>2. type = "downloader" \/ req.kind = "packet_request" => q = <<>>
      BY <2>1, <2>4 DEF IsLocal, SourceKinds, Follows
    <3> QED
      BY <2>1, <2>4, <3>1, <3>2, SourceOutcome
  <2>5. CASE req.kind \in {"create_directory", "upload", "packet"} /\ transfer.tasks # <<>>
    <3>1. OnReply(req, rep) = TargetReply(transfer, req, rep)
      BY <1>2, <2>5 DEF OnReply, SourceKinds
    <3>2. req.kind # "create_directory" => q = <<>>
      BY <2>1, <2>5 DEF IsLocal, SourceKinds, Follows
    <3> QED
      BY <2>1, <2>5, <3>1, <3>2, TargetOutcome
  <2> QED
    BY <2>1, <2>2, <2>3, <2>4, <2>5, RequestTypes
<1> QED
  BY <1>1, <1>2

\* FileTransfer::stop
LEMMA StopOutcome ==
    ASSUME NEW t \in Transfers
    PROVE  /\ OutcomeTypes(StopTransfer(t)) /\ Silent(StopTransfer(t))
           /\ StopTransfer(t).t.alive = t.alive /\ StopTransfer(t).t.tasks = t.tasks
           /\ StopTransfer(t).t.overwrite = t.overwrite /\ StopTransfer(t).t.actions = t.actions
<1>1. CASE t.builder = "held"
  <2> DEFINE u == [t EXCEPT !.builder = "released"]
             v == [u EXCEPT !.finished = TRUE]
             posts == << Event("delete_builder") >> \o
                        (IF u.finished THEN <<>> ELSE << Event("delete_transfer") >>)
             out == [t |-> v, posts |-> posts, sigs |-> <<"finished">>]
  <2>1. StopTransfer(t) = out
    BY <1>1 DEF StopTransfer, OnFinished, Out
  <2>2. /\ v \in Transfers /\ v.alive = t.alive /\ v.tasks = t.tasks
        /\ v.overwrite = t.overwrite /\ v.actions = t.actions
    BY DEF Transfers
  <2>3. posts \in Seq(Events) /\ \A i \in 1 .. Len(posts) : posts[i].at \in Deletes
    <3>1. /\ Event("delete_builder") \in Events /\ Event("delete_builder").at = "delete_builder"
          /\ Event("delete_transfer") \in Events /\ Event("delete_transfer").at = "delete_transfer"
      BY EventsMade
    <3> DEFINE q == << Event("delete_builder") >>
               r == IF u.finished THEN <<>> ELSE << Event("delete_transfer") >>
    <3>2. q \in Seq(Events) /\ \A i \in 1 .. Len(q) : q[i].at \in Deletes
      BY <3>1 DEF Deletes
    <3>3. r \in Seq(Events) /\ \A i \in 1 .. Len(r) : r[i].at \in Deletes
      <4>1. CASE u.finished
        BY <4>1
      <4>2. CASE ~ u.finished
        BY <3>1, <4>2 DEF Deletes
      <4> QED
        BY <4>1, <4>2
    <3>4. posts = q \o r
      OBVIOUS
    <3> HIDE DEF posts, q, r
    <3> QED
      BY <3>2, <3>3, <3>4, ConcatFacts
  <2>4. out.t = v /\ out.posts = posts /\ out.sigs = <<"finished">>
    OBVIOUS
  <2> HIDE DEF v, posts, out
  <2>5. OutcomeTypes(out) /\ Silent(out)
    BY <2>2, <2>3, <2>4 DEF OutcomeTypes, Silent
  <2> QED
    BY <2>1, <2>2, <2>4, <2>5
<1>2. CASE t.builder # "held"
  <2> DEFINE u == [t EXCEPT !.canceled = TRUE, !.timer = TRUE]
  <2>1. StopTransfer(t) = Out(u, <<>>, <<>>)
    BY <1>2 DEF StopTransfer
  <2>2. /\ u \in Transfers /\ u.alive = t.alive /\ u.tasks = t.tasks
        /\ u.overwrite = t.overwrite /\ u.actions = t.actions
    BY DEF Transfers
  <2> HIDE DEF u
  <2> DEFINE out == Out(u, <<>>, <<>>)
  <2>3. out.t = u /\ out.posts = <<>> /\ out.sigs = <<>>
    BY DEF Out
  <2> HIDE DEF out
  <2>4. OutcomeTypes(out) /\ Silent(out)
    BY <2>2, <2>3 DEF OutcomeTypes, Silent
  <2> QED
    BY <2>1, <2>2, <2>3, <2>4 DEF out
<1> QED
  BY <1>1, <1>2

----------------------------------------------------------------------------
(* What serving a request does to the source and to the target             *)

HandlerTypes ==
    /\ faults \in 0 .. MaxFaults
    /\ packetizer \in Seq([path : Files, left : Nat]) /\ Len(packetizer) <= 1
    /\ depacketizer \in Seq([path : Files, size : Nat, left : Nat, linked : BOOLEAN])
    /\ Len(depacketizer) <= 1
    /\ disk \in [Files -> Seq(Seq(Files \X Nat))]
    /\ dirs \in SUBSET Directories

\* The depacketizer that was there is destroyed with its file open.
TargetDestroyed == depacketizer' = <<>> /\ disk' = Destroy(disk, depacketizer)

TargetCreated(req, rep) ==
    /\ req.kind = "upload" /\ rep = Ok
    /\ req.overwrite \/ disk[req.path] = Absent
    /\ CreateDepacketizer(req.path)

TargetWritten(req, rep) ==
    /\ req.kind = "packet" /\ rep = Ok /\ depacketizer # <<>>
    /\ req.packet.blocks # <<>> /\ Accepts(depacketizer[1], req.packet)
    /\ WriteData(depacketizer[1], req.packet)

\* The only packet of an empty file.
TargetEmpty(req, rep) ==
    /\ req.kind = "packet" /\ rep = Ok /\ depacketizer # <<>>
    /\ req.packet.blocks = <<>> /\ ~ IsCancelPacket(req.packet)
    /\ depacketizer' = <<>> /\ disk' = disk

LEMMA ServeTarget ==
    ASSUME NEW req \in Requests, NEW rep, DoRequest(req, rep)
    PROVE  /\ \/ UNCHANGED <<depacketizer, disk>>
              \/ TargetDestroyed
              \/ TargetCreated(req, rep)
              \/ TargetWritten(req, rep)
              \/ TargetEmpty(req, rep)
           /\ req.kind \in SourceKinds => UNCHANGED <<depacketizer, disk>>
           /\ req.kind \notin SourceKinds => UNCHANGED packetizer
<1>1. req.kind \in {"file_list", "create_directory", "download", "upload", "packet_request", "packet"}
  BY RequestTypes
<1>2. CASE req.kind \in {"file_list", "download", "packet_request"}
  BY <1>2 DEF DoRequest, DoFileList, DoDownload, DoPacketRequest, SourceKinds
<1>3. CASE req.kind = "create_directory"
  BY <1>3 DEF DoRequest, DoCreateDirectory, SourceKinds
<1>4. CASE req.kind = "upload"
  <2>1. DoUpload(req, rep)
    BY <1>4 DEF DoRequest
  <2> QED
    BY <1>4, <2>1 DEF DoUpload, SourceKinds, TargetCreated, TargetDestroyed
<1>5. CASE req.kind = "packet"
  <2>1. DoPacket(req, rep)
    BY <1>5 DEF DoRequest
  <2> QED
    BY <1>5, <2>1 DEF DoPacket, SourceKinds, TargetDestroyed, TargetWritten, TargetEmpty
<1> QED
  BY <1>1, <1>2, <1>3, <1>4, <1>5

LEMMA PacketTypes ==
    ASSUME NEW f \in Files, NEW left \in Nat, left <= Size[f]
    PROVE  /\ NextPacket([path |-> f, left |-> left]) \in Packets
           /\ CancelPacket \in Packets
<1>1. Size[f] \in Nat
  BY ConstantFacts
<1>2. CancelPacket \in Packets
  BY DEF CancelPacket, Packet, Packets
<1> DEFINE n == Size[f] - left + 1
           blocks == IF left = 0 THEN <<>> ELSE << Block(f, n) >>
<1>3. n \in Nat
  BY <1>1
<1> HIDE DEF n
<1>4. blocks \in Seq(Files \X Nat)
  BY <1>3 DEF Block
<1> HIDE DEF blocks
<1>5. [blocks |-> blocks, first |-> n = 1, last |-> left <= 1, size |-> Size[f]] \in Packets
  BY <1>1, <1>4 DEF Packets
<1> QED
  BY <1>2, <1>5 DEF NextPacket, Packet, n, blocks

LEMMA SingleFacts ==
    ASSUME NEW T, NEW q \in Seq(T), Len(q) <= 1, q # <<>>
    PROVE  Len(q) = 1 /\ q[1] \in T /\ q = << q[1] >>
<1>1. Len(q) \in Nat /\ Len(q) # 0
  BY SeqFacts
<1>2. Len(q) = 1
  BY <1>1
<1>3. q[1] \in T
  BY <1>2
<1> QED
  BY <1>2, <1>3

LEMMA SingleMade ==
    ASSUME NEW T, NEW e \in T
    PROVE  /\ << e >> \in Seq(T) /\ Len(<< e >>) = 1 /\ << e >>[1] = e /\ << e >> # <<>>
           /\ <<>> \in Seq(T) /\ Len(<<>>) = 0
OBVIOUS

\* The packetizer that is there, if there is one.
LEMMA SourceFacts ==
    ASSUME HandlerTypes, SourceInv, packetizer # <<>>
    PROVE  \E f \in Files, left \in Nat :
             packetizer = Reading(f, left) /\ left <= Size[f] /\ packetizer[1] = [path |-> f, left |-> left]
<1>0. packetizer \in Seq([path : Files, left : Nat]) /\ Len(packetizer) <= 1
  BY DEF HandlerTypes
<1>1. packetizer[1] \in [path : Files, left : Nat]
  BY <1>0, SingleFacts
<1>2. packetizer = << packetizer[1] >>
  BY <1>0, SingleFacts
<1>3. PICK f \in Files, left \in Nat : packetizer[1] = [path |-> f, left |-> left]
  BY <1>1
<1> QED
  BY <1>2, <1>3 DEF SourceInv, Reading

LEMMA TargetFacts ==
    ASSUME HandlerTypes, depacketizer # <<>>
    PROVE  /\ depacketizer[1] \in [path : Files, size : Nat, left : Nat, linked : BOOLEAN]
           /\ depacketizer = << depacketizer[1] >>
<1> DEFINE T == [path : Files, size : Nat, left : Nat, linked : BOOLEAN]
<1>0. depacketizer \in Seq(T) /\ Len(depacketizer) <= 1
  BY DEF HandlerTypes
<1> HIDE DEF T
<1>1. depacketizer[1] \in T /\ depacketizer = << depacketizer[1] >>
  BY <1>0, SingleFacts
<1> QED
  BY <1>1 DEF T

LEMMA ReplyTypes ==
    ASSUME HandlerTypes, SourceInv, NEW rep \in Replies
    PROVE  rep \in ReplyRecords
<1>1. <<>> \in Seq(Packets) /\ << CancelPacket >> \in Seq(Packets)
  BY DEF CancelPacket, Packet, Packets
<1>2. ASSUME NEW p \in ToSet(packetizer)
      PROVE  << NextPacket(p) >> \in Seq(Packets)
  <2>1. packetizer # <<>>
    BY <1>2 DEF ToSet, HandlerTypes
  <2>2. PICK f \in Files, left \in Nat :
             packetizer = Reading(f, left) /\ left <= Size[f] /\ packetizer[1] = [path |-> f, left |-> left]
    BY <2>1, SourceFacts
  <2>3. p = [path |-> f, left |-> left]
    BY <1>2, <2>2 DEF ToSet, Reading
  <2>4. NextPacket(p) \in Packets
    BY <2>2, <2>3, PacketTypes
  <2> QED
    BY <2>4
<1>3. \/ rep \in {Ok, Exists, Failed, ReplyOf("ok", << CancelPacket >>)}
      \/ \E p \in ToSet(packetizer) : rep = ReplyOf("ok", << NextPacket(p) >>)
  BY DEF Replies, CancelPacket
<1>4. \A code \in {"ok", "exists", "error"}, q \in Seq(Packets) : ReplyOf(code, q) \in ReplyRecords
  BY DEF ReplyRecords, ReplyOf
<1> QED
  BY <1>1, <1>2, <1>3, <1>4 DEF Ok, Exists, Failed

LEMMA ServeSource ==
    ASSUME HandlerTypes, SourceInv, NEW req \in Requests, NEW rep, DoRequest(req, rep)
    PROVE  /\ packetizer' \in Seq([path : Files, left : Nat]) /\ Len(packetizer') <= 1 /\ SourceInv'
           /\ faults' \in 0 .. MaxFaults /\ dirs' \in SUBSET Directories
<1>1. /\ req.kind \in {"file_list", "create_directory", "download", "upload", "packet_request", "packet"}
      /\ req.kind \in {"file_list", "create_directory"} => req.path \in Directories
      /\ req.kind \in {"download", "upload"} => req.path \in Files
  BY RequestTypes
<1>2. \/ packetizer' = packetizer \/ packetizer' = <<>>
      \/ req.kind = "download" /\ packetizer' = Reading(req.path, Size[req.path])
      \/ /\ packetizer # <<>> /\ ~ (packetizer[1].left <= 1)
         /\ packetizer' = << [packetizer[1] EXCEPT !.left = @ - 1] >>
  BY <1>1 DEF DoRequest, DoFileList, DoDownload, DoPacketRequest, DoCreateDirectory, DoUpload, DoPacket,
              Reading
<1>3. /\ faults' = faults \/ Fault
      /\ dirs' = dirs \/ (dirs' = dirs \union {req.path} /\ req.kind = "create_directory")
  BY <1>1 DEF DoRequest, DoFileList, DoDownload, DoPacketRequest, DoCreateDirectory, DoUpload, DoPacket
<1>4. faults' \in 0 .. MaxFaults /\ dirs' \in SUBSET Directories
  BY <1>1, <1>3, ConstantFacts DEF Fault, HandlerTypes
<1>5. ASSUME packetizer' = <<>> \/ \E f \in Files, n \in Nat : packetizer' = Reading(f, n) /\ n <= Size[f]
      PROVE  packetizer' \in Seq([path : Files, left : Nat]) /\ Len(packetizer') <= 1 /\ SourceInv'
  <2>1. CASE packetizer' = <<>>
    BY <2>1 DEF SourceInv
  <2>2. ASSUME NEW f \in Files, NEW n \in Nat, packetizer' = Reading(f, n), n <= Size[f]
        PROVE  packetizer' \in Seq([path : Files, left : Nat]) /\ Len(packetizer') <= 1 /\ SourceInv'
    <3> DEFINE e == [path |-> f, left |-> n]
               T == [path : Files, left : Nat]
    <3>1. e \in T /\ e.path = f /\ e.left = n
      OBVIOUS
    <3>2. packetizer' = << e >>
      BY <2>2 DEF Reading
    <3> HIDE DEF e, T
    <3>3. packetizer' \in Seq(T) /\ Len(packetizer') = 1 /\ packetizer'[1] = e
      BY <3>1, <3>2, SingleMade
    <3> QED
      BY <2>2, <3>1, <3>3 DEF SourceInv, T
  <2> QED
    BY <1>5, <2>1, <2>2
<1>6. CASE packetizer' = packetizer
  BY <1>4, <1>6 DEF SourceInv, HandlerTypes
<1>7. CASE packetizer' = <<>>
  BY <1>4, <1>5, <1>7
<1>8. CASE req.kind = "download" /\ packetizer' = Reading(req.path, Size[req.path])
  <2>1. Size[req.path] \in Nat /\ req.path \in Files /\ Size[req.path] <= Size[req.path]
    BY <1>1, <1>8, ConstantFacts
  <2> QED
    BY <1>4, <1>5, <1>8, <2>1
<1>9. CASE /\ packetizer # <<>> /\ ~ (packetizer[1].left <= 1)
           /\ packetizer' = << [packetizer[1] EXCEPT !.left = @ - 1] >>
  <2>1. PICK f \in Files, left \in Nat :
             packetizer = Reading(f, left) /\ left <= Size[f] /\ packetizer[1] = [path |-> f, left |-> left]
    BY <1>9, SourceFacts
  <2>2. left - 1 \in Nat /\ left - 1 <= Size[f]
    BY <1>9, <2>1, ConstantFacts
  <2>3. [packetizer[1] EXCEPT !.left = @ - 1] = [path |-> f, left |-> left - 1]
    BY <2>1
  <2> QED
    BY <1>4, <1>5, <1>9, <2>2, <2>3 DEF Reading
<1> QED
  BY <1>2, <1>4, <1>6, <1>7, <1>8, <1>9

\* A file that was there before is neither absent, nor one that was copied.
LEMMA OldFacts ==
    ASSUME NEW f \in Files, NEW k \in Nat
    PROVE  /\ Old(f) # Absent /\ Old(f) # << Blocks(f, k) >>
           /\ Blocks(f, k) \in Seq(Files \X Nat) /\ Len(Blocks(f, k)) = k
           /\ Blocks(f, 0) = <<>>
           /\ Append(Blocks(f, k), Block(f, k + 1)) = Blocks(f, k + 1)
           /\ Content(f) = << Blocks(f, Size[f]) >>
<1>1. Blocks(f, k) \in Seq(Files \X Nat) /\ Len(Blocks(f, k)) = k
  BY DEF Blocks, Block
<1>2. Blocks(f, 0) = <<>>
  BY DEF Blocks
<1>3. Content(f) = << Blocks(f, Size[f]) >>
  BY DEF Content, Blocks
<1>4. Old(f) # Absent
  BY DEF Old, Absent
<1>5. Old(f) # << Blocks(f, k) >>
  <2>1. SUFFICES ASSUME Old(f) = << Blocks(f, k) >> PROVE FALSE
    OBVIOUS
  <2>2. << Block(f, 0) >> = Blocks(f, k)
    BY <2>1 DEF Old
  <2>3. k = 1
    BY <1>1, <2>2
  <2>4. Blocks(f, k)[1] = <<f, 1>> /\ << Block(f, 0) >>[1] = <<f, 0>>
    BY <2>3 DEF Blocks, Block
  <2> QED
    BY <2>2, <2>4
<1>6. Append(Blocks(f, k), Block(f, k + 1)) = Blocks(f, k + 1)
  <2> DEFINE a == Append(Blocks(f, k), Block(f, k + 1))
             b == Blocks(f, k + 1)
  <2>1. Block(f, k + 1) \in Files \X Nat
    BY DEF Block
  <2>2. /\ a \in Seq(Files \X Nat) /\ Len(a) = k + 1 /\ a[k + 1] = Block(f, k + 1)
        /\ \A i \in 1 .. k : a[i] = Blocks(f, k)[i]
    BY <1>1, <2>1, AppendFacts
  <2>3. b \in Seq(Files \X Nat) /\ Len(b) = k + 1
    BY DEF Blocks, Block
  <2>4. /\ \A i \in 1 .. k : Blocks(f, k)[i] = Block(f, i)
        /\ \A i \in 1 .. k + 1 : b[i] = Block(f, i)
    BY DEF Blocks
  <2> HIDE DEF a, b
  <2>5. \A i \in 1 .. k + 1 : a[i] = b[i]
    BY <2>2, <2>4
  <2>6. a = b
    BY <2>2, <2>3, <2>5
  <2> QED
    BY <2>6 DEF a, b
<1> QED
  BY <1>1, <1>2, <1>3, <1>4, <1>5, <1>6

\* What the target is left with: its types, the invariants of its files, the confirmed
\* files |kept|, and the old files the user did not give up.
TargetGood(kept) ==
    /\ depacketizer' \in Seq([path : Files, size : Nat, left : Nat, linked : BOOLEAN])
    /\ Len(depacketizer') <= 1
    /\ disk' \in [Files -> Seq(Seq(Files \X Nat))]
    /\ DepacketizerInv' /\ NoTruncatedFile'
    /\ Kept(kept, disk', depacketizer')
    /\ \A f \in Files : disk[f] = Old(f) /\ disk'[f] # Old(f) => f \in granted

\* The file of the depacketizer, as it is now.
LEMMA OpenFile ==
    ASSUME HandlerTypes, DepacketizerInv, depacketizer # <<>>
    PROVE  /\ depacketizer[1].path \in Files
           /\ Written(depacketizer[1]) \in Nat
           /\ disk[depacketizer[1].path] # Old(depacketizer[1].path)
           /\ Written(depacketizer[1]) = 0 \/ Written(depacketizer[1]) < Size[depacketizer[1].path]
           /\ Written(depacketizer[1]) = 0 <=> depacketizer[1].size = 0
           /\ Written(depacketizer[1]) # 0 =>
                /\ depacketizer[1].size = Size[depacketizer[1].path]
                /\ depacketizer[1].left = Size[depacketizer[1].path] - Written(depacketizer[1])
<1> DEFINE d == depacketizer[1]
<1>1. d.path \in Files /\ d.size \in Nat /\ d.left \in Nat /\ d.linked \in BOOLEAN
  BY TargetFacts
<1>2. /\ \/ d.size = 0 /\ d.left = 0
         \/ d.size = Size[d.path] /\ 1 <= d.left /\ d.left < d.size
      /\ disk[d.path] = IF d.linked THEN << Blocks(d.path, Written(d)) >> ELSE Absent
  BY DEF DepacketizerInv
<1>3. Size[d.path] \in Nat
  BY <1>1, ConstantFacts
<1> HIDE DEF d
<1>4. /\ Written(d) \in Nat
      /\ Written(d) = 0 \/ Written(d) < Size[d.path]
      /\ Written(d) = 0 <=> d.size = 0
      /\ Written(d) # 0 => d.size = Size[d.path] /\ d.left = Size[d.path] - Written(d)
  BY <1>1, <1>2, <1>3 DEF Written
<1>5. disk[d.path] # Old(d.path)
  BY <1>1, <1>2, <1>4, OldFacts
<1> QED
  BY <1>1, <1>4, <1>5 DEF d

LEMMA DestroyGood ==
    ASSUME HandlerTypes, DepacketizerInv, NoTruncatedFile, NEW kept \in SUBSET Files,
           Kept(kept, disk, depacketizer), TargetDestroyed
    PROVE  TargetGood(kept)
<1>0. disk \in [Files -> Seq(Seq(Files \X Nat))] /\ Absent \in Seq(Seq(Files \X Nat))
  BY DEF HandlerTypes, Absent
<1>1. depacketizer' = <<>> /\ disk' = Destroy(disk, depacketizer)
  BY DEF TargetDestroyed
<1>2. CASE depacketizer = <<>>
  <2>1. disk' = disk /\ depacketizer' = depacketizer
    BY <1>1, <1>2 DEF Destroy
  <2> QED
    BY <1>0, <1>1, <1>2, <2>1 DEF TargetGood, NoTruncatedFile, DepacketizerInv, Kept, HandlerTypes
<1>3. CASE depacketizer # <<>>
  <2> DEFINE p == depacketizer[1].path
  <2>1. p \in Files /\ disk[p] # Old(p)
    BY <1>3, OpenFile
  <2>2. disk' = [disk EXCEPT ![p] = Absent]
    BY <1>1, <1>3 DEF Destroy
  <2>3. \A f \in Files : f # p => disk[f] \in {Absent, Old(f), Content(f)}
    BY <1>3 DEF NoTruncatedFile
  <2>4. \A f \in kept : f # p /\ (~ RemovesOpenFiles => disk[f] = Content(f))
    BY <1>3 DEF Kept
  <2> HIDE DEF p
  <2>5. disk' \in [Files -> Seq(Seq(Files \X Nat))] /\ disk'[p] = Absent /\ \A f \in Files : f # p => disk'[f] = disk[f]
    BY <1>0, <2>1, <2>2
  <2>6. NoTruncatedFile'
    BY <1>1, <2>3, <2>5 DEF NoTruncatedFile
  <2>7. Kept(kept, disk', depacketizer')
    BY <1>1, <2>4, <2>5 DEF Kept
  <2>8. \A f \in Files : disk[f] = Old(f) /\ disk'[f] # Old(f) => f \in granted
    BY <2>1, <2>5
  <2>9. DepacketizerInv'
    BY <1>1 DEF DepacketizerInv
  <2> QED
    BY <1>1, <2>5, <2>6, <2>7, <2>8, <2>9 DEF TargetGood
<1> QED
  BY <1>2, <1>3

\* The depacketizer of a file that was just opened, and of one that goes on.
Opened(f, linked) == << [path |-> f, size |-> 0, left |-> 0, linked |-> linked] >>

LEMMA CreateGood ==
    ASSUME HandlerTypes, DepacketizerInv, NoTruncatedFile, NEW kept \in SUBSET Files,
           Kept(kept, disk, depacketizer), NEW req \in Requests, NEW rep, Consented(req),
           TargetCreated(req, rep)
    PROVE  /\ TargetGood(kept \ {req.path})
           /\ \E linked \in BOOLEAN : depacketizer' = Opened(req.path, linked)
<1> DEFINE f == req.path
           opened == [disk EXCEPT ![f] = << <<>> >>]
           stale == depacketizer # <<>> /\ depacketizer[1].path = f
           linked == ~ (stale /\ RemovesOpenFiles)
<1>0. /\ disk \in [Files -> Seq(Seq(Files \X Nat))] /\ Absent \in Seq(Seq(Files \X Nat))
      /\ << <<>> >> \in Seq(Seq(Files \X Nat))
  BY DEF HandlerTypes, Absent
<1>1. /\ disk' = IF stale /\ ~ RemovesOpenFiles THEN opened ELSE Destroy(opened, depacketizer)
      /\ depacketizer' = Opened(f, linked)
      /\ req.kind = "upload" /\ (req.overwrite \/ disk[f] = Absent)
  BY DEF TargetCreated, CreateDepacketizer, Opened
<1>2. f \in Files /\ linked \in BOOLEAN /\ (~ RemovesOpenFiles => linked)
  BY <1>1, RequestTypes
<1>3. depacketizer # <<>> => /\ depacketizer[1].path \in Files
                             /\ disk[depacketizer[1].path] # Old(depacketizer[1].path)
  BY OpenFile
<1>4. /\ disk' \in [Files -> Seq(Seq(Files \X Nat))]
      /\ disk'[f] = IF linked THEN << <<>> >> ELSE Absent
      /\ \A g \in Files : g # f =>
            \/ disk'[g] = disk[g] /\ (depacketizer # <<>> => depacketizer[1].path # g)
            \/ disk'[g] = Absent /\ depacketizer # <<>> /\ depacketizer[1].path = g
  <2>1. opened \in [Files -> Seq(Seq(Files \X Nat))] /\ opened[f] = << <<>> >>
        /\ \A g \in Files : g # f => opened[g] = disk[g]
    BY <1>0, <1>2
  <2> HIDE DEF opened, f
  <2>2. CASE depacketizer = <<>>
    BY <1>1, <2>1, <2>2 DEF Destroy
  <2>3. CASE stale /\ ~ RemovesOpenFiles
    BY <1>1, <2>1, <2>3
  <2>4. CASE depacketizer # <<>> /\ ~ (stale /\ ~ RemovesOpenFiles)
    <3> DEFINE p == depacketizer[1].path
    <3>1. disk' = [opened EXCEPT ![p] = Absent] /\ p \in Files
      BY <1>1, <1>3, <2>4 DEF Destroy
    <3>2. linked <=> p # f
      BY <2>4
    <3> HIDE DEF p, linked, stale
    <3>3. /\ disk' \in [Files -> Seq(Seq(Files \X Nat))] /\ disk'[p] = Absent
          /\ \A g \in Files : g # p => disk'[g] = opened[g]
      BY <1>0, <2>1, <3>1
    <3> QED
      BY <1>2, <2>1, <2>4, <3>1, <3>2, <3>3 DEF p
  <2> QED
    BY <2>2, <2>3, <2>4
<1>5. \A g \in Files : disk[g] \in {Absent, Old(g), Content(g)} \/
                       (depacketizer # <<>> /\ depacketizer[1].path = g)
  BY DEF NoTruncatedFile
<1>6. \A g \in kept : /\ ~ RemovesOpenFiles => disk[g] = Content(g)
                      /\ depacketizer # <<>> => depacketizer[1].path # g
  BY DEF Kept
<1>7. req.overwrite => f \in granted
  BY <1>1 DEF Consented
<1> HIDE DEF f, linked, stale, opened
<1>8. /\ depacketizer' \in Seq([path : Files, size : Nat, left : Nat, linked : BOOLEAN])
      /\ Len(depacketizer') = 1 /\ depacketizer'[1].path = f /\ depacketizer'[1].linked = linked
      /\ depacketizer'[1].size = 0 /\ depacketizer'[1].left = 0
  BY <1>1, <1>2 DEF Opened
<1>9. DepacketizerInv'
  <2>1. Written(depacketizer'[1]) = 0
    BY <1>8 DEF Written
  <2>2. Blocks(f, 0) = <<>>
    BY <1>2, OldFacts
  <2> QED
    BY <1>2, <1>4, <1>8, <2>1, <2>2 DEF DepacketizerInv
<1>10. depacketizer' # <<>>
  BY <1>1 DEF Opened
<1>11. NoTruncatedFile'
  BY <1>4, <1>5, <1>8, <1>10 DEF NoTruncatedFile
<1>12. Kept(kept \ {f}, disk', depacketizer')
  BY <1>4, <1>6, <1>8, <1>10 DEF Kept
<1>13. \A g \in Files : disk[g] = Old(g) /\ disk'[g] # Old(g) => g \in granted
  <2>1. Old(f) # Absent
    BY <1>2, OldFacts
  <2> QED
    BY <1>1, <1>3, <1>4, <1>7, <2>1
<1> QED
  BY <1>1, <1>2, <1>4, <1>8, <1>9, <1>11, <1>12, <1>13 DEF TargetGood, f

\* The packet that fits, block by block.
LEMMA FittingPacket ==
    ASSUME HandlerTypes, DepacketizerInv, depacketizer # <<>>, NEW packet,
           packet = PacketAt(depacketizer[1].path, Written(depacketizer[1]))
    PROVE  /\ packet.first <=> (Written(depacketizer[1]) = 0)
           /\ packet.last <=> (Written(depacketizer[1]) + 1 >= Size[depacketizer[1].path])
           /\ packet.size = Size[depacketizer[1].path]
           /\ packet.blocks = <<>> <=> Size[depacketizer[1].path] = 0
           /\ packet.blocks # <<>> =>
                packet.blocks[1] = Block(depacketizer[1].path, Written(depacketizer[1]) + 1)
           /\ Size[depacketizer[1].path] \in Nat
<1> DEFINE f == depacketizer[1].path
           k == Written(depacketizer[1])
<1>1. f \in Files /\ k \in Nat /\ Size[f] \in Nat
  BY OpenFile, ConstantFacts
<1>2. /\ (packet.first <=> k = 0) /\ (packet.last <=> k + 1 >= Size[f]) /\ packet.size = Size[f]
      /\ packet.blocks = IF Size[f] = 0 THEN <<>> ELSE << Block(f, k + 1) >>
  BY DEF PacketAt, Packet
<1> HIDE DEF f, k
<1>3. << Block(f, k + 1) >> # <<>> /\ << Block(f, k + 1) >>[1] = Block(f, k + 1)
  OBVIOUS
<1> QED
  BY <1>1, <1>2, <1>3 DEF f, k

\* A block that fits is written behind the others; the last one completes the file.
LEMMA WriteGood ==
    ASSUME HandlerTypes, DepacketizerInv, NoTruncatedFile, NEW kept \in SUBSET Files,
           Kept(kept, disk, depacketizer), NEW req \in Requests, NEW rep,
           PacketFits(req.packet, depacketizer), TargetWritten(req, rep)
    PROVE  /\ TargetGood(kept)
           /\ req.packet.last => depacketizer' = <<>>
           /\ req.packet.last /\ ~ RemovesOpenFiles =>
                disk'[depacketizer[1].path] = Content(depacketizer[1].path)
           /\ ~ req.packet.last =>
                /\ depacketizer' # <<>> /\ depacketizer'[1].path = depacketizer[1].path
                /\ Written(depacketizer'[1]) = Written(depacketizer[1]) + 1
<1> DEFINE d == depacketizer[1]
           packet == req.packet
           f == d.path
           k == Written(d)
           size == IF packet.first THEN packet.size ELSE d.size
           left == (IF packet.first THEN packet.size ELSE d.left) - 1
<1>0. disk \in [Files -> Seq(Seq(Files \X Nat))] /\ Absent \in Seq(Seq(Files \X Nat))
  BY DEF HandlerTypes, Absent
<1>1. depacketizer # <<>> /\ packet.blocks # <<>>
  BY DEF TargetWritten
<1>2. /\ d \in [path : Files, size : Nat, left : Nat, linked : BOOLEAN]
      /\ f \in Files /\ d.size \in Nat /\ d.left \in Nat /\ d.linked \in BOOLEAN
      /\ Size[f] \in Nat
  BY <1>1, TargetFacts, ConstantFacts
<1>3. /\ k \in Nat /\ disk[f] # Old(f) /\ (k = 0 \/ k < Size[f]) /\ (k = 0 <=> d.size = 0)
      /\ k # 0 => d.size = Size[f] /\ d.left = Size[f] - k
  BY <1>1, OpenFile
<1>4. packet = PacketAt(f, k)
  <2>1. CancelPacket.blocks = <<>>
    BY DEF CancelPacket, Packet
  <2> QED
    BY <1>1, <2>1 DEF PacketFits
<1>5. /\ (packet.first <=> k = 0) /\ (packet.last <=> k + 1 >= Size[f]) /\ packet.size = Size[f]
      /\ Size[f] # 0 /\ packet.blocks[1] = Block(f, k + 1)
  BY <1>1, <1>4, FittingPacket
<1>6. /\ disk[f] = IF d.linked THEN << Blocks(f, k) >> ELSE Absent
      /\ ~ RemovesOpenFiles => d.linked
  BY <1>1 DEF DepacketizerInv
<1>7. /\ disk' = IF d.linked THEN [disk EXCEPT ![f] = << Append(@[1], packet.blocks[1]) >>] ELSE disk
      /\ depacketizer' = IF packet.last THEN <<>> ELSE << [d EXCEPT !.size = size, !.left = left] >>
  BY DEF TargetWritten, WriteData
<1>8. size = Size[f] /\ left = Size[f] - k - 1
  BY <1>2, <1>3, <1>5
<1>9. \A g \in Files : g # f => disk[g] \in {Absent, Old(g), Content(g)}
  BY <1>1 DEF NoTruncatedFile
<1>10. \A g \in kept : (~ RemovesOpenFiles => disk[g] = Content(g)) /\ g # f
  BY <1>1 DEF Kept
<1>11. /\ depacketizer' = <<>> \/ depacketizer' = << [d EXCEPT !.size = Size[f], !.left = Size[f] - k - 1] >>
       /\ packet.last => depacketizer' = <<>>
       /\ ~ packet.last => depacketizer' = << [d EXCEPT !.size = Size[f], !.left = Size[f] - k - 1] >>
  BY <1>7, <1>8
<1>12. /\ disk' \in [Files -> Seq(Seq(Files \X Nat))]
       /\ disk'[f] = IF d.linked THEN << Blocks(f, k + 1) >> ELSE Absent
       /\ \A g \in Files : g # f => disk'[g] = disk[g]
  <2>1. CASE d.linked
    <3>1. disk[f][1] = Blocks(f, k)
      BY <1>6, <2>1
    <3>2. Append(disk[f][1], packet.blocks[1]) = Blocks(f, k + 1)
      BY <1>2, <1>3, <1>5, <3>1, OldFacts
    <3>3. disk' = [disk EXCEPT ![f] = << Blocks(f, k + 1) >>]
      BY <1>7, <2>1, <3>2
    <3>4. Blocks(f, k + 1) \in Seq(Files \X Nat)
      <4>1. k + 1 \in Nat
        BY <1>3
      <4> QED
        BY <1>2, <4>1, OldFacts
    <3>5. << Blocks(f, k + 1) >> \in Seq(Seq(Files \X Nat))
      BY <3>4, SingleMade
    <3> HIDE DEF f, k
    <3> QED
      BY <1>0, <1>2, <2>1, <3>3, <3>5
  <2>2. CASE ~ d.linked
    BY <1>0, <1>6, <1>7, <2>2
  <2> QED
    BY <2>1, <2>2
<1> HIDE DEF f, k, size, left, packet
<1>13. ASSUME packet.last
       PROVE  TargetGood(kept) /\ (~ RemovesOpenFiles => disk'[f] = Content(f))
  <2>1. k + 1 = Size[f]
    BY <1>2, <1>3, <1>5, <1>13
  <2>2. Content(f) = << Blocks(f, k + 1) >>
    BY <1>2, <1>3, <2>1, OldFacts
  <2>3. disk'[f] \in {Absent, Content(f)} /\ (~ RemovesOpenFiles => disk'[f] = Content(f))
    BY <1>2, <1>6, <1>12, <2>2
  <2>4. NoTruncatedFile'
    BY <1>9, <1>12, <2>3 DEF NoTruncatedFile
  <2>5. Kept(kept, disk', depacketizer')
    BY <1>10, <1>11, <1>12, <1>13 DEF Kept
  <2>6. DepacketizerInv' /\ depacketizer' \in Seq([path : Files, size : Nat, left : Nat, linked : BOOLEAN])
        /\ Len(depacketizer') <= 1
    BY <1>11, <1>13 DEF DepacketizerInv
  <2>7. \A g \in Files : disk[g] = Old(g) /\ disk'[g] # Old(g) => g \in granted
    BY <1>3, <1>12
  <2> QED
    BY <1>12, <2>3, <2>4, <2>5, <2>6, <2>7 DEF TargetGood
<1>14. ASSUME ~ packet.last
       PROVE  /\ TargetGood(kept) /\ depacketizer' # <<>> /\ depacketizer'[1].path = f
              /\ Written(depacketizer'[1]) = k + 1
  <2> DEFINE e == [d EXCEPT !.size = Size[f], !.left = Size[f] - k - 1]
             T == [path : Files, size : Nat, left : Nat, linked : BOOLEAN]
  <2>1. Size[f] - k - 1 \in Nat /\ 1 <= Size[f] - k - 1 /\ Size[f] - k - 1 < Size[f]
    BY <1>2, <1>3, <1>5, <1>14
  <2>2. /\ e \in T /\ e.path = f /\ e.size = Size[f] /\ e.left = Size[f] - k - 1
        /\ e.linked = d.linked
    BY <1>2, <2>1 DEF f
  <2>3. depacketizer' = << e >>
    BY <1>11, <1>14
  <2> HIDE DEF e, T
  <2>4. /\ depacketizer' \in Seq(T) /\ Len(depacketizer') = 1 /\ depacketizer'[1] = e
        /\ depacketizer' # <<>>
    BY <2>2, <2>3, SingleMade
  <2>5. Written(e) = k + 1
    BY <1>2, <1>3, <1>5, <2>2 DEF Written
  <2>6. DepacketizerInv'
    BY <1>6, <1>12, <2>1, <2>2, <2>4, <2>5 DEF DepacketizerInv
  <2>7. NoTruncatedFile'
    BY <1>9, <1>12, <2>2, <2>4 DEF NoTruncatedFile
  <2>8. Kept(kept, disk', depacketizer')
    BY <1>10, <1>12, <2>2, <2>4 DEF Kept
  <2>9. \A g \in Files : disk[g] = Old(g) /\ disk'[g] # Old(g) => g \in granted
    BY <1>3, <1>12
  <2> QED
    BY <1>12, <2>2, <2>4, <2>5, <2>6, <2>7, <2>8, <2>9 DEF TargetGood, T
<1> QED
  BY <1>11, <1>13, <1>14 DEF f, k, packet

LEMMA EmptyGood ==
    ASSUME HandlerTypes, DepacketizerInv, NoTruncatedFile, NEW kept \in SUBSET Files,
           Kept(kept, disk, depacketizer), NEW req \in Requests, NEW rep,
           PacketFits(req.packet, depacketizer), TargetEmpty(req, rep)
    PROVE  /\ TargetGood(kept) /\ depacketizer' = <<>> /\ req.packet.last
           /\ ~ RemovesOpenFiles => disk'[depacketizer[1].path] = Content(depacketizer[1].path)
<1> DEFINE d == depacketizer[1]
           f == d.path
           k == Written(d)
<1>1. /\ depacketizer # <<>> /\ req.packet.blocks = <<>> /\ ~ IsCancelPacket(req.packet)
      /\ depacketizer' = <<>> /\ disk' = disk
  BY DEF TargetEmpty
<1>2. IsCancelPacket(CancelPacket)
  BY DEF IsCancelPacket, CancelPacket, Packet
<1>3. req.packet = PacketAt(f, k)
  BY <1>1, <1>2 DEF PacketFits
<1>4. /\ Size[f] = 0 /\ (req.packet.last <=> k + 1 >= Size[f])
  BY <1>1, <1>3, FittingPacket
<1>5. f \in Files /\ k = 0 /\ d.linked \in BOOLEAN
  BY <1>1, <1>4, OpenFile, TargetFacts
<1>6. /\ disk[f] = IF d.linked THEN << Blocks(f, k) >> ELSE Absent
      /\ ~ RemovesOpenFiles => d.linked
  BY <1>1 DEF DepacketizerInv
<1>7. Content(f) = << Blocks(f, k) >>
  BY <1>4, <1>5, OldFacts
<1>8. disk'[f] \in {Absent, Content(f)} /\ (~ RemovesOpenFiles => disk'[f] = Content(f))
  BY <1>1, <1>5, <1>6, <1>7
<1>9. \A g \in Files : g # f => disk[g] \in {Absent, Old(g), Content(g)}
  BY <1>1 DEF NoTruncatedFile
<1> HIDE DEF f, k
<1>10. NoTruncatedFile'
  BY <1>1, <1>8, <1>9 DEF NoTruncatedFile
<1>11. Kept(kept, disk', depacketizer')
  BY <1>1 DEF Kept
<1>12. DepacketizerInv' /\ depacketizer' \in Seq([path : Files, size : Nat, left : Nat, linked : BOOLEAN])
        /\ Len(depacketizer') <= 1
  BY <1>1 DEF DepacketizerInv
<1>13. disk' \in [Files -> Seq(Seq(Files \X Nat))]
  BY <1>1 DEF HandlerTypes
<1>14. req.packet.last
  BY <1>4, <1>5
<1> QED
  BY <1>1, <1>8, <1>10, <1>11, <1>12, <1>13, <1>14 DEF TargetGood, f

LEMMA KeptSubset ==
    ASSUME NEW kept, NEW fewer \in SUBSET kept, NEW dsk, NEW dep, Kept(kept, dsk, dep)
    PROVE  Kept(fewer, dsk, dep)
BY DEF Kept

\* FileRequestHandler::doRequest, whatever the request is.
LEMMA ServeGood ==
    ASSUME HandlerTypes, SourceInv, DepacketizerInv, NoTruncatedFile, CopiedInv,
           copied \in SUBSET Files, NEW req \in Requests, NEW rep, Consented(req),
           req.kind = "packet" => PacketFits(req.packet, depacketizer), DoRequest(req, rep)
    PROVE  HandlerTypes' /\ SourceInv' /\ TargetGood(copied \ Forget(req, rep))
<1> DEFINE kept == copied \ Forget(req, rep)
<1>1. Kept(copied, disk, depacketizer)
  BY DEF CopiedInv
<1>2. kept \in SUBSET Files /\ kept \in SUBSET copied
  OBVIOUS
<1>3. TargetGood(kept)
  <2>1. CASE UNCHANGED <<depacketizer, disk>>
    <3>1. Kept(kept, disk, depacketizer)
      BY <1>1, <1>2, KeptSubset
    <3> HIDE DEF kept
    <3>2. Kept(kept, disk', depacketizer')
      BY <2>1, <3>1
    <3>3. DepacketizerInv'
      BY <2>1 DEF DepacketizerInv
    <3>4. NoTruncatedFile'
      BY <2>1 DEF NoTruncatedFile
    <3> QED
      BY <2>1, <3>2, <3>3, <3>4 DEF TargetGood, HandlerTypes
  <2>2. CASE TargetDestroyed
    <3>1. Kept(kept, disk, depacketizer)
      BY <1>1, <1>2, KeptSubset
    <3> HIDE DEF kept
    <3> QED
      BY <1>2, <2>2, <3>1, DestroyGood
  <2>3. CASE TargetCreated(req, rep)
    <3>1. TargetGood(copied \ {req.path})
      BY <1>1, <2>3, CreateGood
    <3>2. Forget(req, rep) = {req.path}
      BY <2>3 DEF TargetCreated, Forget
    <3> QED
      BY <3>1, <3>2
  <2>4. CASE TargetWritten(req, rep)
    <3>1. Kept(kept, disk, depacketizer) /\ PacketFits(req.packet, depacketizer)
      BY <1>1, <1>2, <2>4, KeptSubset DEF TargetWritten
    <3> HIDE DEF kept
    <3> QED
      BY <1>2, <2>4, <3>1, WriteGood
  <2>5. CASE TargetEmpty(req, rep)
    <3>1. Kept(kept, disk, depacketizer) /\ PacketFits(req.packet, depacketizer)
      BY <1>1, <1>2, <2>5, KeptSubset DEF TargetEmpty
    <3> HIDE DEF kept
    <3> QED
      BY <1>2, <2>5, <3>1, EmptyGood
  <2> QED
    BY <2>1, <2>2, <2>3, <2>4, <2>5, ServeTarget
<1>4. /\ packetizer' \in Seq([path : Files, left : Nat]) /\ Len(packetizer') <= 1 /\ SourceInv'
      /\ faults' \in 0 .. MaxFaults /\ dirs' \in SUBSET Directories
  BY ServeSource
<1> QED
  BY <1>3, <1>4 DEF TargetGood, HandlerTypes

\* The packet that the source reads is the next one for the target.
LEMMA ReadPacket ==
    ASSUME HandlerTypes, SourceInv, DepacketizerInv, NEW f \in Files, InStep(f, packetizer, depacketizer)
    PROVE  /\ packetizer # <<>> /\ depacketizer # <<>> /\ depacketizer[1].path = f
           /\ NextPacket(packetizer[1]) = PacketAt(f, Written(depacketizer[1]))
           /\ ~ (packetizer[1].left <= 1) =>
                << [packetizer[1] EXCEPT !.left = @ - 1] >>
                    = Reading(f, Size[f] - Written(depacketizer[1]) - 1)
           /\ NextPacket(packetizer[1]).last <=> packetizer[1].left <= 1
<1> DEFINE k == Written(depacketizer[1])
           p == packetizer[1]
<1>1. depacketizer # <<>> /\ depacketizer[1].path = f /\ packetizer = Reading(f, Size[f] - k)
  BY DEF InStep
<1>2. k \in Nat /\ Size[f] \in Nat /\ (k = 0 \/ k < Size[f])
  BY <1>1, OpenFile, ConstantFacts
<1>3. p = [path |-> f, left |-> Size[f] - k] /\ packetizer # <<>>
  BY <1>1 DEF Reading
<1> HIDE DEF k, p
<1>4. p.path = f /\ p.left = Size[f] - k
  BY <1>3
<1>5. Size[f] - p.left + 1 = k + 1
  BY <1>2, <1>4
<1>6. /\ (p.left = 0) = (Size[f] = 0) /\ (k + 1 = 1) = (k = 0) /\ (p.left <= 1) = (k + 1 >= Size[f])
  BY <1>2, <1>4
<1>7. NextPacket(p) = Packet(IF Size[f] = 0 THEN <<>> ELSE << Block(f, k + 1) >>, k = 0, k + 1 >= Size[f], Size[f])
  <2>1. NextPacket(p) = Packet(IF p.left = 0 THEN <<>> ELSE << Block(f, k + 1) >>, k + 1 = 1, p.left <= 1, Size[f])
    BY <1>4, <1>5 DEF NextPacket
  <2> QED
    BY <1>6, <2>1, Zenon
<1>8. NextPacket(p) = PacketAt(f, k)
  BY <1>7 DEF PacketAt
<1>9. NextPacket(p).last <=> p.left <= 1
  BY DEF NextPacket, Packet
<1>10. ~ (p.left <= 1) => [p EXCEPT !.left = @ - 1] = [path |-> f, left |-> Size[f] - k - 1]
  BY <1>2, <1>3
<1> QED
  BY <1>1, <1>3, <1>8, <1>9, <1>10 DEF Reading, k, p

LEMMA ReplyCodes ==
    /\ Ok.code = "ok" /\ Exists.code = "exists" /\ Failed.code = "error"
    /\ \A q : ReplyOf("ok", q).code = "ok" /\ ReplyOf("ok", q).packet = q
    /\ Ok # Exists /\ Ok # Failed
<1>1. /\ Ok.code = "ok" /\ Exists.code = "exists" /\ Failed.code = "error"
      /\ \A q : ReplyOf("ok", q).code = "ok" /\ ReplyOf("ok", q).packet = q
  BY DEF Ok, Exists, Failed, ReplyOf
<1> QED
  BY <1>1

\* A request that fits the two computers is answered by a reply that does.
LEMMA ServeLive ==
    ASSUME HandlerTypes, SourceInv, DepacketizerInv, NoTruncatedFile, CopiedInv,
           copied \in SUBSET Files, NEW req \in Requests, NEW rep, Consented(req),
           NEW t, RequestFits(req, t, packetizer, depacketizer), DoRequest(req, rep)
    PROVE  /\ ReplyFits(req, rep, t, packetizer', depacketizer', disk')
           /\ req.kind = "packet" => PacketFits(req.packet, depacketizer)
<1> DEFINE f == t.tasks[1]
<1>1. CASE req.kind \in {"file_list", "create_directory"}
  BY <1>1 DEF ReplyFits
<1>2. CASE req.kind = "download"
  <2>1. t.tasks # <<>> /\ f \in Files /\ req.path = f
    BY <1>2 DEF RequestFits
  <2>2. rep.code = "ok" => packetizer' = Reading(f, Size[f])
    BY <1>2, <2>1, ReplyCodes DEF DoRequest, DoDownload, Reading
  <2> QED
    BY <1>2, <2>1, <2>2 DEF ReplyFits
<1>3. CASE req.kind = "upload"
  <2>1. t.tasks # <<>> /\ f \in Files /\ req.path = f /\ packetizer = Reading(f, Size[f])
    BY <1>3 DEF RequestFits
  <2>2. ASSUME rep.code = "ok"
        PROVE  InStep(f, packetizer', depacketizer')
    <3>1. DoUpload(req, rep)
      BY <1>3 DEF DoRequest
    <3>2. TargetCreated(req, rep) /\ packetizer' = packetizer
      BY <1>3, <2>2, <3>1, ReplyCodes DEF DoUpload, TargetCreated
    <3>3. Kept(copied, disk, depacketizer)
      BY DEF CopiedInv
    <3>4. PICK linked \in BOOLEAN : depacketizer' = Opened(f, linked)
      BY <2>1, <3>2, <3>3, CreateGood
    <3>5. /\ depacketizer' # <<>> /\ depacketizer'[1].path = f /\ depacketizer'[1].size = 0
      BY <3>4 DEF Opened
    <3>6. Written(depacketizer'[1]) = 0
      BY <3>5 DEF Written
    <3>7. Size[f] - 0 = Size[f]
      BY <2>1, ConstantFacts
    <3> QED
      BY <2>1, <3>2, <3>5, <3>6, <3>7 DEF InStep
  <2> QED
    BY <1>3, <2>1, <2>2 DEF ReplyFits
<1>4. CASE req.kind = "packet_request"
  <2>1. t.tasks # <<>> /\ f \in Files /\ InStep(f, packetizer, depacketizer)
    BY <1>4 DEF RequestFits
  <2> DEFINE k == Written(depacketizer[1])
  <2>2. /\ packetizer # <<>> /\ depacketizer # <<>> /\ depacketizer[1].path = f
        /\ NextPacket(packetizer[1]) = PacketAt(f, k)
        /\ ~ (packetizer[1].left <= 1) =>
             << [packetizer[1] EXCEPT !.left = @ - 1] >> = Reading(f, Size[f] - k - 1)
        /\ NextPacket(packetizer[1]).last <=> packetizer[1].left <= 1
    BY <2>1, ReadPacket
  <2>3. DoPacketRequest(req, rep)
    BY <1>4 DEF DoRequest
  <2>4. depacketizer' = depacketizer
    BY <2>3 DEF DoPacketRequest
  <2>5. ASSUME rep.code = "ok"
        PROVE  rep.packet # <<>> /\ PacketGoes(rep.packet[1], f, packetizer', depacketizer')
    <3>1. \/ rep = ReplyOf("ok", << CancelPacket >>)
          \/ /\ rep = ReplyOf("ok", << NextPacket(packetizer[1]) >>)
             /\ packetizer' = IF packetizer[1].left <= 1 THEN <<>>
                              ELSE << [packetizer[1] EXCEPT !.left = @ - 1] >>
      BY <2>2, <2>3, <2>5, ReplyCodes DEF DoPacketRequest, CancelPacket
    <3>2. CASE rep = ReplyOf("ok", << CancelPacket >>)
      <4>1. rep.packet = << CancelPacket >>
        BY <3>2, ReplyCodes
      <4> QED
        BY <4>1 DEF PacketGoes
    <3>3. CASE /\ rep = ReplyOf("ok", << NextPacket(packetizer[1]) >>)
               /\ packetizer' = IF packetizer[1].left <= 1 THEN <<>>
                                ELSE << [packetizer[1] EXCEPT !.left = @ - 1] >>
      <4>1. rep.packet = << NextPacket(packetizer[1]) >>
        BY <3>3, ReplyCodes
      <4>2. rep.packet # <<>> /\ rep.packet[1] = NextPacket(packetizer[1])
        BY <4>1
      <4>3. ~ rep.packet[1].last => packetizer' = Reading(f, Size[f] - k - 1)
        BY <2>2, <3>3, <4>2
      <4> QED
        BY <2>2, <2>4, <4>2, <4>3 DEF PacketGoes
    <3> QED
      BY <3>1, <3>2, <3>3
  <2> QED
    BY <1>4, <2>1, <2>5 DEF ReplyFits
<1>5. CASE req.kind = "packet"
  <2>1. t.tasks # <<>> /\ f \in Files /\ PacketGoes(req.packet, f, packetizer, depacketizer)
    BY <1>5 DEF RequestFits
  <2>2. PacketFits(req.packet, depacketizer)
    BY <2>1 DEF PacketGoes, PacketFits
  <2>3. DoPacket(req, rep)
    BY <1>5 DEF DoRequest
  <2>4. Kept(copied, disk, depacketizer)
    BY DEF CopiedInv
  <2>5. ASSUME rep.code = "ok"
        PROVE  /\ ~ req.packet.last => InStep(f, packetizer', depacketizer')
               /\ req.packet.last =>
                  /\ depacketizer' = <<>>
                  /\ ~ RemovesOpenFiles /\ ~ IsCancelPacket(req.packet) => disk'[f] = Content(f)
    <3>1. /\ packetizer' = packetizer /\ depacketizer # <<>>
          /\ \/ TargetWritten(req, rep) \/ TargetEmpty(req, rep)
             \/ IsCancelPacket(req.packet) /\ req.packet.blocks = <<>> /\ depacketizer' = <<>>
      BY <1>5, <2>3, <2>5, ReplyCodes DEF DoPacket, TargetWritten, TargetEmpty
    <3>2. CASE TargetWritten(req, rep)
      <4>1. /\ req.packet.last => depacketizer' = <<>>
            /\ req.packet.last /\ ~ RemovesOpenFiles =>
                 disk'[depacketizer[1].path] = Content(depacketizer[1].path)
            /\ ~ req.packet.last =>
                 /\ depacketizer' # <<>> /\ depacketizer'[1].path = depacketizer[1].path
                 /\ Written(depacketizer'[1]) = Written(depacketizer[1]) + 1
        BY <2>2, <2>4, <3>2, WriteGood
      <4>2. req.packet # CancelPacket
        BY <3>2 DEF CancelPacket, Packet, TargetWritten
      <4>3. /\ depacketizer[1].path = f
            /\ ~ req.packet.last => packetizer = Reading(f, Size[f] - Written(depacketizer[1]) - 1)
        BY <2>1, <4>2 DEF PacketGoes
      <4>4. Size[f] - Written(depacketizer[1]) - 1 = Size[f] - (Written(depacketizer[1]) + 1)
        <5>1. Written(depacketizer[1]) \in Nat /\ Size[f] \in Nat
          BY <2>1, <3>1, OpenFile, ConstantFacts
        <5> QED
          BY <5>1
      <4>5. ~ req.packet.last => InStep(f, packetizer', depacketizer')
        BY <3>1, <4>1, <4>3, <4>4 DEF InStep
      <4> QED
        BY <4>1, <4>3, <4>5
    <3>3. CASE TargetEmpty(req, rep)
      <4>1. /\ depacketizer' = <<>> /\ req.packet.last
            /\ ~ RemovesOpenFiles => disk'[depacketizer[1].path] = Content(depacketizer[1].path)
        BY <2>2, <2>4, <3>3, EmptyGood
      <4>2. req.packet # CancelPacket
        BY <3>3 DEF CancelPacket, Packet, TargetEmpty, IsCancelPacket
      <4>3. depacketizer[1].path = f
        BY <2>1, <4>2 DEF PacketGoes
      <4> QED
        BY <4>1, <4>3
    <3>4. CASE IsCancelPacket(req.packet) /\ req.packet.blocks = <<>> /\ depacketizer' = <<>>
      <4>1. req.packet = CancelPacket
        <5>1. SUFFICES ASSUME depacketizer # <<>>, depacketizer[1].path = f,
                              req.packet = PacketAt(f, Written(depacketizer[1]))
                       PROVE  FALSE
          BY <2>1 DEF PacketGoes
        <5>2. Size[f] = 0 /\ (req.packet.first <=> Written(depacketizer[1]) = 0)
          BY <3>4, <5>1, FittingPacket
        <5>3. Written(depacketizer[1]) = 0 \/ Written(depacketizer[1]) < Size[f]
          BY <5>1, OpenFile
        <5>4. Written(depacketizer[1]) \in Nat
          BY <5>1, OpenFile
        <5> QED
          BY <3>4, <5>2, <5>3, <5>4 DEF IsCancelPacket
      <4>2. req.packet.last
        BY <4>1 DEF CancelPacket, Packet
      <4> QED
        BY <3>4, <4>2
    <3> QED
      BY <3>1, <3>2, <3>3, <3>4
  <2> QED
    BY <1>5, <2>1, <2>2, <2>5 DEF ReplyFits
<1>6. \/ req.kind \in {"file_list", "create_directory"} \/ req.kind = "download" \/ req.kind = "upload"
      \/ req.kind = "packet_request" \/ req.kind = "packet"
  BY RequestTypes
<1> QED
  BY <1>1, <1>2, <1>3, <1>4, <1>5, <1>6

----------------------------------------------------------------------------
(* A step that consumes what drove the transfer                            *)

\* Events that drive nothing on.
Quiet == {"stop", "reply"} \union Deletes

Begins(out) == out.posts = << Event("start") >> /\ out.sigs = <<>>

\* The driver is gone, |ev| is what is left of the events, and the handler's outcome
\* comes behind them.
Settled(out, ev) ==
    /\ ev \in Seq(Events) /\ \A i \in 1 .. Len(ev) : ev[i].at \in Quiet
    /\ transfer' = out.t /\ events' = ev \o out.posts /\ signals' = signals \o out.sigs
    /\ OutcomeTypes(out) /\ out.t.alive /\ Consents(out.t)
    /\ Silent(out) \/ Asks(out) \/ Works(out, packetizer', depacketizer', remote_queue') \/ Begins(out)
    /\ signals \in Seq(ErrorTypes \union {"finished"})
    /\ \A i \in 1 .. Len(signals) : signals[i] = "finished"
    /\ window.prompt = "none"
    /\ remote_queue' \in Seq(Requests)
    /\ \A i \in 1 .. Len(remote_queue') : remote_queue'[i].by # started
    /\ UNCHANGED <<type, started, window, granted>>
    /\ started \in 1 .. MaxTransfers

LEMMA SettledSignals ==
    ASSUME NEW out, NEW ev, Settled(out, ev)
    PROVE  /\ signals' \in Seq(ErrorTypes \union {"finished"})
           /\ Silent(out) \/ out.sigs = <<>> => \A i \in 1 .. Len(signals') : signals'[i] = "finished"
           /\ Asks(out) => \A i \in 1 .. Len(signals') :
                 signals'[i] = "finished" \/ (i = Len(signals') /\ ErrorFits(signals'[i], out.t))
<1> DEFINE T == ErrorTypes \union {"finished"}
<1>1. /\ signals \in Seq(T) /\ out.sigs \in Seq(T) /\ signals' = signals \o out.sigs
      /\ \A i \in 1 .. Len(signals) : signals[i] = "finished"
  BY DEF Settled, OutcomeTypes
<1> HIDE DEF T
<1>2. /\ signals' \in Seq(T) /\ Len(signals') = Len(signals) + Len(out.sigs)
      /\ \A i \in 1 .. Len(signals') :
            \/ i \in 1 .. Len(signals) /\ signals'[i] = signals[i]
            \/ i > Len(signals) /\ i - Len(signals) \in 1 .. Len(out.sigs)
               /\ signals'[i] = out.sigs[i - Len(signals)]
  BY <1>1, ConcatFacts
<1>3. ASSUME Silent(out) \/ out.sigs = <<>>
      PROVE  \A i \in 1 .. Len(signals') : signals'[i] = "finished"
  <2>1. \A i \in 1 .. Len(out.sigs) : out.sigs[i] = "finished"
    BY <1>3 DEF Silent
  <2> QED
    BY <1>1, <1>2, <2>1
<1>4. ASSUME Asks(out)
      PROVE  \A i \in 1 .. Len(signals') :
                 signals'[i] = "finished" \/ (i = Len(signals') /\ ErrorFits(signals'[i], out.t))
  <2>1. PICK e \in ErrorTypes : out.sigs = <<e>> /\ ErrorFits(e, out.t)
    BY <1>4 DEF Asks
  <2>2. Len(out.sigs) = 1 /\ out.sigs[1] = e /\ Len(signals) \in Nat
    BY <1>1, <2>1
  <2>3. \A i \in 1 .. Len(signals') :
           \/ i \in 1 .. Len(signals) /\ signals'[i] = signals[i]
           \/ i = Len(signals') /\ signals'[i] = e
    BY <1>2, <2>2
  <2> QED
    BY <1>1, <2>1, <2>3
<1> QED
  BY <1>2, <1>3, <1>4 DEF T

LEMMA SettledEvents ==
    ASSUME NEW out, NEW ev, Settled(out, ev)
    PROVE  /\ events' \in Seq(Events)
           /\ \A i \in 1 .. Len(events') : events'[i].at = "reply" => i \in 1 .. Len(ev) /\ events'[i] = ev[i]
           /\ Silent(out) \/ Asks(out) => \A i \in 1 .. Len(events') : events'[i].at \in Quiet
           /\ Works(out, packetizer', depacketizer', remote_queue') =>
                \E req \in Requests :
                  /\ \A i \in 1 .. Len(events') :
                       \/ events'[i].at \in Quiet
                       \/ i = Len(events') /\ events'[i].at = "task" /\ events'[i].request = req
                  /\ req.by = started /\ Consented(req)
                  /\ RequestFits(req, out.t, packetizer', depacketizer')
                  /\ Follows(req) => remote_queue' = <<>>
           /\ Begins(out) => \A i \in 1 .. Len(events') :
                events'[i].at \in Quiet \/ (i = Len(events') /\ events'[i].at = "start")
<1>1. /\ ev \in Seq(Events) /\ out.posts \in Seq(Events) /\ events' = ev \o out.posts
      /\ \A i \in 1 .. Len(ev) : ev[i].at \in Quiet
      /\ Silent(out) \/ Asks(out) \/ Works(out, packetizer', depacketizer', remote_queue') \/ Begins(out)
  BY DEF Settled, OutcomeTypes
<1>2. /\ events' \in Seq(Events) /\ Len(events') = Len(ev) + Len(out.posts)
      /\ \A i \in 1 .. Len(events') :
            \/ i \in 1 .. Len(ev) /\ events'[i] = ev[i]
            \/ i > Len(ev) /\ i - Len(ev) \in 1 .. Len(out.posts) /\ events'[i] = out.posts[i - Len(ev)]
  BY <1>1, ConcatFacts
<1>3. ASSUME Silent(out) \/ Asks(out)
      PROVE  /\ \A i \in 1 .. Len(events') : events'[i].at \in Quiet
             /\ \A i \in 1 .. Len(events') : events'[i].at = "reply" => i \in 1 .. Len(ev) /\ events'[i] = ev[i]
  <2>1. \A i \in 1 .. Len(out.posts) : out.posts[i].at \in Deletes
    BY <1>3 DEF Silent, Asks
  <2> QED
    BY <1>1, <1>2, <2>1 DEF Quiet, Deletes
<1>4. ASSUME NEW e \in Events, out.posts = << e >>
      PROVE  \A i \in 1 .. Len(events') :
               \/ i \in 1 .. Len(ev) /\ events'[i] = ev[i]
               \/ i = Len(events') /\ events'[i] = e
  <2>1. Len(out.posts) = 1 /\ out.posts[1] = e /\ Len(ev) \in Nat
    BY <1>1, <1>4
  <2> QED
    BY <1>2, <2>1
<1>5. ASSUME Works(out, packetizer', depacketizer', remote_queue')
      PROVE  /\ \A i \in 1 .. Len(events') : events'[i].at = "reply" => i \in 1 .. Len(ev) /\ events'[i] = ev[i]
             /\ \E req \in Requests :
                  /\ \A i \in 1 .. Len(events') :
                       \/ events'[i].at \in Quiet
                       \/ i = Len(events') /\ events'[i].at = "task" /\ events'[i].request = req
                  /\ req.by = started /\ Consented(req)
                  /\ RequestFits(req, out.t, packetizer', depacketizer')
                  /\ Follows(req) => remote_queue' = <<>>
  <2>1. PICK req \in Requests :
         /\ out.posts = << DoTask(req) >> /\ req.by = started
         /\ RequestFits(req, out.t, packetizer', depacketizer') /\ Consented(req)
         /\ Follows(req) => remote_queue' = <<>>
    BY <1>5 DEF Works
  <2>2. DoTask(req) \in Events /\ DoTask(req).at = "task" /\ DoTask(req).request = req
    BY EventsMade
  <2>3. \A i \in 1 .. Len(events') :
               \/ i \in 1 .. Len(ev) /\ events'[i] = ev[i]
               \/ i = Len(events') /\ events'[i] = DoTask(req)
    BY <1>4, <2>1, <2>2
  <2> QED
    BY <1>1, <2>1, <2>2, <2>3
<1>6. ASSUME Begins(out)
      PROVE  /\ \A i \in 1 .. Len(events') : events'[i].at = "reply" => i \in 1 .. Len(ev) /\ events'[i] = ev[i]
             /\ \A i \in 1 .. Len(events') :
                  events'[i].at \in Quiet \/ (i = Len(events') /\ events'[i].at = "start")
  <2>1. Event("start") \in Events /\ Event("start").at = "start"
    BY EventsMade
  <2>2. \A i \in 1 .. Len(events') :
               \/ i \in 1 .. Len(ev) /\ events'[i] = ev[i]
               \/ i = Len(events') /\ events'[i] = Event("start")
    BY <1>4, <1>6, <2>1 DEF Begins
  <2> QED
    BY <1>1, <2>1, <2>2
<1> QED
  BY <1>1, <1>2, <1>3, <1>5, <1>6

LEMMA Settle ==
    ASSUME NEW out, NEW ev, Settled(out, ev)
    PROVE  /\ OneDriver' /\ OrderInv' /\ ErrorInv' /\ Consents(transfer)' /\ ConsentTasks'
           /\ PacketTasks' /\ LiveTasks' /\ ~ InQueue'
           /\ transfer' \in Transfers
<1>1. /\ transfer' = out.t /\ out.t \in Transfers /\ out.t.alive /\ Consents(out.t)
      /\ Silent(out) \/ Asks(out) \/ Works(out, packetizer', depacketizer', remote_queue') \/ Begins(out)
      /\ window.prompt = "none" /\ remote_queue' \in Seq(Requests)
      /\ \A i \in 1 .. Len(remote_queue') : remote_queue'[i].by # started
      /\ type' = type /\ started' = started /\ window' = window /\ granted' = granted
      /\ started \in 1 .. MaxTransfers
  BY DEF Settled, OutcomeTypes
<1>2. ~ InQueue' /\ ~ Asked'
  BY <1>1 DEF InQueue, Live, Asked
<1>3. Consents(transfer)'
  BY <1>1 DEF Consents
<1>4. transfer'.alive
  BY <1>1
<1>5. CASE Silent(out) \/ Asks(out)
  <2>1. \A i \in 1 .. Len(events') : events'[i].at \in {"stop", "reply", "delete_builder", "delete_transfer"}
    BY <1>5, SettledEvents DEF Quiet, Deletes
  <2>2. \A i \in 1 .. Len(signals') :
           signals'[i] = "finished" \/ (i = Len(signals') /\ ErrorFits(signals'[i], transfer'))
    BY <1>1, <1>5, SettledSignals
  <2>3. OneDriver'
    <3>1. ~ InEvents'
      BY <2>1 DEF InEvents, LiveEvent
    <3>2. \A i \in 1 .. Len(events') : ~ LiveEvent(events[i])'
      BY <2>1 DEF LiveEvent
    <3> QED
      BY <1>2, <2>2, <3>1, <3>2 DEF OneDriver
  <2>4. OrderInv'
    BY <1>4, <2>1 DEF OrderInv
  <2>5. ErrorInv'
    BY <1>1, <2>1, <2>2 DEF ErrorInv, ErrorFits
  <2>6. ConsentTasks' /\ PacketTasks' /\ LiveTasks'
    BY <2>1 DEF ConsentTasks, PacketTasks, LiveTasks
  <2> QED
    BY <1>1, <1>2, <1>3, <2>3, <2>4, <2>5, <2>6
<1>6. CASE Works(out, packetizer', depacketizer', remote_queue') \/ Begins(out)
  <2>0. out.sigs = <<>>
    BY <1>6 DEF Works, Begins
  <2>1. \A i \in 1 .. Len(signals') : signals'[i] = "finished"
    BY <2>0, SettledSignals
  <2>2. ASSUME \A i \in 1 .. Len(events') :
                  events'[i].at \in Quiet \/ (i = Len(events') /\ events'[i].at \in {"task", "start"})
        PROVE  OneDriver' /\ ErrorInv'
    <3>1. \A i \in 1 .. Len(events') : LiveEvent(events[i])' => i = Len(events')
      BY <2>2 DEF LiveEvent, Quiet, Deletes
    <3>2. ~ Signalled'
      BY <2>1 DEF Signalled
    <3>3. OneDriver'
      BY <1>2, <2>1, <3>1, <3>2 DEF OneDriver
    <3>4. \A i \in 1 .. Len(events') : events'[i].at # "action"
      BY <2>2 DEF Quiet, Deletes
    <3>5. ErrorInv'
      BY <1>1, <2>1, <3>4 DEF ErrorInv
    <3> QED
      BY <3>3, <3>5
  <2>3. CASE Begins(out)
    <3>1. \A i \in 1 .. Len(events') :
             events'[i].at \in Quiet \/ (i = Len(events') /\ events'[i].at = "start")
      BY <2>3, SettledEvents
    <3>2. \A i \in 1 .. Len(events') : events'[i].at \notin {"task", "request"}
      BY <3>1 DEF Quiet, Deletes
    <3>3. OrderInv' /\ ConsentTasks' /\ PacketTasks' /\ LiveTasks'
      BY <1>4, <3>2 DEF OrderInv, ConsentTasks, PacketTasks, LiveTasks
    <3>4. OneDriver' /\ ErrorInv'
      BY <2>2, <3>1
    <3> QED
      BY <1>1, <1>2, <1>3, <3>3, <3>4
  <2>4. CASE Works(out, packetizer', depacketizer', remote_queue')
    <3>1. PICK req \in Requests :
            /\ \A i \in 1 .. Len(events') :
                 \/ events'[i].at \in Quiet
                 \/ i = Len(events') /\ events'[i].at = "task" /\ events'[i].request = req
            /\ req.by = started /\ Consented(req)
            /\ RequestFits(req, out.t, packetizer', depacketizer')
            /\ Follows(req) => remote_queue' = <<>>
      BY <2>4, SettledEvents
    <3>2. \A i \in 1 .. Len(events') : /\ events'[i].at # "request"
                                       /\ events'[i].at = "task" => i = Len(events') /\ events'[i].request = req
      BY <3>1 DEF Quiet, Deletes
    <3>3. OneDriver' /\ ErrorInv'
      BY <2>2, <3>1
    <3>4. OrderInv'
      <4>1. started <= started /\ req.by = started'
        BY <1>1, <3>1
      <4> QED
        BY <1>1, <1>4, <3>2, <4>1 DEF OrderInv
    <3>5. ConsentTasks'
      BY <1>1, <3>1, <3>2 DEF ConsentTasks, Consented
    <3>6. RequestFits(req, transfer', packetizer', depacketizer')
      BY <1>1, <3>1
    <3>7. LiveTasks'
      <4>1. Follows(req)' => remote_queue' = <<>>
        BY <1>1, <3>1 DEF Follows
      <4>2. SUFFICES ASSUME NEW i \in 1 .. Len(events'), events'[i].at = "task"
                     PROVE  /\ RequestFits(events'[i].request, transfer', packetizer', depacketizer')
                            /\ Follows(events[i].request)' => remote_queue' = <<>>
        BY DEF LiveTasks
      <4>3. events'[i].request = req
        BY <3>2, <4>2
      <4> QED
        BY <3>6, <4>1, <4>3 DEF Follows
    <3>8. PacketTasks'
      <4>1. SUFFICES ASSUME NEW i \in 1 .. Len(events'), events'[i].at = "task",
                            events'[i].request.kind = "packet"
                     PROVE  /\ remote_queue' = <<>>
                            /\ \A j \in 1 .. Len(events') : events'[j].at = "task" => j = i
                            /\ PacketFits(events'[i].request.packet, depacketizer')
        BY DEF PacketTasks
      <4>2. events'[i].request = req /\ i = Len(events') /\ req.kind = "packet"
        BY <3>2, <4>1
      <4>3. remote_queue' = <<>>
        BY <3>1, <4>2 DEF Follows
      <4>4. PacketFits(req.packet, depacketizer')
        BY <3>6, <4>2 DEF RequestFits, PacketGoes, PacketFits
      <4> QED
        BY <3>2, <4>2, <4>3, <4>4
    <3> QED
      BY <1>1, <1>2, <1>3, <3>3, <3>4, <3>5, <3>7, <3>8
  <2> QED
    BY <1>6, <2>3, <2>4
<1> QED
  BY <1>1, <1>5, <1>6

----------------------------------------------------------------------------
(* A step that leaves the driver of the transfer where it is               *)

NoRequest == \A i \in 1 .. Len(events) : events[i].at # "request"

\* Nothing or the first event is taken, and what is posted drives nothing on.
Shifted(k) ==
    /\ k \in {0, 1} /\ events \in Seq(Events) /\ events' \in Seq(Events)
    /\ k = 1 => events # <<>> /\ events[1].at # "request"
    /\ \A i \in 1 .. Len(events') :
         \/ i + k \in 1 .. Len(events) /\ events'[i] = events[i + k]
         \/ /\ i + k > Len(events) /\ events'[i].at \in Quiet
            /\ events'[i].at \in Deletes => transfer.alive /\ NoRequest
            /\ events'[i].at = "stop" => transfer.alive
    /\ \A i \in 1 .. Len(events) : i > k => i - k \in 1 .. Len(events') /\ events'[i - k] = events[i]

LEMMA ShiftedOrder ==
    ASSUME NEW k, Shifted(k), OrderInv, started' = started, transfer'.alive = transfer.alive,
           transfer'.timer => transfer.timer \/ NoRequest
    PROVE  OrderInv'
<1>0. k \in {0, 1} /\ Len(events) \in Nat /\ Len(events') \in Nat
  BY DEF Shifted
<1>1. \A i \in 1 .. Len(events') :
         \/ i + k \in 1 .. Len(events) /\ events'[i] = events[i + k]
         \/ /\ i + k > Len(events) /\ events'[i].at \in {"stop", "reply", "delete_builder", "delete_transfer"}
            /\ events'[i].at \in {"delete_builder", "delete_transfer"} => transfer.alive /\ NoRequest
            /\ events'[i].at = "stop" => transfer.alive
  BY DEF Shifted, Quiet, Deletes
<1>2. /\ k = 1 => events[1].at # "request"
      /\ \A i \in 1 .. Len(events) : i > k => i - k \in 1 .. Len(events') /\ events'[i - k] = events[i]
  BY DEF Shifted
<1>3. ~ transfer'.alive => \A i \in 1 .. Len(events') : events'[i].at \in {"task", "reply"}
  BY <1>1 DEF OrderInv
<1>4. ASSUME NEW i \in 1 .. Len(events'), events'[i].at = "request"
      PROVE  /\ ~ transfer'.timer
             /\ \A j \in 1 .. Len(events') : j < i => events'[j].at \in {"task", "reply"}
             /\ \A j \in 1 .. Len(events') : j > i => events'[j].at \in {"stop", "reply"}
  <2>1. i + k \in 1 .. Len(events) /\ events[i + k].at = "request"
    BY <1>1, <1>4
  <2>2. /\ ~ transfer.timer /\ ~ NoRequest
        /\ \A j \in 1 .. Len(events) : j < i + k => events[j].at \in {"task", "reply"}
        /\ \A j \in 1 .. Len(events) : j > i + k => events[j].at \in {"stop", "reply"}
    BY <2>1 DEF OrderInv, NoRequest
  <2>3. ASSUME NEW j \in 1 .. Len(events'), j < i PROVE events'[j].at \in {"task", "reply"}
    <3>1. j + k < i + k /\ j + k \in 1 .. Len(events)
      BY <1>0, <2>1, <2>3
    <3>2. events'[j] = events[j + k]
      BY <1>0, <1>1, <3>1
    <3> QED
      BY <2>2, <3>1, <3>2
  <2>4. ASSUME NEW j \in 1 .. Len(events'), j > i PROVE events'[j].at \in {"stop", "reply"}
    <3>1. CASE j + k \in 1 .. Len(events) /\ events'[j] = events[j + k]
      <4>1. j + k > i + k
        BY <1>0, <2>4
      <4> QED
        BY <2>2, <3>1, <4>1
    <3>2. CASE events'[j].at \in {"stop", "reply"}
      BY <3>2
    <3> QED
      BY <1>1, <2>2, <3>1, <3>2
  <2> QED
    BY <2>2, <2>3, <2>4
<1>5. ASSUME transfer'.alive, \A i \in 1 .. Len(events') : events'[i].at # "request"
      PROVE  \A i \in 1 .. Len(events') : events'[i].at = "task" => events'[i].request.by = started'
  <2>1. NoRequest
    <3>1. ASSUME NEW i \in 1 .. Len(events) PROVE events[i].at # "request"
      <4>1. CASE i > k
        BY <1>2, <1>5, <4>1
      <4>2. CASE ~ (i > k)
        BY <1>0, <1>2, <4>2
      <4> QED
        BY <4>1, <4>2
    <3> QED
      BY <3>1 DEF NoRequest
  <2>2. \A i \in 1 .. Len(events) : events[i].at = "task" => events[i].request.by = started
    BY <1>5, <2>1 DEF OrderInv, NoRequest
  <2> QED
    BY <1>1, <2>2
<1>6. \A i \in 1 .. Len(events') : events'[i].at = "task" => events'[i].request.by <= started'
  BY <1>1 DEF OrderInv
<1> QED
  BY <1>3, <1>4, <1>5, <1>6 DEF OrderInv

\* The transfer has the same task, and its window the same question.
SameWork ==
    /\ transfer'.alive = transfer.alive /\ transfer'.tasks = transfer.tasks
    /\ transfer'.overwrite = transfer.overwrite /\ transfer'.actions = transfer.actions
    /\ window'.prompt = window.prompt
    /\ UNCHANGED <<type, started, granted>>
    /\ \A i \in 1 .. Len(signals') :
         (i \in 1 .. Len(signals) /\ signals'[i] = signals[i]) \/ signals'[i] = "finished"

LEMMA ShiftedDriver ==
    ASSUME NEW k, Shifted(k), SameWork, OneDriver, InQueue' => InQueue
    PROVE  OneDriver'
<1>0. k \in {0, 1} /\ Len(events) \in Nat /\ Len(events') \in Nat
  BY DEF Shifted
<1>1. \A i \in 1 .. Len(events') : LiveEvent(events[i])' =>
          i + k \in 1 .. Len(events) /\ LiveEvent(events[i + k])
  BY DEF Shifted, Quiet, Deletes, LiveEvent, Live, SameWork
<1>2. \A i \in 1 .. Len(signals') : signals'[i] # "finished" =>
          i \in 1 .. Len(signals) /\ signals[i] # "finished"
  BY DEF SameWork
<1>3. (InEvents' => InEvents) /\ (Signalled' => Signalled) /\ (Asked' => Asked)
  BY <1>1, <1>2 DEF InEvents, Signalled, Asked, SameWork
<1>4. \A i, j \in 1 .. Len(events') : LiveEvent(events[i])' /\ LiveEvent(events[j])' => i = j
  <2>1. ASSUME NEW i \in 1 .. Len(events'), NEW j \in 1 .. Len(events'),
               LiveEvent(events[i])', LiveEvent(events[j])'
        PROVE  i = j
    <3>1. i + k = j + k
      BY <1>1, <2>1 DEF OneDriver
    <3> QED
      BY <1>0, <3>1
  <2> QED
    BY <2>1
<1>5. \A i, j \in 1 .. Len(signals') : signals'[i] # "finished" /\ signals'[j] # "finished" => i = j
  BY <1>2 DEF OneDriver
<1> QED
  BY <1>3, <1>4, <1>5 DEF OneDriver

LEMMA ShiftedError ==
    ASSUME NEW k, Shifted(k), SameWork, ErrorInv
    PROVE  ErrorInv'
<1>1. SUFFICES ASSUME transfer.alive
               PROVE  /\ \A i \in 1 .. Len(signals') : signals'[i] # "finished" => ErrorFits(signals[i], transfer)'
                      /\ window'.prompt # "none" => ErrorFits(window.prompt, transfer)'
                      /\ \A i \in 1 .. Len(events') : events'[i].at = "action" =>
                           /\ ErrorFits(events[i].error, transfer)'
                           /\ events'[i].action \in AvailableActions(events[i].error)'
                           /\ events'[i].action = "replace_all" => Files \subseteq granted'
                           /\ events'[i].action = "replace" => transfer'.tasks[1] \in granted'
  BY DEF ErrorInv, SameWork
<1>2. \A e : ErrorFits(e, transfer') <=> ErrorFits(e, transfer)
  BY DEF ErrorFits, SameWork
<1>3. \A i \in 1 .. Len(events') : events'[i].at = "action" =>
          i + k \in 1 .. Len(events) /\ events'[i] = events[i + k]
  BY DEF Shifted, Quiet, Deletes
<1>4. ASSUME NEW i \in 1 .. Len(events'), events'[i].at = "action"
      PROVE  /\ ErrorFits(events[i].error, transfer)'
             /\ events'[i].action \in AvailableActions(events[i].error)'
             /\ events'[i].action = "replace_all" => Files \subseteq granted'
             /\ events'[i].action = "replace" => transfer'.tasks[1] \in granted'
  <2> DEFINE e == events[i + k]
  <2>1. i + k \in 1 .. Len(events) /\ events'[i] = e /\ e.at = "action"
    BY <1>3, <1>4
  <2>2. /\ ErrorFits(e.error, transfer) /\ e.action \in AvailableActions(e.error)
        /\ e.action = "replace_all" => Files \subseteq granted
        /\ e.action = "replace" => transfer.tasks[1] \in granted
    BY <1>1, <2>1 DEF ErrorInv
  <2> HIDE DEF e
  <2>3. ErrorFits(e.error, transfer')
    BY <1>2, <2>2
  <2> QED
    BY <2>1, <2>2, <2>3 DEF SameWork, AvailableActions
<1>5. ASSUME NEW i \in 1 .. Len(signals'), signals'[i] # "finished"
      PROVE  ErrorFits(signals[i], transfer)'
  BY <1>1, <1>2, <1>5 DEF SameWork, ErrorInv
<1>6. window'.prompt # "none" => ErrorFits(window.prompt, transfer)'
  BY <1>1, <1>2 DEF SameWork, ErrorInv
<1> QED
  BY <1>4, <1>5, <1>6

LEMMA ShiftedConsent ==
    ASSUME NEW k, Shifted(k), SameWork, Consents(transfer), ConsentTasks
    PROVE  Consents(transfer)' /\ ConsentTasks'
<1>1. Consents(transfer)'
  BY DEF Consents, SameWork
<1>2. \A i \in 1 .. Len(events') : events'[i].at = "task" =>
          i + k \in 1 .. Len(events) /\ events'[i] = events[i + k]
  BY DEF Shifted, Quiet, Deletes
<1>3. ConsentTasks'
  BY <1>2 DEF ConsentTasks, Consented, SameWork
<1> QED
  BY <1>1, <1>3

\* The tasks that stay, when nothing was served.
LEMMA ShiftedTasks ==
    ASSUME NEW k, Shifted(k), SameWork, PacketTasks, LiveTasks,
           UNCHANGED <<packetizer, depacketizer, remote_queue>>
    PROVE  PacketTasks' /\ LiveTasks'
<1>0. k \in {0, 1} /\ Len(events) \in Nat /\ Len(events') \in Nat
  BY DEF Shifted
<1>1. \A i \in 1 .. Len(events') : events'[i].at = "task" =>
          i + k \in 1 .. Len(events) /\ events'[i] = events[i + k]
  BY DEF Shifted, Quiet, Deletes
<1>2. PacketTasks'
  <2>1. SUFFICES ASSUME NEW i \in 1 .. Len(events'), events'[i].at = "task",
                        events'[i].request.kind = "packet"
                 PROVE  /\ remote_queue' = <<>>
                        /\ \A j \in 1 .. Len(events') : events'[j].at = "task" => j = i
                        /\ PacketFits(events'[i].request.packet, depacketizer')
    BY DEF PacketTasks
  <2>2. /\ remote_queue = <<>> /\ PacketFits(events[i + k].request.packet, depacketizer)
        /\ \A j \in 1 .. Len(events) : events[j].at = "task" => j = i + k
    BY <1>1, <2>1 DEF PacketTasks
  <2>3. ASSUME NEW j \in 1 .. Len(events'), events'[j].at = "task" PROVE j = i
    <3>1. j + k = i + k
      BY <1>1, <2>2, <2>3
    <3> QED
      BY <1>0, <3>1
  <2> QED
    BY <1>1, <2>1, <2>2, <2>3
<1>3. LiveTasks'
  <2>1. SUFFICES ASSUME NEW i \in 1 .. Len(events'), events'[i].at = "task", Live(events[i].request)'
                 PROVE  /\ RequestFits(events'[i].request, transfer', packetizer', depacketizer')
                        /\ Follows(events[i].request)' => remote_queue' = <<>>
    BY DEF LiveTasks
  <2> DEFINE req == events[i + k].request
  <2>2. i + k \in 1 .. Len(events) /\ events[i + k].at = "task" /\ events'[i].request = req
    BY <1>1, <2>1
  <2>3. Live(req)
    BY <2>1, <2>2 DEF Live, SameWork
  <2>4. /\ RequestFits(req, transfer, packetizer, depacketizer)
        /\ Follows(req) => remote_queue = <<>>
    BY <2>2, <2>3 DEF LiveTasks
  <2> HIDE DEF req
  <2>5. RequestFits(req, transfer', packetizer', depacketizer')
    BY <2>4 DEF RequestFits, SameWork
  <2>6. Follows(events[i].request)' <=> Follows(req)
    BY <2>2 DEF Follows, SameWork
  <2> QED
    BY <2>2, <2>4, <2>5, <2>6
<1> QED
  BY <1>2, <1>3

\* A step of which the two computers and the queue know nothing.
LEMMA KeepStep ==
    ASSUME FilesInv, NEW k, Shifted(k), SameWork, transfer' \in Transfers,
           signals' \in Seq(ErrorTypes \union {"finished"}),
           window' \in [shown : BOOLEAN, stopping : BOOLEAN, prompt : ErrorTypes \union {"none"}],
           transfer'.timer => transfer.timer \/ NoRequest,
           \A i \in 1 .. Len(events') : events'[i].at = "reply" => i + k \in 1 .. Len(events),
           UNCHANGED <<remote_queue, wire, handlerVars, copied>>
    PROVE  FilesInv'
<1>1. /\ packetizer' = packetizer /\ depacketizer' = depacketizer /\ disk' = disk /\ dirs' = dirs
      /\ faults' = faults /\ remote_queue' = remote_queue /\ wire' = wire /\ copied' = copied
      /\ type' = type /\ started' = started /\ granted' = granted
      /\ transfer'.alive = transfer.alive /\ transfer'.tasks = transfer.tasks
  BY DEF handlerVars, SameWork
<1>0. k \in {0, 1} /\ Len(events) \in Nat /\ Len(events') \in Nat
  BY DEF Shifted
<1>2. TypeOK'
  BY <1>1 DEF FilesInv, TypeOK, Shifted
<1>3. \A req : Live(req)' <=> Live(req)
  BY <1>1 DEF Live
<1>16. StartedInv'
  BY <1>1 DEF FilesInv, StartedInv
<1>4. OneDriver'
  <2>1. InQueue' => InQueue
    BY <1>1, <1>3 DEF InQueue
  <2> QED
    BY <2>1, ShiftedDriver DEF FilesInv
<1>5. OrderInv'
  BY <1>1, ShiftedOrder DEF FilesInv
<1>6. QueueInv'
  BY <1>1, <1>3 DEF FilesInv, QueueInv, IsLocal
<1>7. \A i \in 1 .. Len(events') : events'[i].at = "reply" =>
          i + k \in 1 .. Len(events) /\ events'[i] = events[i + k]
  BY <1>0 DEF Shifted
<1>8. ReplyInv'
  <2>1. ASSUME NEW i \in 1 .. Len(events'), NEW j \in 1 .. Len(events'),
               events'[i].at = "reply", events'[j].at = "reply"
        PROVE  i = j
    <3>1. i + k = j + k
      BY <1>7, <2>1 DEF FilesInv, ReplyInv
    <3> QED
      BY <1>0, <3>1
  <2> QED
    BY <1>1, <1>7, <2>1 DEF FilesInv, ReplyInv
<1>9. SourceInv' /\ DepacketizerInv' /\ CopiedInv' /\ NoTruncatedFile'
  BY <1>1 DEF FilesInv, SourceInv, DepacketizerInv, CopiedInv, NoTruncatedFile
<1>10. PacketTasks' /\ LiveTasks'
  BY <1>1, ShiftedTasks DEF FilesInv, PacketInv, LiveInv
<1>11. PacketQueue'
  BY <1>1 DEF FilesInv, PacketInv, PacketQueue
<1>12. LiveQueue'
  BY <1>1, <1>3 DEF FilesInv, LiveInv, LiveQueue, RequestFits, Follows
<1>13. LiveReply'
  BY <1>1, <1>3, <1>7 DEF FilesInv, LiveInv, LiveReply, ReplyFits
<1>14. ErrorInv'
  BY ShiftedError DEF FilesInv
<1>15. ConsentInv'
  <2>1. Consents(transfer)' /\ ConsentTasks'
    BY ShiftedConsent DEF FilesInv, ConsentInv
  <2>2. ConsentQueue'
    BY <1>1 DEF FilesInv, ConsentInv, ConsentQueue, Consented
  <2> QED
    BY <2>1, <2>2 DEF ConsentInv
<1> QED
  BY <1>2, <1>4, <1>5, <1>6, <1>8, <1>9, <1>10, <1>11, <1>12, <1>13, <1>14, <1>15, <1>16
     DEF FilesInv, PacketInv, LiveInv

LEMMA ShiftTail ==
    ASSUME events \in Seq(Events), events # <<>>, events[1].at # "request", NEW posts \in Seq(Events),
           \A i \in 1 .. Len(posts) : posts[i].at \in Deletes,
           posts # <<>> => transfer.alive /\ NoRequest, events' = Tail(events) \o posts
    PROVE  /\ Shifted(1)
           /\ \A i \in 1 .. Len(events') : events'[i].at = "reply" => i + 1 \in 1 .. Len(events)
<1>1. /\ Tail(events) \in Seq(Events) /\ Len(Tail(events)) = Len(events) - 1 /\ Len(events) - 1 \in Nat
      /\ \A i \in 1 .. Len(Tail(events)) : i + 1 \in 1 .. Len(events) /\ Tail(events)[i] = events[i + 1]
      /\ Len(events) \in Nat /\ Len(posts) \in Nat
  BY TailFacts
<1>2. /\ events' \in Seq(Events) /\ Len(events') = Len(Tail(events)) + Len(posts)
      /\ \A i \in 1 .. Len(Tail(events)) : events'[i] = Tail(events)[i]
      /\ \A i \in 1 .. Len(events') :
            \/ i \in 1 .. Len(Tail(events)) /\ events'[i] = Tail(events)[i]
            \/ i > Len(Tail(events)) /\ i - Len(Tail(events)) \in 1 .. Len(posts)
               /\ events'[i] = posts[i - Len(Tail(events))]
  BY <1>1, ConcatFacts
<1>3. ASSUME NEW i \in 1 .. Len(events')
      PROVE  \/ i + 1 \in 1 .. Len(events) /\ events'[i] = events[i + 1]
             \/ /\ i + 1 > Len(events) /\ events'[i].at \in Deletes /\ transfer.alive /\ NoRequest
  <2>1. CASE i \in 1 .. Len(Tail(events)) /\ events'[i] = Tail(events)[i]
    BY <1>1, <2>1
  <2>2. CASE /\ i > Len(Tail(events)) /\ i - Len(Tail(events)) \in 1 .. Len(posts)
             /\ events'[i] = posts[i - Len(Tail(events))]
    <3>1. posts # <<>> /\ i + 1 > Len(events)
      BY <1>1, <2>2
    <3> QED
      BY <2>2, <3>1
  <2> QED
    BY <1>2, <2>1, <2>2
<1>4. ASSUME NEW i \in 1 .. Len(events), i > 1
      PROVE  i - 1 \in 1 .. Len(events') /\ events'[i - 1] = events[i]
  <2>1. i - 1 \in 1 .. Len(Tail(events)) /\ i - 1 \in 1 .. Len(events') /\ (i - 1) + 1 = i
    BY <1>1, <1>2, <1>4
  <2> QED
    BY <1>1, <1>2, <2>1
<1> QED
  BY <1>2, <1>3, <1>4 DEF Shifted, Quiet, Deletes

LEMMA ShiftConcat ==
    ASSUME events \in Seq(Events), NEW posts \in Seq(Events),
           \A i \in 1 .. Len(posts) : posts[i].at \in Quiet,
           \A i \in 1 .. Len(posts) : posts[i].at \in Deletes => transfer.alive /\ NoRequest,
           \A i \in 1 .. Len(posts) : posts[i].at = "stop" => transfer.alive,
           events' = events \o posts
    PROVE  /\ Shifted(0)
           /\ \A i \in 1 .. Len(events') :
                 i \in 1 .. Len(events) \/ \E j \in 1 .. Len(posts) : events'[i] = posts[j]
<1>1. /\ events' \in Seq(Events) /\ Len(events') = Len(events) + Len(posts)
      /\ \A i \in 1 .. Len(events) : events'[i] = events[i]
      /\ \A i \in 1 .. Len(events') :
            \/ i \in 1 .. Len(events) /\ events'[i] = events[i]
            \/ i > Len(events) /\ i - Len(events) \in 1 .. Len(posts)
               /\ events'[i] = posts[i - Len(events)]
      /\ Len(events) \in Nat /\ Len(posts) \in Nat
  BY ConcatFacts
<1>2. ASSUME NEW i \in 1 .. Len(events')
      PROVE  \/ i + 0 \in 1 .. Len(events) /\ events'[i] = events[i + 0]
             \/ /\ i + 0 > Len(events) /\ events'[i].at \in Quiet
                /\ events'[i].at \in Deletes => transfer.alive /\ NoRequest
                /\ events'[i].at = "stop" => transfer.alive
  BY <1>1
<1>3. ASSUME NEW i \in 1 .. Len(events)
      PROVE  i - 0 \in 1 .. Len(events') /\ events'[i - 0] = events[i]
  <2>1. i - 0 = i /\ i \in 1 .. Len(events')
    BY <1>1
  <2> QED
    BY <1>1, <2>1
<1>4. Shifted(0)
  BY <1>1, <1>2, <1>3 DEF Shifted
<1> QED
  BY <1>1, <1>4

LEMMA AppendConcat ==
    ASSUME NEW T, NEW q \in Seq(T), NEW e \in T
    PROVE  Append(q, e) = q \o << e >> /\ << e >> \in Seq(T) /\ Len(<< e >>) = 1 /\ << e >>[1] = e
OBVIOUS

\* Signals that are added to those the window has not seen.
LEMMA MoreSignals ==
    ASSUME NEW sigs \in Seq(ErrorTypes \union {"finished"}), signals \in Seq(ErrorTypes \union {"finished"}),
           \A i \in 1 .. Len(sigs) : sigs[i] = "finished", signals' = signals \o sigs
    PROVE  /\ signals' \in Seq(ErrorTypes \union {"finished"})
           /\ \A i \in 1 .. Len(signals') :
                (i \in 1 .. Len(signals) /\ signals'[i] = signals[i]) \/ signals'[i] = "finished"
<1> DEFINE T == ErrorTypes \union {"finished"}
<1>1. signals \in Seq(T) /\ sigs \in Seq(T)
  OBVIOUS
<1> HIDE DEF T
<1>2. /\ signals' \in Seq(T)
      /\ \A i \in 1 .. Len(signals') :
            \/ i \in 1 .. Len(signals) /\ signals'[i] = signals[i]
            \/ i > Len(signals) /\ i - Len(signals) \in 1 .. Len(sigs)
               /\ signals'[i] = sigs[i - Len(signals)]
  BY <1>1, ConcatFacts
<1> QED
  BY <1>2 DEF T

LEMMA StopStep ==
    ASSUME FilesInv, Stop PROVE FilesInv'
<1> DEFINE out == StopTransfer(transfer)
<1>1. /\ events # <<>> /\ Head(events).at = "stop" /\ transfer' = out.t
      /\ events' = Tail(events) \o out.posts /\ signals' = signals \o out.sigs
      /\ window' = window
      /\ UNCHANGED <<type, started, granted>> /\ UNCHANGED <<remote_queue, wire, handlerVars, copied>>
  BY DEF Stop, Handling, Done, windowVars
<1>2. /\ transfer \in Transfers /\ events \in Seq(Events)
      /\ signals \in Seq(ErrorTypes \union {"finished"})
      /\ window \in [shown : BOOLEAN, stopping : BOOLEAN, prompt : ErrorTypes \union {"none"}]
  BY DEF FilesInv, TypeOK
<1>3. /\ out.t \in Transfers /\ out.posts \in Seq(Events)
      /\ out.sigs \in Seq(ErrorTypes \union {"finished"})
      /\ \A i \in 1 .. Len(out.posts) : out.posts[i].at \in Deletes
      /\ \A i \in 1 .. Len(out.sigs) : out.sigs[i] = "finished"
      /\ out.t.alive = transfer.alive /\ out.t.tasks = transfer.tasks
      /\ out.t.overwrite = transfer.overwrite /\ out.t.actions = transfer.actions
  BY <1>2, StopOutcome DEF OutcomeTypes, Silent
<1> HIDE DEF out
<1>4. events[1].at = "stop" /\ 1 \in 1 .. Len(events) /\ Len(events) \in Nat
  BY <1>1, <1>2, TailFacts
<1>5. transfer.alive /\ NoRequest
  <2>1. transfer.alive
    BY <1>4 DEF FilesInv, OrderInv
  <2>2. ASSUME NEW i \in 1 .. Len(events), events[i].at = "request" PROVE FALSE
    <3>1. \A j \in 1 .. Len(events) : j < i => events[j].at \in {"task", "reply"}
      BY <2>2 DEF FilesInv, OrderInv
    <3>2. i # 1
      BY <1>4, <2>2
    <3>3. 1 < i
      BY <1>4, <3>2
    <3> QED
      BY <1>4, <3>1, <3>3
  <2> QED
    BY <2>1, <2>2 DEF NoRequest
<1>6. /\ Shifted(1)
      /\ \A i \in 1 .. Len(events') : events'[i].at = "reply" => i + 1 \in 1 .. Len(events)
  BY <1>1, <1>2, <1>3, <1>4, <1>5, ShiftTail
<1>7. /\ signals' \in Seq(ErrorTypes \union {"finished"})
      /\ \A i \in 1 .. Len(signals') :
           (i \in 1 .. Len(signals) /\ signals'[i] = signals[i]) \/ signals'[i] = "finished"
  BY <1>1, <1>2, <1>3, MoreSignals
<1>8. SameWork
  BY <1>1, <1>3, <1>7 DEF SameWork
<1> QED
  BY <1>1, <1>2, <1>3, <1>5, <1>6, <1>7, <1>8, KeepStep

LEMMA CancelTimeoutStep ==
    ASSUME FilesInv, CancelTimeout PROVE FilesInv'
<1> DEFINE u == [transfer EXCEPT !.timer = FALSE]
           out == OnFinished(u)
<1>1. /\ transfer.alive /\ transfer.timer /\ transfer' = out.t
      /\ events' = events \o out.posts /\ signals' = signals \o out.sigs
      /\ window' = window
      /\ UNCHANGED <<type, started, granted>> /\ UNCHANGED <<remote_queue, wire, handlerVars, copied>>
  BY DEF CancelTimeout, windowVars
<1>2. /\ transfer \in Transfers /\ events \in Seq(Events)
      /\ signals \in Seq(ErrorTypes \union {"finished"})
      /\ window \in [shown : BOOLEAN, stopping : BOOLEAN, prompt : ErrorTypes \union {"none"}]
      /\ Consents(transfer)
  BY DEF FilesInv, TypeOK, ConsentInv
<1>3. /\ u \in Transfers /\ u.alive = transfer.alive /\ u.tasks = transfer.tasks
      /\ u.overwrite = transfer.overwrite /\ u.actions = transfer.actions /\ u.timer = FALSE
  BY <1>2 DEF Transfers
<1> HIDE DEF u
<1>4. Consents(u)
  BY <1>2, <1>3 DEF Consents
<1>5. /\ out.t \in Transfers /\ out.posts \in Seq(Events)
      /\ out.sigs \in Seq(ErrorTypes \union {"finished"})
      /\ \A i \in 1 .. Len(out.posts) : out.posts[i].at \in Deletes
      /\ \A i \in 1 .. Len(out.sigs) : out.sigs[i] = "finished"
      /\ out.t.alive = transfer.alive /\ out.t.tasks = transfer.tasks
      /\ out.t.overwrite = transfer.overwrite /\ out.t.actions = transfer.actions
      /\ ~ out.t.timer
  BY <1>3, <1>4, FinishedOutcome DEF Outcome, OutcomeTypes, Silent
<1> HIDE DEF out
<1>6. NoRequest
  BY <1>1 DEF FilesInv, OrderInv, NoRequest
<1>7. /\ Shifted(0)
      /\ \A i \in 1 .. Len(events') :
            i \in 1 .. Len(events) \/ \E j \in 1 .. Len(out.posts) : events'[i] = out.posts[j]
  BY <1>1, <1>2, <1>5, <1>6, ShiftConcat DEF Quiet, Deletes
<1>8. \A i \in 1 .. Len(events') : events'[i].at = "reply" => i + 0 \in 1 .. Len(events)
  <2>1. \A i \in 1 .. Len(events') : events'[i].at = "reply" => i \in 1 .. Len(events)
    BY <1>5, <1>7 DEF Deletes
  <2>2. \A i \in 1 .. Len(events') : i + 0 = i
    OBVIOUS
  <2> QED
    BY <2>1, <2>2
<1>9. /\ signals' \in Seq(ErrorTypes \union {"finished"})
      /\ \A i \in 1 .. Len(signals') :
           (i \in 1 .. Len(signals) /\ signals'[i] = signals[i]) \/ signals'[i] = "finished"
  BY <1>1, <1>2, <1>5, MoreSignals
<1>10. SameWork
  BY <1>1, <1>5, <1>9 DEF SameWork
<1> QED
  BY <1>1, <1>2, <1>5, <1>7, <1>8, <1>9, <1>10, KeepStep

LEMMA DeleteBuilderStep ==
    ASSUME FilesInv, DeleteBuilder PROVE FilesInv'
<1> DEFINE u == [transfer EXCEPT !.builder = "none", !.pending = <<>>, !.queue = <<>>]
<1>1. /\ events # <<>> /\ Head(events).at = "delete_builder" /\ transfer' = u
      /\ events' = Tail(events) \o <<>> /\ signals' = signals \o <<>>
      /\ window' = window
      /\ UNCHANGED <<type, started, granted>> /\ UNCHANGED <<remote_queue, wire, handlerVars, copied>>
  BY DEF DeleteBuilder, Handling, Done, Out, windowVars
<1>2. /\ transfer \in Transfers /\ events \in Seq(Events)
      /\ signals \in Seq(ErrorTypes \union {"finished"})
      /\ window \in [shown : BOOLEAN, stopping : BOOLEAN, prompt : ErrorTypes \union {"none"}]
  BY DEF FilesInv, TypeOK
<1>3. /\ u \in Transfers /\ u.alive = transfer.alive /\ u.tasks = transfer.tasks
      /\ u.overwrite = transfer.overwrite /\ u.actions = transfer.actions /\ u.timer = transfer.timer
  <2>1. <<>> \in Seq(Paths)
    OBVIOUS
  <2> QED
    BY <1>2, <2>1 DEF Transfers
<1> HIDE DEF u
<1>4. events[1].at = "delete_builder"
  BY <1>1, <1>2, TailFacts
<1>5. <<>> \in Seq(Events) /\ <<>> \in Seq(ErrorTypes \union {"finished"}) /\ Len(<<>>) = 0
  OBVIOUS
<1>6. /\ Shifted(1)
      /\ \A i \in 1 .. Len(events') : events'[i].at = "reply" => i + 1 \in 1 .. Len(events)
  <2> DEFINE posts == <<>>
  <2>1. /\ posts \in Seq(Events) /\ \A i \in 1 .. Len(posts) : posts[i].at \in Deletes
        /\ posts = <<>> /\ events' = Tail(events) \o posts
    BY <1>1, <1>5
  <2> HIDE DEF posts
  <2> QED
    BY <1>1, <1>2, <1>4, <2>1, ShiftTail
<1>7. /\ signals' \in Seq(ErrorTypes \union {"finished"})
      /\ \A i \in 1 .. Len(signals') :
           (i \in 1 .. Len(signals) /\ signals'[i] = signals[i]) \/ signals'[i] = "finished"
  BY <1>1, <1>2, <1>5, MoreSignals
<1>8. SameWork
  BY <1>1, <1>3, <1>7 DEF SameWork
<1> QED
  BY <1>1, <1>2, <1>3, <1>6, <1>7, <1>8, KeepStep

LEMMA RequestStopStep ==
    ASSUME FilesInv, RequestStop PROVE FilesInv'
<1>1. /\ window' = [window EXCEPT !.stopping = TRUE]
      /\ events' = IF transfer.alive THEN Append(events, Event("stop")) ELSE events
      /\ transfer' = transfer /\ signals' = signals
      /\ UNCHANGED <<type, started, granted>> /\ UNCHANGED <<remote_queue, wire, handlerVars, copied>>
  BY DEF RequestStop, PostToTransfer
<1>2. /\ transfer \in Transfers /\ events \in Seq(Events)
      /\ signals \in Seq(ErrorTypes \union {"finished"})
      /\ window \in [shown : BOOLEAN, stopping : BOOLEAN, prompt : ErrorTypes \union {"none"}]
  BY DEF FilesInv, TypeOK
<1>3. /\ window' \in [shown : BOOLEAN, stopping : BOOLEAN, prompt : ErrorTypes \union {"none"}]
      /\ window'.prompt = window.prompt
  BY <1>1, <1>2
<1>4. Event("stop") \in Events /\ Event("stop").at = "stop"
  BY EventsMade
<1>5. PICK posts \in Seq(Events) : /\ \A i \in 1 .. Len(posts) : posts[i].at = "stop"
                                   /\ posts # <<>> => transfer.alive
                                   /\ events' = events \o posts
  <2>1. CASE transfer.alive
    <3>1. /\ events' = events \o << Event("stop") >> /\ << Event("stop") >> \in Seq(Events)
          /\ Len(<< Event("stop") >>) = 1 /\ << Event("stop") >>[1] = Event("stop")
      BY <1>1, <1>2, <1>4, <2>1, AppendConcat
    <3> DEFINE q == << Event("stop") >>
    <3>2. events' = events \o q /\ q \in Seq(Events) /\ \A i \in 1 .. Len(q) : q[i].at = "stop"
      BY <1>4, <3>1
    <3> HIDE DEF q
    <3> QED
      BY <2>1, <3>2
  <2>2. CASE ~ transfer.alive
    <3> DEFINE q == <<>>
    <3>1. events' = events \o q /\ q \in Seq(Events) /\ (\A i \in 1 .. Len(q) : q[i].at = "stop") /\ q = <<>>
      BY <1>1, <1>2, <2>2
    <3> HIDE DEF q
    <3> QED
      BY <3>1
  <2> QED
    BY <1>2, <2>1, <2>2 DEF Transfers
<1>6. \A i \in 1 .. Len(posts) : transfer.alive
  BY <1>5
<1>7. /\ Shifted(0)
      /\ \A i \in 1 .. Len(events') :
            i \in 1 .. Len(events) \/ \E j \in 1 .. Len(posts) : events'[i] = posts[j]
  BY <1>2, <1>5, <1>6, ShiftConcat DEF Quiet, Deletes
<1>8. \A i \in 1 .. Len(events') : events'[i].at = "reply" => i + 0 \in 1 .. Len(events)
  BY <1>5, <1>7
<1>9. SameWork
  BY <1>1, <1>3 DEF SameWork
<1> QED
  BY <1>1, <1>2, <1>3, <1>7, <1>8, <1>9, KeepStep

----------------------------------------------------------------------------
(* The steps of the worker that move the transfer on                       *)

\* When the first event drives the transfer, nothing else does.
LEMMA HeadDrives ==
    ASSUME FilesInv, events # <<>>, LiveEvent(events[1])
    PROVE  /\ transfer.alive /\ started \in 1 .. MaxTransfers
           /\ Tail(events) \in Seq(Events)
           /\ \A i \in 1 .. Len(Tail(events)) : Tail(events)[i].at \in Quiet
           /\ \A i \in 1 .. Len(remote_queue) : remote_queue[i].by # started
           /\ \A i \in 1 .. Len(signals) : signals[i] = "finished"
           /\ window.prompt = "none"
<1>1. events \in Seq(Events) /\ started \in 0 .. MaxTransfers /\ MaxTransfers \in Nat
  BY ConstantFacts DEF FilesInv, TypeOK
<1>2. /\ Tail(events) \in Seq(Events) /\ Len(Tail(events)) = Len(events) - 1 /\ Len(events) \in Nat
      /\ \A i \in 1 .. Len(Tail(events)) : i + 1 \in 1 .. Len(events) /\ Tail(events)[i] = events[i + 1]
      /\ 1 \in 1 .. Len(events)
  BY <1>1, TailFacts
<1>3. transfer.alive
  <2>1. ~ transfer.alive => events[1].at \in {"task", "reply"}
    BY <1>2 DEF FilesInv, OrderInv
  <2> QED
    BY <2>1 DEF LiveEvent, Live
<1>4. started \in 1 .. MaxTransfers
  BY <1>1, <1>3 DEF FilesInv, StartedInv
<1>5. InEvents
  BY <1>2 DEF InEvents
<1>6. ~ InQueue /\ ~ Signalled /\ ~ Asked
  BY <1>5 DEF FilesInv, OneDriver
<1>7. ASSUME NEW i \in 1 .. Len(events), i > 1
      PROVE  events[i].at \in Quiet
  <2>1. ~ LiveEvent(events[i])
    BY <1>2, <1>7 DEF FilesInv, OneDriver
  <2>2. events[i].at \in {"request", "start", "stop", "delete_builder", "delete_transfer", "task",
                          "reply", "action"}
    BY <1>1, EventTypes
  <2>3. CASE events[1].at = "request"
    <3>1. events[i].at \in {"stop", "reply"}
      BY <1>2, <1>7, <2>3 DEF FilesInv, OrderInv
    <3> QED
      BY <3>1 DEF Quiet
  <2>4. CASE events[1].at # "request"
    <3>1. \A j \in 1 .. Len(events) : events[j].at # "request"
      <4>1. ASSUME NEW j \in 1 .. Len(events), events[j].at = "request" PROVE FALSE
        <5>1. LiveEvent(events[j])
          BY <4>1 DEF LiveEvent
        <5>2. j = 1
          BY <1>2, <5>1 DEF FilesInv, OneDriver
        <5> QED
          BY <2>4, <4>1, <5>2
      <4> QED
        BY <4>1
    <3>2. events[i].at = "task" => events[i].request.by = started
      BY <1>3, <3>1 DEF FilesInv, OrderInv
    <3>3. events[i].at # "task"
      BY <1>3, <2>1, <3>2 DEF LiveEvent, Live
    <3> QED
      BY <2>1, <2>2, <3>3 DEF LiveEvent, Quiet, Deletes
  <2> QED
    BY <2>3, <2>4
<1>8. \A i \in 1 .. Len(Tail(events)) : Tail(events)[i].at \in Quiet
  <2>1. ASSUME NEW i \in 1 .. Len(Tail(events)) PROVE Tail(events)[i].at \in Quiet
    <3>1. i + 1 \in 1 .. Len(events) /\ Tail(events)[i] = events[i + 1] /\ i + 1 > 1
      BY <1>2
    <3> QED
      BY <1>7, <3>1
  <2> QED
    BY <2>1
<1>9. \A i \in 1 .. Len(remote_queue) : remote_queue[i].by # started
  BY <1>3, <1>6 DEF InQueue, Live
<1> QED
  BY <1>2, <1>3, <1>4, <1>6, <1>8, <1>9 DEF Signalled, Asked

\* What the first event drove on, when the queue of requests stays.
LEMMA SettleStep ==
    ASSUME FilesInv, events # <<>>, LiveEvent(events[1]), NEW out, Settled(out, Tail(events)),
           HandlerTypes', SourceInv', DepacketizerInv', NoTruncatedFile', CopiedInv',
           copied' \in SUBSET Files, PacketQueue', UNCHANGED <<remote_queue, wire>>
    PROVE  FilesInv'
<1>1. /\ OneDriver' /\ OrderInv' /\ ErrorInv' /\ Consents(transfer)' /\ ConsentTasks'
      /\ PacketTasks' /\ LiveTasks' /\ ~ InQueue'
      /\ transfer' \in Transfers
  BY Settle
<1>2. /\ type' = type /\ started' = started /\ window' = window /\ granted' = granted
      /\ started \in 1 .. MaxTransfers
  BY DEF Settled
<1>3. signals' \in Seq(ErrorTypes \union {"finished"})
  BY SettledSignals
<1>4. /\ events' \in Seq(Events)
      /\ \A i \in 1 .. Len(events') : events'[i].at = "reply" =>
            i \in 1 .. Len(Tail(events)) /\ events'[i] = Tail(events)[i]
  BY SettledEvents
<1>5. TypeOK'
  BY <1>1, <1>2, <1>3, <1>4 DEF FilesInv, TypeOK, HandlerTypes
<1>6. StartedInv'
  <2>1. transfer'.alive /\ started' # 0
    BY <1>2 DEF Settled
  <2> QED
    BY <2>1 DEF StartedInv
<1>7. \A i \in 1 .. Len(remote_queue') : ~ Live(remote_queue[i])'
  BY <1>1 DEF InQueue
<1>8. QueueInv'
  BY <1>2, <1>7 DEF FilesInv, QueueInv, IsLocal
<1>9. \A i \in 1 .. Len(events') : events'[i].at = "reply" =>
         i + 1 \in 1 .. Len(events) /\ events'[i] = events[i + 1]
  <2>1. \A i \in 1 .. Len(Tail(events)) : i + 1 \in 1 .. Len(events) /\ Tail(events)[i] = events[i + 1]
    BY TailFacts DEF FilesInv, TypeOK
  <2> QED
    BY <1>4, <2>1
<1>10. ReplyInv'
  <2>1. ASSUME NEW i \in 1 .. Len(events'), NEW j \in 1 .. Len(events'),
               events'[i].at = "reply", events'[j].at = "reply"
        PROVE  i = j
    <3>1. i + 1 = j + 1
      BY <1>9, <2>1 DEF FilesInv, ReplyInv
    <3> QED
      BY <3>1
  <2> QED
    BY <1>9, <2>1 DEF FilesInv, ReplyInv
<1>11. LiveQueue'
  BY <1>7 DEF LiveQueue
<1>12. LiveReply'
  <2>1. ASSUME NEW i \in 1 .. Len(events'), events'[i].at = "reply", Live(remote_queue[1])'
        PROVE  FALSE
    <3>1. remote_queue # <<>>
      BY <1>9, <2>1 DEF FilesInv, ReplyInv
    <3>2. 1 \in 1 .. Len(remote_queue')
      BY <3>1 DEF FilesInv, TypeOK
    <3> QED
      BY <1>7, <2>1, <3>2
  <2> QED
    BY <2>1 DEF LiveReply
<1>13. ConsentQueue'
  BY <1>2 DEF FilesInv, ConsentInv, ConsentQueue, Consented
<1> QED
  BY <1>1, <1>5, <1>6, <1>8, <1>10, <1>11, <1>12, <1>13 DEF FilesInv, PacketInv, LiveInv, ConsentInv

\* Of a step that serves nothing.
LEMMA HandlersKept ==
    ASSUME FilesInv, UNCHANGED handlerVars, UNCHANGED <<copied, remote_queue, wire>>
    PROVE  /\ HandlerTypes' /\ SourceInv' /\ DepacketizerInv' /\ NoTruncatedFile' /\ CopiedInv'
           /\ copied' \in SUBSET Files /\ PacketQueue'
           /\ packetizer' = packetizer /\ depacketizer' = depacketizer /\ remote_queue' = remote_queue
<1>1. /\ packetizer' = packetizer /\ depacketizer' = depacketizer /\ disk' = disk /\ dirs' = dirs
      /\ faults' = faults /\ remote_queue' = remote_queue /\ wire' = wire /\ copied' = copied
  BY DEF handlerVars
<1>2. HandlerTypes' /\ copied' \in SUBSET Files
  BY <1>1 DEF FilesInv, TypeOK, HandlerTypes
<1>3. SourceInv' /\ DepacketizerInv' /\ NoTruncatedFile' /\ CopiedInv' /\ PacketQueue'
  BY <1>1 DEF FilesInv, SourceInv, DepacketizerInv, NoTruncatedFile, CopiedInv, PacketInv, PacketQueue
<1> QED
  BY <1>1, <1>2, <1>3

LEMMA OnTransferRequestStep ==
    ASSUME FilesInv, OnTransferRequest PROVE FilesInv'
<1> DEFINE out == Out(transfer, << Event("start") >>, <<>>)
<1>1. /\ events # <<>> /\ Head(events).at = "request" /\ transfer' = out.t
      /\ events' = Tail(events) \o out.posts /\ signals' = signals \o out.sigs
      /\ UNCHANGED <<type, started, window, granted>> /\ UNCHANGED handlerVars
      /\ UNCHANGED <<copied, remote_queue, wire>>
  BY DEF OnTransferRequest, Handling, Done, windowVars
<1>2. out.t = transfer /\ out.posts = << Event("start") >> /\ out.sigs = <<>>
  BY OutFacts
<1> HIDE DEF out
<1>3. /\ transfer \in Transfers /\ events \in Seq(Events) /\ Consents(transfer)
      /\ signals \in Seq(ErrorTypes \union {"finished"}) /\ remote_queue \in Seq(Requests)
  BY DEF FilesInv, TypeOK, ConsentInv
<1>4. LiveEvent(events[1])
  <2>1. events[1].at = "request"
    BY <1>1, <1>3, TailFacts
  <2> QED
    BY <2>1 DEF LiveEvent
<1>5. OutcomeTypes(out)
  <2>1. << Event("start") >> \in Seq(Events)
    BY EventsMade
  <2> QED
    BY <1>2, <1>3, <2>1 DEF OutcomeTypes
<1>6. Begins(out)
  BY <1>2 DEF Begins
<1>7. Settled(out, Tail(events))
  BY <1>1, <1>2, <1>3, <1>4, <1>5, <1>6, HeadDrives DEF Settled
<1> QED
  BY <1>1, <1>4, <1>7, HandlersKept, SettleStep

LEMMA StartStep ==
    ASSUME FilesInv, Start PROVE FilesInv'
<1> DEFINE u == [transfer EXCEPT !.builder = "held", !.pending = Items]
           out == DoPendingTasks(u)
<1>1. /\ events # <<>> /\ Head(events).at = "start" /\ transfer' = out.t
      /\ events' = Tail(events) \o out.posts /\ signals' = signals \o out.sigs
      /\ UNCHANGED <<type, started, window, granted>> /\ UNCHANGED handlerVars
      /\ UNCHANGED <<copied, remote_queue, wire>>
  BY DEF Start, Handling, Done, windowVars
<1>2. /\ transfer \in Transfers /\ events \in Seq(Events) /\ Consents(transfer)
      /\ signals \in Seq(ErrorTypes \union {"finished"}) /\ remote_queue \in Seq(Requests)
  BY DEF FilesInv, TypeOK, ConsentInv
<1>3. LiveEvent(events[1])
  <2>1. events[1].at = "start"
    BY <1>1, <1>2, TailFacts
  <2> QED
    BY <2>1 DEF LiveEvent
<1>4. /\ u \in Transfers /\ u.alive = transfer.alive /\ u.tasks = transfer.tasks
      /\ u.overwrite = transfer.overwrite /\ u.actions = transfer.actions
  BY <1>2, ConstantFacts DEF Transfers
<1> HIDE DEF u
<1>5. Consents(u)
  BY <1>2, <1>4 DEF Consents
<1>6. transfer.alive /\ started \in 1 .. MaxTransfers
  BY <1>1, <1>3, HeadDrives
<1>7. Outcome(u, out, packetizer', depacketizer', remote_queue')
  BY <1>4, <1>5, <1>6, PendingOutcome
<1> HIDE DEF out
<1>8. Settled(out, Tail(events))
  BY <1>1, <1>2, <1>3, <1>4, <1>6, <1>7, HeadDrives DEF Settled, Outcome
<1> QED
  BY <1>1, <1>3, <1>8, HandlersKept, SettleStep

LEMMA ActionStep ==
    ASSUME FilesInv, Action PROVE FilesInv'
<1> DEFINE e == events[1].error
           a == events[1].action
           out == SetAction(transfer, e, a)
<1>0. /\ transfer \in Transfers /\ events \in Seq(Events) /\ Consents(transfer)
      /\ signals \in Seq(ErrorTypes \union {"finished"}) /\ remote_queue \in Seq(Requests)
  BY DEF FilesInv, TypeOK, ConsentInv
<1>1. /\ events # <<>> /\ events[1].at = "action" /\ transfer' = out.t
      /\ events' = Tail(events) \o out.posts /\ signals' = signals \o out.sigs
      /\ UNCHANGED <<type, started, window, granted>> /\ UNCHANGED handlerVars
      /\ UNCHANGED <<copied, remote_queue, wire>>
  <2>1. events # <<>> /\ Head(events).at = "action"
    BY DEF Action, Handling
  <2>2. Head(events) = events[1]
    BY <1>0, <2>1, TailFacts
  <2> QED
    BY <2>1, <2>2 DEF Action, Done, windowVars
<1>2. LiveEvent(events[1]) /\ 1 \in 1 .. Len(events) /\ e \in ErrorTypes
  <2>1. 1 \in 1 .. Len(events) /\ events[1] \in Events
    BY <1>0, <1>1, TailFacts
  <2> QED
    BY <1>1, <2>1, EventTypes DEF LiveEvent
<1>3. transfer.alive /\ started \in 1 .. MaxTransfers
  BY <1>1, <1>2, HeadDrives
<1>4. /\ ErrorFits(e, transfer) /\ a \in AvailableActions(e)
      /\ a = "replace_all" => Files \subseteq granted
      /\ a = "replace" => transfer.tasks[1] \in granted
  BY <1>1, <1>2, <1>3 DEF FilesInv, ErrorInv
<1> HIDE DEF e, a
<1>5. Outcome(transfer, out, packetizer', depacketizer', remote_queue')
  BY <1>0, <1>2, <1>3, <1>4, SetActionOutcome
<1> HIDE DEF out
<1>6. Settled(out, Tail(events))
  BY <1>0, <1>1, <1>2, <1>3, <1>5, HeadDrives DEF Settled, Outcome
<1> QED
  BY <1>1, <1>2, <1>6, HandlersKept, SettleStep

\* When the first event is a task, no later task and no request in the queue is of the
\* transfer that is alive.
LEMMA HeadTask ==
    ASSUME FilesInv, events # <<>>, events[1].at = "task"
    PROVE  /\ \A i \in 1 .. Len(events) : i > 1 => ~ (events[i].at = "task" /\ Live(events[i].request))
           /\ \A i \in 1 .. Len(remote_queue) : ~ Live(remote_queue[i])
           /\ 1 \in 1 .. Len(events) /\ events[1] = Head(events) /\ events[1].request \in Requests
<1>1. /\ 1 \in 1 .. Len(events) /\ events[1] = Head(events) /\ events[1] \in Events
      /\ Len(events) \in Nat
  BY TailFacts DEF FilesInv, TypeOK
<1>2. events[1].request \in Requests
  BY <1>1, EventTypes
<1>3. ASSUME NEW i \in 1 .. Len(events), i > 1, events[i].at = "task", Live(events[i].request)
      PROVE  FALSE
  <2>1. LiveEvent(events[i]) /\ transfer.alive
    BY <1>3 DEF LiveEvent, Live
  <2>2. \A j \in 1 .. Len(events) : events[j].at # "request"
    <3>1. ASSUME NEW j \in 1 .. Len(events), events[j].at = "request" PROVE FALSE
      <4>1. LiveEvent(events[j])
        BY <3>1 DEF LiveEvent
      <4>2. j = i
        BY <2>1, <4>1 DEF FilesInv, OneDriver
      <4> QED
        BY <1>3, <3>1, <4>2
    <3> QED
      BY <3>1
  <2>3. events[1].request.by = started
    BY <1>1, <2>1, <2>2 DEF FilesInv, OrderInv
  <2>4. LiveEvent(events[1])
    BY <2>1, <2>3 DEF LiveEvent, Live
  <2>5. i = 1
    BY <1>1, <2>1, <2>4 DEF FilesInv, OneDriver
  <2> QED
    BY <1>3, <2>5
<1>4. ASSUME NEW i \in 1 .. Len(remote_queue), Live(remote_queue[i])
      PROVE  FALSE
  <2>1. InQueue /\ transfer.alive
    BY <1>4 DEF InQueue, Live
  <2>2. ~ InEvents
    BY <2>1 DEF FilesInv, OneDriver
  <2>3. \A j \in 1 .. Len(events) : events[j].at # "request"
    BY <2>2 DEF InEvents, LiveEvent
  <2>4. events[1].request.by = started
    BY <1>1, <2>1, <2>3 DEF FilesInv, OrderInv
  <2>5. LiveEvent(events[1])
    BY <2>1, <2>4 DEF LiveEvent, Live
  <2> QED
    BY <1>1, <2>2, <2>5 DEF InEvents
<1> QED
  BY <1>1, <1>2, <1>3, <1>4

\* The copy that a reply confirms.
LEMMA ConfirmedKept ==
    ASSUME NEW req, NEW rep, NEW kept \in SUBSET Files, NEW dsk, NEW dep, Kept(kept, dsk, dep),
           NEW pk, Live(req) => ReplyFits(req, rep, transfer, pk, dep, dsk),
           transfer \in Transfers
    PROVE  /\ kept \union Confirms(req, rep) \in SUBSET Files
           /\ Kept(kept \union Confirms(req, rep), dsk, dep)
           /\ ~ Live(req) => Confirms(req, rep) = {}
<1>1. CASE /\ Heard(req) /\ transfer.tasks # <<>> /\ req.kind = "packet" /\ rep = Ok
           /\ req.packet.last /\ ~ IsCancelPacket(req.packet)
  <2>1. Live(req) /\ Confirms(req, rep) = {Head(transfer.tasks)} /\ rep.code = "ok"
    BY <1>1, ReplyCodes DEF Confirms, Heard, Live
  <2>2. Head(transfer.tasks) = transfer.tasks[1]
    <3>1. transfer.tasks \in Seq(Paths)
      BY DEF Transfers
    <3> QED
      BY <1>1, <3>1, TailFacts
  <2>3. /\ transfer.tasks[1] \in Files /\ dep = <<>>
        /\ ~ RemovesOpenFiles => dsk[transfer.tasks[1]] = Content(transfer.tasks[1])
    BY <1>1, <2>1 DEF ReplyFits
  <2> QED
    BY <2>1, <2>2, <2>3 DEF Kept
<1>2. CASE ~ (/\ Heard(req) /\ transfer.tasks # <<>> /\ req.kind = "packet" /\ rep = Ok
              /\ req.packet.last /\ ~ IsCancelPacket(req.packet))
  <2>1. Confirms(req, rep) = {}
    BY <1>2 DEF Confirms
  <2>2. kept \union Confirms(req, rep) = kept
    BY <2>1
  <2> QED
    BY <2>1, <2>2
<1> QED
  BY <1>1, <1>2

\* A task that was served here.
LEMMA LocalTaskStep ==
    ASSUME FilesInv, LocalTask
    PROVE  /\ FilesInv'
           /\ \A f \in Files : disk[f] = Old(f) /\ disk'[f] # Old(f) => f \in granted
<1> DEFINE req == events[1].request
<1>0. /\ transfer \in Transfers /\ events \in Seq(Events) /\ Consents(transfer)
      /\ signals \in Seq(ErrorTypes \union {"finished"}) /\ remote_queue \in Seq(Requests)
      /\ HandlerTypes /\ SourceInv /\ DepacketizerInv /\ NoTruncatedFile /\ CopiedInv
      /\ copied \in SUBSET Files /\ started \in 0 .. MaxTransfers
      /\ type \in {"uploader", "downloader"}
      /\ window \in [shown : BOOLEAN, stopping : BOOLEAN, prompt : ErrorTypes \union {"none"}]
  BY DEF FilesInv, TypeOK, ConsentInv, HandlerTypes
<1>1. events # <<>> /\ Head(events).at = "task"
  BY DEF LocalTask, Handling
<1>2. events[1] = Head(events)
  BY <1>0, <1>1, TailFacts
<1>3. /\ \A i \in 1 .. Len(events) : i > 1 => ~ (events[i].at = "task" /\ Live(events[i].request))
      /\ \A i \in 1 .. Len(remote_queue) : ~ Live(remote_queue[i])
      /\ 1 \in 1 .. Len(events) /\ req \in Requests /\ events[1].at = "task"
  BY <1>1, <1>2, HeadTask
<1>4. PICK rep \in Replies :
        /\ DoRequest(req, rep) /\ Done(OnReply(req, rep))
        /\ copied' = (copied \ Forget(req, rep)) \union Confirms(req, rep)
  BY <1>2 DEF LocalTask
<1>5. /\ IsLocal(req) /\ UNCHANGED <<type, started, window, granted>> /\ UNCHANGED <<remote_queue, wire>>
  BY <1>2 DEF LocalTask, windowVars
<1>6. /\ Consented(req)
      /\ req.kind = "packet" => /\ PacketFits(req.packet, depacketizer)
                                /\ \A j \in 1 .. Len(events) : events[j].at = "task" => j = 1
      /\ Live(req) => /\ RequestFits(req, transfer, packetizer, depacketizer)
                      /\ Follows(req) => remote_queue = <<>>
  BY <1>3 DEF FilesInv, ConsentInv, ConsentTasks, PacketInv, PacketTasks, LiveInv, LiveTasks
<1> HIDE DEF req
<1>7. HandlerTypes' /\ SourceInv' /\ TargetGood(copied \ Forget(req, rep))
  BY <1>0, <1>3, <1>4, <1>6, ServeGood
<1>8. /\ DepacketizerInv' /\ NoTruncatedFile' /\ Kept(copied \ Forget(req, rep), disk', depacketizer')
      /\ \A f \in Files : disk[f] = Old(f) /\ disk'[f] # Old(f) => f \in granted
  BY <1>7 DEF TargetGood
<1>9. Live(req) => ReplyFits(req, rep, transfer, packetizer', depacketizer', disk')
  BY <1>0, <1>3, <1>4, <1>6, ServeLive
<1>10. copied' \in SUBSET Files /\ CopiedInv'
  <2> DEFINE kept == copied \ Forget(req, rep)
  <2>1. kept \in SUBSET Files
    BY <1>0
  <2> HIDE DEF kept
  <2>2. /\ kept \union Confirms(req, rep) \in SUBSET Files
        /\ Kept(kept \union Confirms(req, rep), disk', depacketizer')
    BY <1>0, <1>8, <1>9, <2>1, ConfirmedKept DEF kept
  <2>3. copied' = kept \union Confirms(req, rep)
    BY <1>4 DEF kept
  <2> QED
    BY <2>2, <2>3 DEF CopiedInv
<1>11. PacketQueue'
  <2>1. ASSUME NEW i \in 1 .. Len(remote_queue'), remote_queue'[i].kind = "packet"
        PROVE  i = 1 /\ (wire' # <<>> => PacketFits(remote_queue'[i].packet, depacketizer'))
    <3>1. /\ remote_queue' = remote_queue /\ wire' = wire /\ i \in 1 .. Len(remote_queue)
          /\ remote_queue[i].kind = "packet"
      BY <1>5, <2>1
    <3>2. i = 1 /\ (wire # <<>> => PacketFits(remote_queue[i].packet, depacketizer))
      BY <3>1 DEF FilesInv, PacketInv, PacketQueue
    <3>3. ~ IsLocal(remote_queue[i])
      BY <3>1 DEF FilesInv, QueueInv
    <3>4. req.kind \in SourceKinds
      BY <1>0, <1>5, <3>1, <3>3 DEF IsLocal, SourceKinds
    <3>5. depacketizer' = depacketizer
      BY <1>3, <1>4, <3>4, ServeTarget
    <3> QED
      BY <3>1, <3>2, <3>5
  <2> QED
    BY <2>1 DEF PacketQueue
<1>12. rep \in ReplyRecords
  BY <1>0, <1>4, ReplyTypes
<1>13. /\ Outcome(transfer, OnReply(req, rep), packetizer', depacketizer', remote_queue')
       /\ ~ Live(req) => OnReply(req, rep) = Out(transfer, <<>>, <<>>)
  <2>1. Live(req) /\ (Follows(req) \/ ~ IsLocal(req)) => remote_queue' = <<>>
    BY <1>5, <1>6
  <2> QED
    BY <1>0, <1>3, <1>9, <1>12, <2>1, ReplyOutcome
<1>14. CASE Live(req)
  <2> DEFINE out == OnReply(req, rep)
  <2>1. /\ transfer' = out.t /\ events' = Tail(events) \o out.posts /\ signals' = signals \o out.sigs
    BY <1>4 DEF Done
  <2>2. Outcome(transfer, out, packetizer', depacketizer', remote_queue')
    BY <1>13
  <2> HIDE DEF out
  <2>3. LiveEvent(events[1])
    BY <1>3, <1>14 DEF LiveEvent, req
  <2>4. remote_queue' \in Seq(Requests) /\ remote_queue' = remote_queue
    BY <1>0, <1>5
  <2>5. Settled(out, Tail(events))
    BY <1>0, <1>1, <1>5, <2>1, <2>2, <2>3, <2>4, HeadDrives DEF Settled, Outcome
  <2>6. FilesInv'
    BY <1>1, <1>5, <1>7, <1>8, <1>10, <1>11, <2>3, <2>5, SettleStep
  <2> QED
    BY <1>8, <2>6
<1>15. CASE ~ Live(req)
  <2>1. transfer' = transfer /\ events' = Tail(events) \o <<>> /\ signals' = signals \o <<>>
    <3>1. OnReply(req, rep) = Out(transfer, <<>>, <<>>)
      BY <1>13, <1>15
    <3> DEFINE out == OnReply(req, rep)
    <3>2. out.t = transfer /\ out.posts = <<>> /\ out.sigs = <<>>
      BY <3>1, OutFacts
    <3>3. transfer' = out.t /\ events' = Tail(events) \o out.posts /\ signals' = signals \o out.sigs
      BY <1>4 DEF Done
    <3> HIDE DEF out
    <3> QED
      BY <3>2, <3>3
  <2>2. signals' = signals
    BY <1>0, <2>1
  <2>3. Shifted(1) /\ \A i \in 1 .. Len(events') : events'[i].at = "reply" => i + 1 \in 1 .. Len(events)
    <3> DEFINE posts == <<>>
    <3>1. /\ posts \in Seq(Events) /\ \A i \in 1 .. Len(posts) : posts[i].at \in Deletes
      OBVIOUS
    <3>2. posts = <<>> /\ events' = Tail(events) \o posts
      BY <2>1
    <3> HIDE DEF posts
    <3> QED
      BY <1>0, <1>1, <1>3, <3>1, <3>2, ShiftTail
  <2>4. SameWork
    BY <1>5, <2>1, <2>2 DEF SameWork
  <2>5. \A r : Live(r)' <=> Live(r)
    BY <1>5, <2>1 DEF Live
  <2>6. TypeOK'
    BY <1>0, <1>5, <1>7, <1>10, <2>1, <2>2, <2>3 DEF FilesInv, TypeOK, HandlerTypes, Shifted
  <2>7. StartedInv'
    BY <1>5, <2>1 DEF FilesInv, StartedInv
  <2>8. OneDriver'
    <3>1. InQueue' => InQueue
      BY <1>5, <2>5 DEF InQueue
    <3> QED
      BY <2>3, <2>4, <3>1, ShiftedDriver DEF FilesInv
  <2>9. OrderInv'
    BY <1>5, <2>1, <2>3, ShiftedOrder DEF FilesInv
  <2>10. QueueInv'
    BY <1>5, <2>5 DEF FilesInv, QueueInv, IsLocal
  <2>11. \A i \in 1 .. Len(events') : events'[i].at \in {"task", "reply"} =>
            i + 1 \in 1 .. Len(events) /\ i + 1 > 1 /\ events'[i] = events[i + 1]
    <3>1. ASSUME NEW i \in 1 .. Len(events'), events'[i].at \in {"task", "reply"}
          PROVE  i + 1 \in 1 .. Len(events) /\ i + 1 > 1 /\ events'[i] = events[i + 1]
      <4>1. i + 1 \in 1 .. Len(events)
        BY <2>3, <3>1 DEF Shifted, Quiet, Deletes
      <4>2. Len(events) \in Nat /\ i + 1 <= Len(events) /\ i + 1 > 1
        BY <1>0, <4>1
      <4> QED
        BY <2>3, <4>1, <4>2 DEF Shifted
    <3> QED
      BY <3>1
  <2>12. ReplyInv'
    <3>1. ASSUME NEW i \in 1 .. Len(events'), NEW j \in 1 .. Len(events'),
                 events'[i].at = "reply", events'[j].at = "reply"
          PROVE  i = j
      <4>1. i + 1 = j + 1
        BY <2>11, <3>1 DEF FilesInv, ReplyInv
      <4> QED
        BY <4>1
    <3> QED
      BY <1>5, <2>11, <3>1 DEF FilesInv, ReplyInv
  <2>13. PacketTasks'
    <3>1. ASSUME NEW i \in 1 .. Len(events'), events'[i].at = "task", events'[i].request.kind = "packet"
          PROVE  FALSE
      <4>1. i + 1 \in 1 .. Len(events) /\ events[i + 1].at = "task" /\ events[i + 1].request.kind = "packet"
            /\ i + 1 > 1
        BY <2>11, <3>1
      <4>2. 1 = i + 1
        BY <1>3, <4>1 DEF FilesInv, PacketInv, PacketTasks
      <4> QED
        BY <4>1, <4>2
    <3> QED
      BY <3>1 DEF PacketTasks
  <2>14. LiveTasks'
    BY <1>3, <2>5, <2>11 DEF LiveTasks
  <2>15. LiveQueue'
    BY <1>3, <1>5, <2>5 DEF LiveQueue
  <2>16. LiveReply'
    <3>1. ASSUME NEW i \in 1 .. Len(events'), events'[i].at = "reply", Live(remote_queue[1])'
          PROVE  FALSE
      <4>1. remote_queue # <<>>
        BY <2>11, <3>1 DEF FilesInv, ReplyInv
      <4>2. 1 \in 1 .. Len(remote_queue)
        BY <1>0, <4>1
      <4>3. Live(remote_queue[1])
        BY <1>5, <2>5, <3>1
      <4> QED
        BY <1>3, <4>2, <4>3
    <3> QED
      BY <3>1 DEF LiveReply
  <2>17. ErrorInv'
    BY <2>3, <2>4, ShiftedError DEF FilesInv
  <2>18. ConsentInv'
    <3>1. Consents(transfer)' /\ ConsentTasks'
      BY <2>3, <2>4, ShiftedConsent DEF FilesInv, ConsentInv
    <3>2. ConsentQueue'
      BY <1>5 DEF FilesInv, ConsentInv, ConsentQueue, Consented
    <3> QED
      BY <3>1, <3>2 DEF ConsentInv
  <2> QED
    BY <1>7, <1>8, <1>10, <1>11, <2>6, <2>7, <2>8, <2>9, <2>10, <2>12, <2>13, <2>14, <2>15, <2>16, <2>17, <2>18
       DEF FilesInv, PacketInv, LiveInv
<1> QED
  BY <1>14, <1>15

\* A task for the other computer.
LEMMA RemoteTaskStep ==
    ASSUME FilesInv, RemoteTask PROVE FilesInv'
<1> DEFINE req == events[1].request
<1>0. /\ transfer \in Transfers /\ events \in Seq(Events) /\ remote_queue \in Seq(Requests)
      /\ signals \in Seq(ErrorTypes \union {"finished"}) /\ wire \in Seq(Requests) /\ Len(wire) <= 1
      /\ window \in [shown : BOOLEAN, stopping : BOOLEAN, prompt : ErrorTypes \union {"none"}]
      /\ started \in 0 .. MaxTransfers /\ Len(remote_queue) \in Nat
  BY DEF FilesInv, TypeOK
<1>1. events # <<>> /\ Head(events).at = "task"
  BY DEF RemoteTask, Handling
<1>2. events[1] = Head(events)
  BY <1>0, <1>1, TailFacts
<1>3. /\ \A i \in 1 .. Len(events) : i > 1 => ~ (events[i].at = "task" /\ Live(events[i].request))
      /\ \A i \in 1 .. Len(remote_queue) : ~ Live(remote_queue[i])
      /\ 1 \in 1 .. Len(events) /\ req \in Requests /\ events[1].at = "task"
  BY <1>1, <1>2, HeadTask
<1>4. /\ ~ IsLocal(req) /\ remote_queue' = Append(remote_queue, req)
      /\ wire' = IF remote_queue = <<>> THEN <<req>> ELSE wire
      /\ transfer' = transfer /\ events' = Tail(events) \o <<>> /\ signals' = signals \o <<>>
      /\ UNCHANGED <<type, started, window, granted>> /\ UNCHANGED handlerVars /\ copied' = copied
  BY <1>2 DEF RemoteTask, Done, Out, windowVars
<1>5. signals' = signals /\ packetizer' = packetizer /\ depacketizer' = depacketizer
  BY <1>0, <1>4 DEF handlerVars
<1>6. /\ Consented(req) /\ req.by <= started
      /\ req.kind = "packet" => /\ PacketFits(req.packet, depacketizer) /\ remote_queue = <<>>
                                /\ \A j \in 1 .. Len(events) : events[j].at = "task" => j = 1
      /\ Live(req) => /\ RequestFits(req, transfer, packetizer, depacketizer)
                      /\ Follows(req) => remote_queue = <<>>
  BY <1>3 DEF FilesInv, OrderInv, ConsentInv, ConsentTasks, PacketInv, PacketTasks, LiveInv, LiveTasks
<1>7. Live(req) => LiveEvent(events[1])
  BY <1>3 DEF LiveEvent
<1> HIDE DEF req
<1>8. Shifted(1) /\ \A i \in 1 .. Len(events') : events'[i].at = "reply" => i + 1 \in 1 .. Len(events)
  <2> DEFINE posts == <<>>
  <2>1. /\ posts \in Seq(Events) /\ \A i \in 1 .. Len(posts) : posts[i].at \in Deletes
    OBVIOUS
  <2>2. posts = <<>> /\ events' = Tail(events) \o posts
    BY <1>4
  <2> HIDE DEF posts
  <2> QED
    BY <1>0, <1>1, <1>3, <2>1, <2>2, ShiftTail
<1>9. SameWork
  BY <1>4, <1>5 DEF SameWork
<1>10. \A r : Live(r)' <=> Live(r)
  BY <1>4 DEF Live
<1>11. /\ remote_queue' \in Seq(Requests) /\ Len(remote_queue') = Len(remote_queue) + 1
       /\ \A i \in 1 .. Len(remote_queue) : remote_queue'[i] = remote_queue[i]
       /\ \A i \in 1 .. Len(remote_queue') :
            \/ i \in 1 .. Len(remote_queue) /\ remote_queue'[i] = remote_queue[i]
            \/ i = Len(remote_queue') /\ remote_queue'[i] = req
       /\ remote_queue' # <<>>
  <2>1. /\ remote_queue' \in Seq(Requests) /\ Len(remote_queue') = Len(remote_queue) + 1
        /\ \A i \in 1 .. Len(remote_queue) : remote_queue'[i] = remote_queue[i]
        /\ \A i \in 1 .. Len(remote_queue') :
             \/ i \in 1 .. Len(remote_queue) /\ remote_queue'[i] = remote_queue[i]
             \/ i = Len(remote_queue) + 1 /\ remote_queue'[i] = req
    BY <1>0, <1>3, <1>4, AppendFacts
  <2>2. remote_queue' # <<>>
    BY <1>0, <2>1
  <2> QED
    BY <2>1, <2>2
<1>12. TypeOK'
  <2>1. wire' \in Seq(Requests) /\ Len(wire') <= 1
    <3>1. CASE remote_queue = <<>>
      BY <1>3, <1>4, <3>1, SingleMade
    <3>2. CASE remote_queue # <<>>
      BY <1>0, <1>4, <3>2
    <3> QED
      BY <3>1, <3>2
  <2> QED
    BY <1>4, <1>5, <1>8, <1>11, <2>1 DEF FilesInv, TypeOK, Shifted, handlerVars
<1>13. StartedInv'
  BY <1>4 DEF FilesInv, StartedInv
<1>14. \A i \in 1 .. Len(events') : events'[i].at \in {"task", "reply"} =>
          i + 1 \in 1 .. Len(events) /\ i + 1 > 1 /\ events'[i] = events[i + 1]
  <2>1. ASSUME NEW i \in 1 .. Len(events'), events'[i].at \in {"task", "reply"}
        PROVE  i + 1 \in 1 .. Len(events) /\ i + 1 > 1 /\ events'[i] = events[i + 1]
    <3>1. i + 1 \in 1 .. Len(events)
      BY <1>8, <2>1 DEF Shifted, Quiet, Deletes
    <3>2. Len(events) \in Nat /\ i + 1 <= Len(events) /\ i + 1 > 1
      BY <1>0, <3>1
    <3> QED
      BY <1>8, <3>1, <3>2 DEF Shifted
  <2> QED
    BY <2>1
<1>15. OneDriver'
  <2>1. CASE ~ Live(req)
    <3>1. InQueue' => InQueue
      BY <1>3, <1>10, <1>11, <2>1 DEF InQueue
    <3> QED
      BY <1>8, <1>9, <3>1, ShiftedDriver DEF FilesInv
  <2>2. CASE Live(req)
    <3>1. /\ \A i \in 1 .. Len(Tail(events)) : Tail(events)[i].at \in Quiet
          /\ \A i \in 1 .. Len(signals) : signals[i] = "finished"
          /\ window.prompt = "none" /\ Tail(events) \in Seq(Events)
      BY <1>1, <1>7, <2>2, HeadDrives
    <3>2. events' = Tail(events)
      BY <1>4, <3>1
    <3>3. \A i \in 1 .. Len(events') : ~ LiveEvent(events[i])'
      BY <3>1, <3>2 DEF LiveEvent, Quiet, Deletes
    <3>4. ~ InEvents' /\ ~ Signalled' /\ ~ Asked'
      BY <1>4, <1>5, <3>1, <3>3 DEF InEvents, Signalled, Asked
    <3> QED
      BY <1>5, <3>1, <3>3, <3>4 DEF OneDriver
  <2> QED
    BY <2>1, <2>2
<1>16. OrderInv'
  BY <1>4, <1>8, ShiftedOrder DEF FilesInv
<1>17. QueueInv'
  <2>1. ASSUME NEW i \in 1 .. Len(remote_queue')
        PROVE  /\ ~ IsLocal(remote_queue[i])' /\ remote_queue'[i].by <= started'
               /\ Live(remote_queue[i])' => i = Len(remote_queue')
    <3>1. CASE i \in 1 .. Len(remote_queue) /\ remote_queue'[i] = remote_queue[i]
      BY <1>3, <1>4, <1>10, <3>1 DEF FilesInv, QueueInv, IsLocal
    <3>2. CASE i = Len(remote_queue') /\ remote_queue'[i] = req
      BY <1>4, <1>6, <3>2 DEF IsLocal
    <3> QED
      BY <1>11, <3>1, <3>2
  <2> QED
    BY <2>1 DEF QueueInv
<1>18. ReplyInv'
  <2>1. ASSUME NEW i \in 1 .. Len(events'), NEW j \in 1 .. Len(events'),
               events'[i].at = "reply", events'[j].at = "reply"
        PROVE  i = j
    <3>1. i + 1 = j + 1
      BY <1>14, <2>1 DEF FilesInv, ReplyInv
    <3> QED
      BY <3>1
  <2>2. ASSUME NEW i \in 1 .. Len(events'), events'[i].at = "reply"
        PROVE  wire' = <<>>
    BY <1>4, <1>14, <2>2 DEF FilesInv, ReplyInv
  <2>3. wire' # <<>> => wire'[1] = remote_queue'[1]
    <3>1. CASE remote_queue = <<>>
      <4>1. Len(remote_queue) = 0 /\ 1 \in 1 .. Len(remote_queue')
        BY <1>11, <3>1
      <4>2. remote_queue'[1] = req /\ wire' = <<req>>
        BY <1>4, <1>11, <3>1, <4>1
      <4> QED
        BY <4>2
    <3>2. CASE remote_queue # <<>>
      <4>1. 1 \in 1 .. Len(remote_queue)
        BY <1>0, <3>2
      <4>2. remote_queue'[1] = remote_queue[1] /\ wire' = wire
        BY <1>4, <1>11, <3>2, <4>1
      <4> QED
        BY <4>2 DEF FilesInv, ReplyInv
    <3> QED
      BY <3>1, <3>2
  <2> QED
    BY <1>11, <2>1, <2>2, <2>3 DEF ReplyInv
<1>19. SourceInv' /\ DepacketizerInv' /\ CopiedInv' /\ NoTruncatedFile'
  BY <1>4 DEF handlerVars, FilesInv, SourceInv, DepacketizerInv, CopiedInv, NoTruncatedFile
<1>20. PacketTasks'
  <2>1. ASSUME NEW i \in 1 .. Len(events'), events'[i].at = "task", events'[i].request.kind = "packet"
        PROVE  FALSE
    <3>1. i + 1 \in 1 .. Len(events) /\ events[i + 1].at = "task" /\ events[i + 1].request.kind = "packet"
          /\ i + 1 > 1
      BY <1>14, <2>1
    <3>2. 1 = i + 1
      BY <1>3, <3>1 DEF FilesInv, PacketInv, PacketTasks
    <3> QED
      BY <3>1, <3>2
  <2> QED
    BY <2>1 DEF PacketTasks
<1>21. PacketQueue'
  <2>1. ASSUME NEW i \in 1 .. Len(remote_queue'), remote_queue'[i].kind = "packet"
        PROVE  i = 1 /\ (wire' # <<>> => PacketFits(remote_queue'[i].packet, depacketizer'))
    <3>1. CASE i \in 1 .. Len(remote_queue) /\ remote_queue'[i] = remote_queue[i]
      <4>1. wire' = wire
        BY <1>0, <1>4, <3>1
      <4> QED
        BY <1>5, <2>1, <3>1, <4>1 DEF FilesInv, PacketInv, PacketQueue
    <3>2. CASE i = Len(remote_queue') /\ remote_queue'[i] = req
      <4>1. Len(remote_queue) = 0
        BY <1>6, <2>1, <3>2
      <4> QED
        BY <1>5, <1>6, <1>11, <2>1, <3>2, <4>1
    <3> QED
      BY <1>11, <3>1, <3>2
  <2> QED
    BY <2>1 DEF PacketQueue
<1>22. LiveTasks'
  BY <1>3, <1>10, <1>14 DEF LiveTasks
<1>23. LiveQueue'
  <2>1. ASSUME NEW i \in 1 .. Len(remote_queue'), Live(remote_queue[i])'
        PROVE  /\ RequestFits(remote_queue'[i], transfer', packetizer', depacketizer')
               /\ Follows(remote_queue[i])' => Len(remote_queue') = 1
    <3>1. remote_queue'[i] = req /\ Live(req)
      BY <1>3, <1>10, <1>11, <2>1
    <3>2. Follows(remote_queue[i])' <=> Follows(req)
      BY <1>4, <3>1 DEF Follows
    <3>3. remote_queue = <<>> => Len(remote_queue) = 0
      OBVIOUS
    <3> QED
      BY <1>4, <1>5, <1>6, <1>11, <3>1, <3>2, <3>3
  <2> QED
    BY <2>1 DEF LiveQueue
<1>24. LiveReply'
  <2>1. ASSUME NEW i \in 1 .. Len(events'), events'[i].at = "reply", Live(remote_queue[1])'
        PROVE  FALSE
    <3>1. remote_queue # <<>>
      BY <1>14, <2>1 DEF FilesInv, ReplyInv
    <3>2. 1 \in 1 .. Len(remote_queue)
      BY <1>0, <3>1
    <3>3. Live(remote_queue[1])
      BY <1>10, <1>11, <2>1, <3>2
    <3> QED
      BY <1>3, <3>2, <3>3
  <2> QED
    BY <2>1 DEF LiveReply
<1>25. ErrorInv'
  BY <1>8, <1>9, ShiftedError DEF FilesInv
<1>26. ConsentInv'
  <2>1. Consents(transfer)' /\ ConsentTasks'
    BY <1>8, <1>9, ShiftedConsent DEF FilesInv, ConsentInv
  <2>2. ConsentQueue'
    BY <1>4, <1>6, <1>11 DEF FilesInv, ConsentInv, ConsentQueue, Consented
  <2> QED
    BY <2>1, <2>2 DEF ConsentInv
<1> QED
  BY <1>12, <1>13, <1>15, <1>16, <1>17, <1>18, <1>19, <1>20, <1>21, <1>22, <1>23, <1>24, <1>25, <1>26
     DEF FilesInv, PacketInv, LiveInv

\* A request that does not depend on what the other computer serves before it.
LEMMA FitsKept ==
    ASSUME NEW req \in Requests, NEW t, NEW pk, NEW dep, NEW pk2, NEW dep2, ~ Follows(req),
           type \in {"uploader", "downloader"}, type = "uploader" => pk2 = pk,
           RequestFits(req, t, pk, dep)
    PROVE  RequestFits(req, t, pk2, dep2)
<1>1. req.kind \in {"file_list", "create_directory", "download", "upload", "packet_request", "packet"}
  BY RequestTypes
<1>2. req.kind \notin {"packet_request", "packet"} /\ (req.kind = "upload" => pk2 = pk)
  BY DEF Follows
<1> QED
  BY <1>1, <1>2 DEF RequestFits

\* The other computer serves a request.
LEMMA RemoteServeStep ==
    ASSUME FilesInv, RemoteServe
    PROVE  /\ FilesInv'
           /\ \A f \in Files : disk[f] = Old(f) /\ disk'[f] # Old(f) => f \in granted
<1> DEFINE req == remote_queue[1]
<1>0. /\ transfer \in Transfers /\ events \in Seq(Events) /\ remote_queue \in Seq(Requests)
      /\ HandlerTypes /\ SourceInv /\ DepacketizerInv /\ NoTruncatedFile /\ CopiedInv
      /\ copied \in SUBSET Files /\ Len(events) \in Nat
      /\ type \in {"uploader", "downloader"}
  BY DEF FilesInv, TypeOK, HandlerTypes
<1>1. wire # <<>> /\ remote_queue # <<>> /\ wire[1] = req
  BY DEF RemoteServe, FilesInv, ReplyInv
<1>2. 1 \in 1 .. Len(remote_queue) /\ req \in Requests
  BY <1>0, <1>1, TailFacts
<1>3. PICK rep \in Replies :
        /\ DoRequest(req, rep) /\ events' = Append(events, [at |-> "reply", reply |-> rep])
        /\ copied' = copied \ Forget(req, rep)
  BY <1>1 DEF RemoteServe
<1>4. /\ wire' = <<>> /\ transfer' = transfer /\ remote_queue' = remote_queue /\ signals' = signals
      /\ UNCHANGED <<type, started, window, granted>>
  BY DEF RemoteServe, windowVars
<1>5. /\ Consented(req) /\ ~ IsLocal(req)
      /\ req.kind = "packet" => PacketFits(req.packet, depacketizer)
      /\ Live(req) => RequestFits(req, transfer, packetizer, depacketizer)
  BY <1>1, <1>2 DEF FilesInv, ConsentInv, ConsentQueue, QueueInv, PacketInv, PacketQueue, LiveInv, LiveQueue
<1> HIDE DEF req
<1>6. HandlerTypes' /\ SourceInv' /\ TargetGood(copied \ Forget(req, rep))
  BY <1>0, <1>2, <1>3, <1>5, ServeGood
<1>7. /\ DepacketizerInv' /\ NoTruncatedFile' /\ Kept(copied \ Forget(req, rep), disk', depacketizer')
      /\ \A f \in Files : disk[f] = Old(f) /\ disk'[f] # Old(f) => f \in granted
  BY <1>6 DEF TargetGood
<1>8. copied' \in SUBSET Files /\ CopiedInv'
  BY <1>0, <1>3, <1>7 DEF CopiedInv
<1>9. Live(req) => ReplyFits(req, rep, transfer, packetizer', depacketizer', disk')
  BY <1>0, <1>2, <1>3, <1>5, ServeLive
<1>10. type = "uploader" => packetizer' = packetizer
  <2>1. type = "uploader" => req.kind \notin SourceKinds
    BY <1>5 DEF IsLocal
  <2> QED
    BY <1>2, <1>3, <2>1, ServeTarget
<1> DEFINE e == [at |-> "reply", reply |-> rep]
<1>11. e \in Events /\ e.at = "reply" /\ e.reply = rep
  <2>1. rep \in ReplyRecords
    BY <1>0, <1>3, ReplyTypes
  <2> QED
    BY <2>1 DEF Events
<1> HIDE DEF e
<1>12. /\ events' = events \o << e >> /\ << e >> \in Seq(Events) /\ Len(<< e >>) = 1 /\ << e >>[1] = e
       /\ events' = Append(events, e)
  BY <1>0, <1>3, <1>11, AppendConcat DEF e
<1>13. Shifted(0)
  <2> DEFINE posts == << e >>
  <2>1. /\ posts \in Seq(Events) /\ \A i \in 1 .. Len(posts) : posts[i].at = "reply"
    BY <1>11, <1>12
  <2>2. events' = events \o posts
    BY <1>12
  <2> HIDE DEF posts
  <2> QED
    BY <1>0, <2>1, <2>2, ShiftConcat DEF Quiet, Deletes
<1>14. /\ events' \in Seq(Events) /\ Len(events') = Len(events) + 1
       /\ \A i \in 1 .. Len(events) : events'[i] = events[i]
       /\ \A i \in 1 .. Len(events') :
            \/ i \in 1 .. Len(events) /\ events'[i] = events[i]
            \/ i = Len(events') /\ events'[i] = e
  <2>1. /\ events' \in Seq(Events) /\ Len(events') = Len(events) + 1
        /\ \A i \in 1 .. Len(events) : events'[i] = events[i]
        /\ \A i \in 1 .. Len(events') :
             \/ i \in 1 .. Len(events) /\ events'[i] = events[i]
             \/ i = Len(events) + 1 /\ events'[i] = e
    BY <1>0, <1>11, <1>12, AppendFacts
  <2> QED
    BY <2>1
<1>15. \A i \in 1 .. Len(events) : events[i].at # "reply"
  BY <1>1 DEF FilesInv, ReplyInv
<1>16. SameWork
  BY <1>4 DEF SameWork
<1>17. \A r : Live(r)' <=> Live(r)
  BY <1>4 DEF Live
<1>18. TypeOK'
  <2>1. wire' \in Seq(Requests) /\ Len(wire') <= 1
    BY <1>4
  <2> QED
    BY <1>4, <1>6, <1>8, <1>14, <2>1 DEF FilesInv, TypeOK, HandlerTypes
<1>19. StartedInv'
  BY <1>4 DEF FilesInv, StartedInv
<1>20. OneDriver'
  <2>1. InQueue' => InQueue
    BY <1>4, <1>17 DEF InQueue
  <2> QED
    BY <1>13, <1>16, <2>1, ShiftedDriver DEF FilesInv
<1>21. OrderInv'
  BY <1>4, <1>13, ShiftedOrder DEF FilesInv
<1>22. QueueInv'
  BY <1>4, <1>17 DEF FilesInv, QueueInv, IsLocal
<1>23. ReplyInv'
  <2>1. \A i \in 1 .. Len(events') : events'[i].at = "reply" => i = Len(events')
    BY <1>14, <1>15
  <2> QED
    BY <1>1, <1>4, <2>1 DEF ReplyInv
<1>24. \A i \in 1 .. Len(events') : events'[i].at = "task" => i \in 1 .. Len(events) /\ events'[i] = events[i]
  BY <1>11, <1>14
<1>25. PacketTasks'
  <2>1. \A i \in 1 .. Len(events') : ~ (events'[i].at = "task" /\ events'[i].request.kind = "packet")
    BY <1>1, <1>24 DEF FilesInv, PacketInv, PacketTasks
  <2> QED
    BY <2>1 DEF PacketTasks
<1>26. PacketQueue'
  BY <1>4 DEF FilesInv, PacketInv, PacketQueue
<1>27. LiveTasks'
  <2>1. ASSUME NEW i \in 1 .. Len(events'), events'[i].at = "task", Live(events[i].request)'
        PROVE  /\ RequestFits(events'[i].request, transfer', packetizer', depacketizer')
               /\ ~ Follows(events[i].request)'
    <3> DEFINE r == events[i].request
    <3>1. i \in 1 .. Len(events) /\ events'[i] = events[i] /\ events[i].at = "task" /\ Live(r)
      BY <1>17, <1>24, <2>1
    <3>2. RequestFits(r, transfer, packetizer, depacketizer) /\ ~ Follows(r)
      BY <1>1, <3>1 DEF FilesInv, LiveInv, LiveTasks
    <3>3. r \in Requests
      BY <1>0, <3>1, EventTypes
    <3> HIDE DEF r
    <3>4. RequestFits(r, transfer, packetizer', depacketizer')
      BY <1>0, <1>10, <3>2, <3>3, FitsKept
    <3> QED
      BY <1>4, <3>1, <3>2, <3>4 DEF Follows, r
  <2> QED
    BY <2>1 DEF LiveTasks
<1>28. LiveQueue'
  <2>1. ASSUME NEW i \in 1 .. Len(remote_queue), Live(remote_queue[i])
        PROVE  /\ i > 1 => RequestFits(remote_queue[i], transfer, packetizer', depacketizer')
               /\ Follows(remote_queue[i]) => Len(remote_queue) = 1
    <3>1. /\ i > 1 => RequestFits(remote_queue[i], transfer, packetizer, depacketizer)
          /\ Follows(remote_queue[i]) => Len(remote_queue) = 1
          /\ i = Len(remote_queue)
      BY <2>1 DEF FilesInv, LiveInv, LiveQueue, QueueInv
    <3>2. remote_queue[i] \in Requests
      BY <1>0
    <3>3. ASSUME i > 1 PROVE RequestFits(remote_queue[i], transfer, packetizer', depacketizer')
      <4>1. ~ Follows(remote_queue[i])
        BY <3>1, <3>3
      <4> QED
        BY <1>0, <1>10, <3>1, <3>2, <3>3, <4>1, FitsKept
    <3> QED
      BY <3>1, <3>3
  <2>2. \A r : Follows(r)' <=> Follows(r)
    BY <1>4 DEF Follows
  <2> QED
    BY <1>4, <1>17, <2>1, <2>2 DEF LiveQueue
<1>29. LiveReply'
  <2>1. ASSUME NEW i \in 1 .. Len(events'), events'[i].at = "reply", Live(remote_queue[1])'
        PROVE  ReplyFits(remote_queue'[1], events'[i].reply, transfer', packetizer', depacketizer', disk')
    <3>1. events'[i] = e /\ Live(req) /\ remote_queue'[1] = req
      BY <1>4, <1>14, <1>15, <1>17, <2>1 DEF req
    <3> QED
      BY <1>4, <1>9, <1>11, <3>1
  <2> QED
    BY <2>1 DEF LiveReply
<1>30. ErrorInv'
  BY <1>13, <1>16, ShiftedError DEF FilesInv
<1>31. ConsentInv'
  <2>1. Consents(transfer)' /\ ConsentTasks'
    BY <1>13, <1>16, ShiftedConsent DEF FilesInv, ConsentInv
  <2>2. ConsentQueue'
    BY <1>4 DEF FilesInv, ConsentInv, ConsentQueue, Consented
  <2> QED
    BY <2>1, <2>2 DEF ConsentInv
<1> QED
  BY <1>6, <1>7, <1>8, <1>18, <1>19, <1>20, <1>21, <1>22, <1>23, <1>25, <1>26, <1>27, <1>28, <1>29, <1>30, <1>31
     DEF FilesInv, PacketInv, LiveInv

\* The reply of the other computer.
LEMMA OnChannelMessageStep ==
    ASSUME FilesInv, OnChannelMessage PROVE FilesInv'
<1> DEFINE req == remote_queue[1]
           rep == events[1].reply
<1>0. /\ transfer \in Transfers /\ events \in Seq(Events) /\ remote_queue \in Seq(Requests)
      /\ signals \in Seq(ErrorTypes \union {"finished"}) /\ Consents(transfer)
      /\ CopiedInv /\ copied \in SUBSET Files /\ Len(events) \in Nat /\ Len(remote_queue) \in Nat
      /\ type \in {"uploader", "downloader"} /\ started \in 0 .. MaxTransfers
      /\ window \in [shown : BOOLEAN, stopping : BOOLEAN, prompt : ErrorTypes \union {"none"}]
  BY DEF FilesInv, TypeOK, ConsentInv
<1>1. events # <<>> /\ Head(events).at = "reply"
  BY DEF OnChannelMessage, Handling
<1>2. events[1] = Head(events) /\ 1 \in 1 .. Len(events) /\ events[1].at = "reply" /\ rep \in ReplyRecords
  BY <1>0, <1>1, TailFacts, EventTypes
<1>3. remote_queue # <<>> /\ wire = <<>>
  BY <1>2 DEF FilesInv, ReplyInv
<1>4. Head(remote_queue) = req /\ 1 \in 1 .. Len(remote_queue) /\ req \in Requests
  BY <1>0, <1>3, TailFacts
<1>5. /\ Done(OnReply(req, rep)) /\ copied' = copied \union Confirms(req, rep)
      /\ remote_queue' = Tail(remote_queue)
      /\ wire' = IF Len(remote_queue) > 1 THEN << remote_queue[2] >> ELSE <<>>
      /\ UNCHANGED <<type, started, window, granted>> /\ UNCHANGED handlerVars
  BY <1>2, <1>4 DEF OnChannelMessage, windowVars
<1>6. /\ packetizer' = packetizer /\ depacketizer' = depacketizer /\ disk' = disk /\ dirs' = dirs
      /\ faults' = faults
  BY <1>5 DEF handlerVars
<1>7. Live(req) => /\ ReplyFits(req, rep, transfer, packetizer, depacketizer, disk)
                   /\ Len(remote_queue) = 1
  BY <1>2, <1>4 DEF FilesInv, LiveInv, LiveReply, QueueInv
<1>8. /\ remote_queue' \in Seq(Requests) /\ Len(remote_queue') = Len(remote_queue) - 1
      /\ \A i \in 1 .. Len(remote_queue') : i + 1 \in 1 .. Len(remote_queue) /\ remote_queue'[i] = remote_queue[i + 1]
  BY <1>0, <1>3, <1>5, TailFacts
<1>9. Live(req) => remote_queue' = <<>>
  BY <1>7, <1>8
<1>10. \A i \in 1 .. Len(events) : events[i].at = "reply" => i = 1
  BY <1>2 DEF FilesInv, ReplyInv
<1> HIDE DEF req, rep
<1>11. copied' \in SUBSET Files /\ CopiedInv'
  <2>1. Kept(copied, disk, depacketizer)
    BY <1>0 DEF CopiedInv
  <2>2. /\ copied \union Confirms(req, rep) \in SUBSET Files
        /\ Kept(copied \union Confirms(req, rep), disk, depacketizer)
    BY <1>0, <1>7, <2>1, ConfirmedKept
  <2> QED
    BY <1>5, <1>6, <2>2 DEF CopiedInv
<1>12. SourceInv' /\ DepacketizerInv' /\ NoTruncatedFile'
  BY <1>6 DEF FilesInv, SourceInv, DepacketizerInv, NoTruncatedFile
<1>13. /\ Outcome(transfer, OnReply(req, rep), packetizer', depacketizer', remote_queue')
       /\ ~ Live(req) => OnReply(req, rep) = Out(transfer, <<>>, <<>>)
  <2>1. Live(req) => ReplyFits(req, rep, transfer, packetizer', depacketizer', disk')
    BY <1>6, <1>7
  <2> QED
    BY <1>0, <1>2, <1>4, <1>9, <2>1, ReplyOutcome
<1>14. wire' \in Seq(Requests) /\ Len(wire') <= 1
  <2>1. CASE Len(remote_queue) > 1
    <3>1. remote_queue[2] \in Requests
      BY <1>0, <2>1
    <3> QED
      BY <1>5, <2>1, <3>1, SingleMade
  <2>2. CASE ~ (Len(remote_queue) > 1)
    BY <1>5, <2>2
  <2> QED
    BY <2>1, <2>2
<1>15. wire' # <<>> => remote_queue' # <<>> /\ wire'[1] = remote_queue'[1]
  <2>1. CASE Len(remote_queue) > 1
    <3>1. Len(remote_queue') # 0 /\ 1 \in 1 .. Len(remote_queue') /\ remote_queue'[1] = remote_queue[2]
      BY <1>0, <1>8, <2>1
    <3>2. wire'[1] = remote_queue[2]
      BY <1>5, <2>1
    <3> QED
      BY <1>8, <3>1, <3>2
  <2>2. CASE ~ (Len(remote_queue) > 1)
    BY <1>5, <2>2
  <2> QED
    BY <2>1, <2>2
<1>16. ConsentQueue'
  BY <1>5, <1>8 DEF FilesInv, ConsentInv, ConsentQueue, Consented
<1>17. PacketQueue'
  <2>1. \A i \in 1 .. Len(remote_queue') : remote_queue'[i].kind # "packet"
    <3>1. ASSUME NEW i \in 1 .. Len(remote_queue'), remote_queue'[i].kind = "packet" PROVE FALSE
      <4>1. i + 1 = 1
        BY <1>8, <3>1 DEF FilesInv, PacketInv, PacketQueue
      <4> QED
        BY <4>1
    <3> QED
      BY <3>1
  <2> QED
    BY <2>1 DEF PacketQueue
<1>18. ASSUME started' = started, transfer'.alive = transfer.alive
       PROVE  QueueInv'
  <2>1. ASSUME NEW i \in 1 .. Len(remote_queue')
        PROVE  /\ ~ IsLocal(remote_queue[i])' /\ remote_queue'[i].by <= started'
               /\ Live(remote_queue[i])' => i = Len(remote_queue')
    <3>1. /\ i + 1 \in 1 .. Len(remote_queue) /\ remote_queue'[i] = remote_queue[i + 1]
          /\ Live(remote_queue[i])' => Live(remote_queue[i + 1])
      BY <1>8, <1>18 DEF Live
    <3>2. /\ ~ IsLocal(remote_queue[i + 1]) /\ remote_queue[i + 1].by <= started
          /\ Live(remote_queue[i + 1]) => i + 1 = Len(remote_queue)
      BY <3>1 DEF FilesInv, QueueInv
    <3>3. ~ IsLocal(remote_queue[i])'
      BY <1>5, <3>1, <3>2 DEF IsLocal
    <3>4. i + 1 = Len(remote_queue) => i = Len(remote_queue')
      BY <1>0, <1>8
    <3>5. remote_queue'[i].by <= started'
      BY <1>18, <3>1, <3>2
    <3> QED
      BY <3>1, <3>2, <3>3, <3>4, <3>5
  <2> QED
    BY <2>1 DEF QueueInv
<1> DEFINE out == OnReply(req, rep)
<1>19. transfer' = out.t /\ events' = Tail(events) \o out.posts /\ signals' = signals \o out.sigs
  BY <1>5 DEF Done
<1>20. CASE Live(req)
  <2>1. Outcome(transfer, out, packetizer', depacketizer', remote_queue')
    BY <1>13
  <2> HIDE DEF out
  <2>2. InQueue /\ transfer.alive /\ started \in 1 .. MaxTransfers
    BY <1>0, <1>4, <1>20 DEF InQueue, Live, req, FilesInv, StartedInv
  <2>3. ~ InEvents /\ ~ Signalled /\ ~ Asked
    BY <2>2 DEF FilesInv, OneDriver
  <2>4. \A i \in 1 .. Len(events) : events[i].at \in Quiet
    <3>1. \A i \in 1 .. Len(events) : ~ LiveEvent(events[i])
      BY <2>3 DEF InEvents
    <3>2. \A i \in 1 .. Len(events) : events[i].at # "request"
      BY <3>1 DEF LiveEvent
    <3>3. \A i \in 1 .. Len(events) : events[i].at = "task" => events[i].request.by = started
      BY <2>2, <3>2 DEF FilesInv, OrderInv
    <3>4. \A i \in 1 .. Len(events) : events[i].at # "task"
      BY <2>2, <3>1, <3>3 DEF LiveEvent, Live
    <3>5. \A i \in 1 .. Len(events) : events[i].at \in
            {"request", "start", "stop", "delete_builder", "delete_transfer", "task", "reply", "action"}
      BY <1>0, EventTypes
    <3> QED
      BY <3>1, <3>4, <3>5 DEF LiveEvent, Quiet, Deletes
  <2>5. /\ Tail(events) \in Seq(Events)
        /\ \A i \in 1 .. Len(Tail(events)) : i + 1 \in 1 .. Len(events) /\ Tail(events)[i] = events[i + 1]
    BY <1>0, <1>1, TailFacts
  <2>6. Settled(out, Tail(events))
    <3>1. \A i \in 1 .. Len(Tail(events)) : Tail(events)[i].at \in Quiet
      BY <2>4, <2>5
    <3>2. \A i \in 1 .. Len(remote_queue') : remote_queue'[i].by # started
      BY <1>9, <1>20
    <3>3. out.t.alive
      BY <2>1, <2>2 DEF Outcome
    <3> QED
      BY <1>0, <1>5, <1>8, <1>19, <2>1, <2>2, <2>3, <2>5, <3>1, <3>2, <3>3 DEF Settled, Outcome, Signalled, Asked
  <2>7. /\ OneDriver' /\ OrderInv' /\ ErrorInv' /\ Consents(transfer)' /\ ConsentTasks'
        /\ PacketTasks' /\ LiveTasks' /\ ~ InQueue' /\ transfer' \in Transfers
    BY <2>6, Settle
  <2>8. signals' \in Seq(ErrorTypes \union {"finished"})
    BY <2>6, SettledSignals
  <2>9. /\ events' \in Seq(Events)
        /\ \A i \in 1 .. Len(events') : events'[i].at = "reply" =>
              i \in 1 .. Len(Tail(events)) /\ events'[i] = Tail(events)[i]
    BY <2>6, SettledEvents
  <2>10. \A i \in 1 .. Len(events') : events'[i].at # "reply"
    <3>1. ASSUME NEW i \in 1 .. Len(events'), events'[i].at = "reply" PROVE FALSE
      <4>1. i + 1 = 1
        BY <1>10, <2>5, <2>9, <3>1
      <4> QED
        BY <4>1
    <3> QED
      BY <3>1
  <2>11. TypeOK'
    BY <1>5, <1>6, <1>8, <1>11, <1>14, <2>7, <2>8, <2>9 DEF FilesInv, TypeOK
  <2>12. StartedInv'
    <3>1. transfer'.alive /\ started' # 0
      BY <1>5, <1>19, <2>1, <2>2 DEF Outcome
    <3> QED
      BY <3>1 DEF StartedInv
  <2>13. QueueInv' /\ LiveQueue'
    BY <1>9, <1>20 DEF QueueInv, LiveQueue
  <2>14. ReplyInv' /\ LiveReply'
    BY <1>15, <2>10 DEF ReplyInv, LiveReply
  <2> QED
    BY <1>11, <1>12, <1>16, <1>17, <2>7, <2>11, <2>12, <2>13, <2>14 DEF FilesInv, PacketInv, LiveInv, ConsentInv
<1>21. CASE ~ Live(req)
  <2>1. transfer' = transfer /\ events' = Tail(events) \o <<>> /\ signals' = signals \o <<>>
    <3>1. out.t = transfer /\ out.posts = <<>> /\ out.sigs = <<>>
      BY <1>13, <1>21, OutFacts
    <3> HIDE DEF out
    <3> QED
      BY <1>19, <3>1
  <2>2. signals' = signals
    BY <1>0, <2>1
  <2>3. Shifted(1) /\ \A i \in 1 .. Len(events') : events'[i].at = "reply" => i + 1 \in 1 .. Len(events)
    <3> DEFINE posts == <<>>
    <3>1. /\ posts \in Seq(Events) /\ \A i \in 1 .. Len(posts) : posts[i].at \in Deletes
      OBVIOUS
    <3>2. posts = <<>> /\ events' = Tail(events) \o posts
      BY <2>1
    <3> HIDE DEF posts
    <3> QED
      BY <1>0, <1>1, <1>2, <3>1, <3>2, ShiftTail
  <2>4. SameWork
    BY <1>5, <2>1, <2>2 DEF SameWork
  <2>5. \A r : Live(r)' <=> Live(r)
    BY <1>5, <2>1 DEF Live
  <2>6. \A i \in 1 .. Len(events') : events'[i].at \in {"task", "reply"} =>
            i + 1 \in 1 .. Len(events) /\ i + 1 > 1 /\ events'[i] = events[i + 1]
    <3>1. ASSUME NEW i \in 1 .. Len(events'), events'[i].at \in {"task", "reply"}
          PROVE  i + 1 \in 1 .. Len(events) /\ i + 1 > 1 /\ events'[i] = events[i + 1]
      <4>1. i + 1 \in 1 .. Len(events)
        BY <2>3, <3>1 DEF Shifted, Quiet, Deletes
      <4>2. Len(events) \in Nat /\ i + 1 <= Len(events) /\ i + 1 > 1
        BY <1>0, <4>1
      <4> QED
        BY <2>3, <4>1, <4>2 DEF Shifted
    <3> QED
      BY <3>1
  <2>7. \A i \in 1 .. Len(events') : events'[i].at # "reply"
    <3>1. ASSUME NEW i \in 1 .. Len(events'), events'[i].at = "reply" PROVE FALSE
      <4>1. i + 1 = 1 /\ i + 1 > 1
        BY <1>10, <2>6, <3>1
      <4> QED
        BY <4>1
    <3> QED
      BY <3>1
  <2>8. TypeOK'
    BY <1>5, <1>6, <1>8, <1>11, <1>14, <2>1, <2>2, <2>3 DEF FilesInv, TypeOK, Shifted
  <2>9. StartedInv'
    BY <1>5, <2>1 DEF FilesInv, StartedInv
  <2>10. OneDriver'
    <3>1. InQueue' => InQueue
      BY <1>8, <2>5 DEF InQueue
    <3> QED
      BY <2>3, <2>4, <3>1, ShiftedDriver DEF FilesInv
  <2>11. OrderInv'
    BY <1>5, <2>1, <2>3, ShiftedOrder DEF FilesInv
  <2>12. QueueInv'
    BY <1>5, <1>18, <2>1
  <2>13. ReplyInv' /\ LiveReply'
    BY <1>15, <2>7 DEF ReplyInv, LiveReply
  <2>14. PacketTasks'
    <3>1. \A i \in 1 .. Len(events') : ~ (events'[i].at = "task" /\ events'[i].request.kind = "packet")
      BY <1>3, <2>6 DEF FilesInv, PacketInv, PacketTasks
    <3> QED
      BY <3>1 DEF PacketTasks
  <2>15. LiveTasks'
    <3>1. ASSUME NEW i \in 1 .. Len(events'), events'[i].at = "task", Live(events[i].request)'
          PROVE  /\ RequestFits(events'[i].request, transfer', packetizer', depacketizer')
                 /\ ~ Follows(events[i].request)'
      <4> DEFINE r == events[i + 1].request
      <4>1. i + 1 \in 1 .. Len(events) /\ events'[i] = events[i + 1] /\ events[i + 1].at = "task" /\ Live(r)
        BY <2>5, <2>6, <3>1
      <4>2. RequestFits(r, transfer, packetizer, depacketizer) /\ ~ Follows(r)
        BY <1>3, <4>1 DEF FilesInv, LiveInv, LiveTasks
      <4> HIDE DEF r
      <4>3. events'[i].request = r
        BY <4>1 DEF r
      <4> QED
        BY <1>5, <1>6, <2>1, <4>2, <4>3 DEF Follows
    <3> QED
      BY <3>1 DEF LiveTasks
  <2>16. LiveQueue'
    <3>1. ASSUME NEW i \in 1 .. Len(remote_queue'), Live(remote_queue[i])'
          PROVE  /\ RequestFits(remote_queue'[i], transfer', packetizer', depacketizer')
                 /\ ~ Follows(remote_queue[i])'
      <4> DEFINE r == remote_queue[i + 1]
      <4>4. i + 1 \in 1 .. Len(remote_queue) /\ remote_queue'[i] = r
        BY <1>8
      <4>5. i \in Nat /\ i >= 1
        BY <1>8
      <4>6. i + 1 > 1
        BY <4>5
      <4>7. Live(r)
        <5>1. remote_queue'[i].by = started' /\ transfer'.alive
          BY <3>1 DEF Live
        <5> QED
          BY <1>5, <2>1, <4>4, <5>1 DEF Live
      <4>1. i + 1 \in 1 .. Len(remote_queue) /\ remote_queue'[i] = r /\ Live(r) /\ i + 1 > 1
        BY <4>4, <4>6, <4>7
      <4>2. Len(remote_queue) # 1
        BY <1>0, <4>1
      <4>3. RequestFits(r, transfer, packetizer, depacketizer) /\ ~ Follows(r)
        BY <4>1, <4>2 DEF FilesInv, LiveInv, LiveQueue
      <4> HIDE DEF r
      <4> QED
        BY <1>5, <1>6, <2>1, <4>1, <4>3 DEF Follows
    <3> QED
      BY <3>1 DEF LiveQueue
  <2>17. ErrorInv'
    BY <2>3, <2>4, ShiftedError DEF FilesInv
  <2>18. Consents(transfer)' /\ ConsentTasks'
    BY <2>3, <2>4, ShiftedConsent DEF FilesInv, ConsentInv
  <2> QED
    BY <1>11, <1>12, <1>16, <1>17, <2>8, <2>9, <2>10, <2>11, <2>12, <2>13, <2>14, <2>15, <2>16, <2>17, <2>18
       DEF FilesInv, PacketInv, LiveInv, ConsentInv
<1> QED
  BY <1>20, <1>21

LEMMA NoTransferFacts ==
    /\ NoTransfer \in Transfers /\ ~ NoTransfer.alive /\ ~ NoTransfer.overwrite /\ ~ NoTransfer.timer
    /\ \A e \in ErrorTypes : NoTransfer.actions[e] = "ask"
    /\ NoTransfer.tasks = <<>>
<1>1. [e \in ErrorTypes |-> "ask"] \in [ErrorTypes -> {"ask", "skip_all", "replace_all"}]
  OBVIOUS
<1>2. <<>> \in Seq(Paths)
  OBVIOUS
<1> QED
  BY <1>1, <1>2 DEF NoTransfer, Transfers

\* The object and all that waits for it are gone; requests and replies stay.
LEMMA DeleteTransferStep ==
    ASSUME FilesInv, DeleteTransfer PROVE FilesInv'
<1> DEFINE kept == {i \in DOMAIN events : events[i].at \in {"task", "reply"}}
           n == Cardinality(kept)
<1>0. /\ events \in Seq(Events) /\ DOMAIN events = 1 .. Len(events) /\ Len(events) \in Nat
      /\ started \in 0 .. MaxTransfers
  BY DEF FilesInv, TypeOK
<1>1. PICK h \in [1 .. n -> kept] :
        /\ \A i, j \in DOMAIN h : i < j => h[i] < h[j]
        /\ events' = [i \in DOMAIN h |-> events[h[i]]]
  BY DEF DeleteTransfer
<1>2. /\ transfer' = NoTransfer /\ signals' = signals
      /\ UNCHANGED <<type, started, window, granted>> /\ UNCHANGED <<remote_queue, wire, copied>>
      /\ UNCHANGED handlerVars
  BY DEF DeleteTransfer, windowVars
<1>3. n \in Nat
  <2>1. IsFiniteSet(1 .. Len(events))
    BY <1>0, FS_Interval
  <2>2. kept \subseteq 1 .. Len(events)
    BY <1>0
  <2>3. IsFiniteSet(kept)
    BY <2>1, <2>2, FS_Subset
  <2> QED
    BY <2>3, FS_CardinalityType
<1>4. \A i \in 1 .. n : h[i] \in 1 .. Len(events) /\ events[h[i]].at \in {"task", "reply"}
  BY <1>0, <1>1
<1> HIDE DEF kept, n
<1>5. \A i, j \in 1 .. n : h[i] = h[j] => i = j
  <2>1. ASSUME NEW i \in 1 .. n, NEW j \in 1 .. n, h[i] = h[j] PROVE i = j
    <3>1. DOMAIN h = 1 .. n
      BY <1>1
    <3>2. h[i] \in Nat /\ h[j] \in Nat
      BY <1>4
    <3>3. ~ (i < j) /\ ~ (j < i)
      BY <1>1, <2>1, <3>1, <3>2
    <3> QED
      BY <1>3, <3>3
  <2> QED
    BY <2>1
<1>6. /\ events' \in Seq(Events) /\ Len(events') = n
      /\ \A i \in 1 .. n : events'[i] = events[h[i]]
  <2>1. DOMAIN h = 1 .. n /\ \A i \in 1 .. n : events[h[i]] \in Events
    BY <1>0, <1>1, <1>4
  <2>2. events' = [i \in 1 .. n |-> events[h[i]]]
    BY <1>1, <2>1
  <2> QED
    BY <1>3, <2>1, <2>2
<1>7. \A i \in 1 .. Len(events') : /\ h[i] \in 1 .. Len(events) /\ events'[i] = events[h[i]]
                                   /\ events'[i].at \in {"task", "reply"}
  BY <1>4, <1>6
<1>8. \A i, j \in 1 .. Len(events') : h[i] = h[j] => i = j
  BY <1>5, <1>6
<1>9. /\ NoTransfer \in Transfers /\ ~ NoTransfer.alive /\ ~ NoTransfer.overwrite
      /\ NoTransfer.tasks = <<>> /\ \A e \in ErrorTypes : NoTransfer.actions[e] = "ask"
  BY NoTransferFacts
<1>10. \A r : ~ Live(r)'
  BY <1>2, <1>9 DEF Live
<1>11. TypeOK'
  BY <1>2, <1>6, <1>9 DEF FilesInv, TypeOK, handlerVars
<1>12. StartedInv' /\ ErrorInv'
  BY <1>2, <1>9 DEF StartedInv, ErrorInv
<1>13. OneDriver'
  <2>1. \A i \in 1 .. Len(events') : ~ LiveEvent(events[i])'
    BY <1>7, <1>10 DEF LiveEvent
  <2>2. ~ InEvents' /\ ~ InQueue' /\ (Signalled' <=> Signalled) /\ (Asked' <=> Asked)
    BY <1>2, <1>10, <2>1 DEF InEvents, InQueue, Signalled, Asked
  <2> QED
    BY <1>2, <2>1, <2>2 DEF FilesInv, OneDriver
<1>14. OrderInv'
  BY <1>2, <1>7, <1>9 DEF FilesInv, OrderInv
<1>15. QueueInv' /\ LiveQueue' /\ LiveTasks' /\ LiveReply'
  BY <1>2, <1>10 DEF FilesInv, QueueInv, LiveQueue, LiveTasks, LiveReply, IsLocal
<1>16. ReplyInv'
  <2>1. ASSUME NEW i \in 1 .. Len(events'), NEW j \in 1 .. Len(events'),
               events'[i].at = "reply", events'[j].at = "reply"
        PROVE  i = j
    <3>1. h[i] = h[j]
      BY <1>7, <2>1 DEF FilesInv, ReplyInv
    <3> QED
      BY <1>8, <3>1
  <2> QED
    BY <1>2, <1>7, <2>1 DEF FilesInv, ReplyInv
<1>17. SourceInv' /\ DepacketizerInv' /\ CopiedInv' /\ NoTruncatedFile'
  BY <1>2 DEF handlerVars, FilesInv, SourceInv, DepacketizerInv, CopiedInv, NoTruncatedFile
<1>18. PacketQueue' /\ ConsentQueue'
  BY <1>2 DEF handlerVars, FilesInv, PacketInv, PacketQueue, ConsentInv, ConsentQueue, Consented
<1>19. PacketTasks'
  <2>1. ASSUME NEW i \in 1 .. Len(events'), events'[i].at = "task", events'[i].request.kind = "packet"
        PROVE  /\ remote_queue' = <<>>
               /\ \A j \in 1 .. Len(events') : events'[j].at = "task" => j = i
               /\ PacketFits(events'[i].request.packet, depacketizer')
    <3>1. /\ remote_queue = <<>>
          /\ \A j \in 1 .. Len(events) : events[j].at = "task" => j = h[i]
          /\ PacketFits(events[h[i]].request.packet, depacketizer)
      BY <1>7, <2>1 DEF FilesInv, PacketInv, PacketTasks
    <3>2. ASSUME NEW j \in 1 .. Len(events'), events'[j].at = "task" PROVE j = i
      <4>1. h[j] = h[i]
        BY <1>7, <3>1, <3>2
      <4> QED
        BY <1>8, <4>1
    <3> QED
      BY <1>2, <1>7, <3>1, <3>2 DEF handlerVars
  <2> QED
    BY <2>1 DEF PacketTasks
<1>20. Consents(transfer)' /\ ConsentTasks'
  <2>1. Consents(transfer)'
    BY <1>2, <1>9 DEF Consents
  <2>2. ConsentTasks'
    BY <1>2, <1>7 DEF FilesInv, ConsentInv, ConsentTasks, Consented
  <2> QED
    BY <2>1, <2>2
<1> QED
  BY <1>11, <1>12, <1>13, <1>14, <1>15, <1>16, <1>17, <1>18, <1>19, <1>20
     DEF FilesInv, PacketInv, LiveInv, ConsentInv

----------------------------------------------------------------------------
(* The steps of the window                                                 *)

\* The computers, the queue and the tasks do not notice.
LEMMA WindowKeeps ==
    ASSUME FilesInv, UNCHANGED <<type, remote_queue, wire, handlerVars, copied>>,
           granted \subseteq granted', granted' \in SUBSET Files
    PROVE  /\ SourceInv' /\ DepacketizerInv' /\ CopiedInv' /\ NoTruncatedFile' /\ PacketQueue'
           /\ ConsentQueue'
<1>1. SourceInv' /\ DepacketizerInv' /\ CopiedInv' /\ NoTruncatedFile' /\ PacketQueue'
  BY DEF handlerVars, FilesInv, SourceInv, DepacketizerInv, CopiedInv, NoTruncatedFile, PacketInv, PacketQueue
<1>2. ConsentQueue'
  BY DEF FilesInv, ConsentInv, ConsentQueue, Consented
<1> QED
  BY <1>1, <1>2

LEMMA TransferItemsStep ==
    ASSUME FilesInv, NEW all \in BOOLEAN, TransferItems(all) PROVE FilesInv'
<1> DEFINE t == [NoTransfer EXCEPT !.alive = TRUE,
                    !.actions["already_exists"] = IF all THEN "replace_all" ELSE "ask"]
           e == Event("request")
<1>0. /\ events \in Seq(Events) /\ Len(events) \in Nat /\ started \in 0 .. MaxTransfers
      /\ MaxTransfers \in Nat /\ granted \in SUBSET Files /\ remote_queue \in Seq(Requests)
  BY ConstantFacts DEF FilesInv, TypeOK
<1>1. /\ window.prompt = "none" /\ signals = <<>> /\ ~ transfer.alive /\ started < MaxTransfers
      /\ started' = started + 1 /\ transfer' = t /\ events' = Append(events, e)
      /\ window' = [shown |-> TRUE, stopping |-> FALSE, prompt |-> "none"]
      /\ granted' = IF all THEN Files ELSE granted
      /\ signals' = signals /\ UNCHANGED <<type, remote_queue, wire, handlerVars, copied>>
  BY DEF TransferItems
<1>2. e \in Events /\ e.at = "request"
  BY EventsMade
<1>3. /\ t \in Transfers /\ t.alive /\ ~ t.timer /\ ~ t.overwrite
      /\ \A x \in ErrorTypes : t.actions[x] = "replace_all" => x = "already_exists" /\ all
  <2> DEFINE a == IF all THEN "replace_all" ELSE "ask"
             acts == [NoTransfer.actions EXCEPT !["already_exists"] = a]
  <2>1. /\ NoTransfer.actions \in [ErrorTypes -> {"ask", "skip_all", "replace_all"}]
        /\ \A x \in ErrorTypes : NoTransfer.actions[x] = "ask"
    BY NoTransferFacts DEF Transfers
  <2>2. a \in {"ask", "skip_all", "replace_all"} /\ (a = "replace_all" => all) /\ "already_exists" \in ErrorTypes
    BY DEF ErrorTypes
  <2>3. t = [NoTransfer EXCEPT !.alive = TRUE, !.actions["already_exists"] = a]
    OBVIOUS
  <2> HIDE DEF a, t
  <2>4. /\ acts \in [ErrorTypes -> {"ask", "skip_all", "replace_all"}]
        /\ \A x \in ErrorTypes : acts[x] = "replace_all" => x = "already_exists" /\ all
    BY <2>1, <2>2
  <2>5. NoTransfer \in Transfers /\ ~ NoTransfer.timer /\ ~ NoTransfer.overwrite
    BY NoTransferFacts
  <2>6. /\ t \in Transfers /\ t.alive = TRUE /\ t.timer = NoTransfer.timer
        /\ t.overwrite = NoTransfer.overwrite /\ t.actions = acts
    BY <2>3, <2>4, <2>5 DEF Transfers
  <2> HIDE DEF acts
  <2> QED
    BY <2>4, <2>5, <2>6
<1> HIDE DEF t, e
<1>4. /\ events' \in Seq(Events) /\ Len(events') = Len(events) + 1
      /\ \A i \in 1 .. Len(events') :
           \/ i \in 1 .. Len(events) /\ events'[i] = events[i]
           \/ i = Len(events) + 1 /\ events'[i] = e
  BY <1>0, <1>1, <1>2, AppendFacts
<1>5. \A i \in 1 .. Len(events) : events[i].at \in {"task", "reply"}
  BY <1>1 DEF FilesInv, OrderInv
<1>6. /\ \A i \in 1 .. Len(events) : events[i].at = "task" => events[i].request.by <= started
      /\ \A i \in 1 .. Len(remote_queue) : remote_queue[i].by <= started
  BY DEF FilesInv, OrderInv, QueueInv
<1>7. \A r \in Requests : r.by <= started => r.by # started' /\ r.by <= started'
  <2>1. ASSUME NEW r \in Requests, r.by <= started PROVE r.by # started' /\ r.by <= started'
    <3>1. r.by \in 1 .. MaxTransfers
      BY RequestTypes
    <3> QED
      BY <1>0, <1>1, <2>1, <3>1
  <2> QED
    BY <2>1
<1>8. /\ \A i \in 1 .. Len(events) : events[i].at = "task" =>
            events[i].request.by # started' /\ events[i].request.by <= started'
      /\ \A i \in 1 .. Len(remote_queue) : remote_queue[i].by # started' /\ remote_queue[i].by <= started'
  <2>1. \A i \in 1 .. Len(events) : events[i].at = "task" => events[i].request \in Requests
    BY <1>0, EventTypes
  <2>2. \A i \in 1 .. Len(remote_queue) : remote_queue[i] \in Requests
    BY <1>0
  <2> QED
    BY <1>6, <1>7, <2>1, <2>2
<1>9. granted \subseteq granted' /\ granted' \in SUBSET Files /\ (all => Files \subseteq granted')
  BY <1>0, <1>1
<1>10. /\ SourceInv' /\ DepacketizerInv' /\ CopiedInv' /\ NoTruncatedFile' /\ PacketQueue' /\ ConsentQueue'
  BY <1>1, <1>9, WindowKeeps
<1>11. TypeOK'
  <2>1. started' \in 0 .. MaxTransfers
    BY <1>0, <1>1
  <2>2. window' \in [shown : BOOLEAN, stopping : BOOLEAN, prompt : ErrorTypes \union {"none"}]
    BY <1>1
  <2> QED
    BY <1>1, <1>3, <1>4, <1>9, <2>1, <2>2 DEF FilesInv, TypeOK, handlerVars
<1>12. StartedInv'
  BY <1>0, <1>1, <1>3 DEF StartedInv
<1>13. \A i \in 1 .. Len(events') : /\ LiveEvent(events[i])' => i = Len(events) + 1
                                    /\ events'[i].at = "task" => i \in 1 .. Len(events) /\ events'[i] = events[i]
                                    /\ events'[i].at = "reply" => i \in 1 .. Len(events) /\ events'[i] = events[i]
                                    /\ events'[i].at = "request" => i = Len(events) + 1
                                    /\ events'[i].at # "action"
  BY <1>2, <1>4, <1>5, <1>8 DEF LiveEvent, Live
<1>14. \A i \in 1 .. Len(remote_queue') : ~ Live(remote_queue[i])'
  BY <1>1, <1>8 DEF Live
<1>15. OneDriver'
  <2>1. Len(signals') = 0
    BY <1>1
  <2>2. ~ InQueue' /\ ~ Signalled' /\ ~ Asked'
    BY <1>1, <1>14, <2>1 DEF InQueue, Signalled, Asked
  <2> QED
    BY <1>13, <2>1, <2>2 DEF OneDriver
<1>16. OrderInv'
  <2>1. transfer'.alive /\ ~ transfer'.timer
    BY <1>1, <1>3
  <2>2. \A i \in 1 .. Len(events') : events'[i].at = "task" => events'[i].request.by <= started'
    BY <1>8, <1>13
  <2>3. Len(events) + 1 \in 1 .. Len(events') /\ events'[Len(events) + 1].at = "request"
    <3>1. Len(events) + 1 \in 1 .. Len(events') /\ Len(events) + 1 \notin 1 .. Len(events)
      BY <1>0, <1>4
    <3> QED
      BY <1>2, <1>4, <3>1
  <2>4. \A i, j \in 1 .. Len(events') : events'[i].at = "request" =>
            /\ j < i => events'[j].at \in {"task", "reply"}
            /\ ~ (j > i)
    <3>1. ASSUME NEW i \in 1 .. Len(events'), NEW j \in 1 .. Len(events'), events'[i].at = "request"
          PROVE  (j < i => events'[j].at \in {"task", "reply"}) /\ ~ (j > i)
      <4>1. i = Len(events) + 1
        BY <1>13, <3>1
      <4>2. j < i => j \in 1 .. Len(events) /\ events'[j] = events[j]
        BY <1>0, <1>4, <4>1
      <4>3. ~ (j > i)
        BY <1>0, <1>4, <4>1
      <4> QED
        BY <1>5, <4>2, <4>3
    <3> QED
      BY <3>1
  <2> QED
    BY <2>1, <2>2, <2>3, <2>4 DEF OrderInv
<1>17. QueueInv'
  BY <1>1, <1>8, <1>14 DEF FilesInv, QueueInv, IsLocal
<1>18. ReplyInv'
  BY <1>1, <1>13 DEF FilesInv, ReplyInv
<1>19. PacketTasks'
  BY <1>1, <1>13 DEF FilesInv, PacketInv, PacketTasks, handlerVars
<1>20. LiveTasks'
  BY <1>8, <1>13 DEF LiveTasks, Live
<1>21. LiveQueue'
  BY <1>14 DEF LiveQueue
<1>22. LiveReply'
  <2>1. ASSUME NEW i \in 1 .. Len(events'), events'[i].at = "reply", Live(remote_queue[1])' PROVE FALSE
    <3>1. remote_queue # <<>>
      BY <1>13, <2>1 DEF FilesInv, ReplyInv
    <3>2. 1 \in 1 .. Len(remote_queue')
      BY <1>0, <1>1, <3>1
    <3> QED
      BY <1>14, <2>1, <3>2
  <2> QED
    BY <2>1 DEF LiveReply
<1>23. ErrorInv'
  <2>1. Len(signals') = 0 /\ window'.prompt = "none"
    BY <1>1
  <2> QED
    BY <1>13, <2>1 DEF ErrorInv
<1>24. Consents(transfer)' /\ ConsentTasks'
  <2>1. Consents(transfer)'
    BY <1>1, <1>3, <1>9 DEF Consents
  <2>2. ConsentTasks'
    BY <1>9, <1>13 DEF FilesInv, ConsentInv, ConsentTasks, Consented
  <2> QED
    BY <2>1, <2>2
<1> QED
  BY <1>10, <1>11, <1>12, <1>15, <1>16, <1>17, <1>18, <1>19, <1>20, <1>21, <1>22, <1>23, <1>24
     DEF FilesInv, PacketInv, LiveInv, ConsentInv


\* The answer to a question is what drives the transfer on.
LEMMA AnswerStep ==
    ASSUME FilesInv, NEW action \in Answers, Answer(action) PROVE FilesInv'
<1> DEFINE e == [at |-> "action", error |-> window.prompt, action |-> action]
<1>0. /\ events \in Seq(Events) /\ Len(events) \in Nat /\ transfer \in Transfers
      /\ granted \in SUBSET Files /\ remote_queue \in Seq(Requests)
      /\ window \in [shown : BOOLEAN, stopping : BOOLEAN, prompt : ErrorTypes \union {"none"}]
  BY DEF FilesInv, TypeOK
<1>1. /\ window.prompt # "none" /\ action \in AvailableActions(window.prompt)
      /\ window' = [window EXCEPT !.prompt = "none"]
      /\ events' = IF transfer.alive THEN Append(events, e) ELSE events
      /\ granted' = CASE action = "replace_all" -> Files
                      [] action = "replace" /\ transfer.tasks # <<>> -> granted \union {Head(transfer.tasks)}
                      [] OTHER -> granted
      /\ started' = started /\ transfer' = transfer /\ signals' = signals
      /\ UNCHANGED <<type, remote_queue, wire, handlerVars, copied>>
  BY DEF Answer, PostToTransfer
<1>2. window.prompt \in ErrorTypes
  BY <1>0, <1>1
<1>3. Asked /\ ~ InEvents /\ ~ InQueue /\ ~ Signalled
  BY <1>1 DEF Asked, FilesInv, OneDriver
<1>4. /\ window' \in [shown : BOOLEAN, stopping : BOOLEAN, prompt : ErrorTypes \union {"none"}]
      /\ window'.prompt = "none"
  BY <1>0, <1>1
<1>5. transfer.alive => ErrorFits(window.prompt, transfer)
  BY <1>1 DEF FilesInv, ErrorInv
<1>6. action = "replace" => window.prompt = "already_exists"
  BY <1>1 DEF AvailableActions
<1>7. transfer.tasks # <<>> => Head(transfer.tasks) = transfer.tasks[1]
  <2>1. transfer.tasks \in Seq(Paths)
    BY <1>0 DEF Transfers
  <2> QED
    BY <2>1, TailFacts
<1>8. granted \subseteq granted' /\ (action = "replace_all" => Files \subseteq granted')
      /\ (transfer.alive /\ action = "replace" => transfer.tasks[1] \in granted')
  <2>1. CASE action = "replace_all"
    BY <1>0, <1>1, <2>1
  <2>2. CASE action = "replace" /\ transfer.tasks # <<>>
    BY <1>1, <1>7, <2>2
  <2>3. CASE action # "replace_all" /\ ~ (action = "replace" /\ transfer.tasks # <<>>)
    <3>1. granted' = granted
      BY <1>1, <2>3
    <3>2. transfer.alive => action # "replace"
      BY <1>5, <1>6, <2>3 DEF ErrorFits
    <3> QED
      BY <2>3, <3>1, <3>2
  <2> QED
    BY <2>1, <2>2, <2>3
<1>9. granted' \in SUBSET Files
  <2>1. CASE action = "replace" /\ transfer.tasks # <<>>
    <3>1. transfer.alive
      BY <2>1 DEF FilesInv, StartedInv
    <3>2. transfer.tasks[1] \in Files
      BY <1>5, <1>6, <2>1, <3>1 DEF ErrorFits
    <3>3. granted' = granted \union {transfer.tasks[1]}
      BY <1>1, <1>7, <2>1
    <3> QED
      BY <1>0, <3>2, <3>3
  <2>2. CASE ~ (action = "replace" /\ transfer.tasks # <<>>)
    <3>1. granted' = Files \/ granted' = granted
      BY <1>1, <2>2
    <3> QED
      BY <1>0, <3>1
  <2> QED
    BY <2>1, <2>2
<1>10. e \in Events /\ e.at = "action" /\ e.error = window.prompt /\ e.action = action
  BY <1>2 DEF Events
<1>11. transfer'.alive = transfer.alive /\ transfer.alive \in BOOLEAN
  BY <1>0, <1>1 DEF Transfers
<1> HIDE DEF e
<1>12. /\ events' \in Seq(Events)
       /\ \A i \in 1 .. Len(events') :
            \/ i \in 1 .. Len(events) /\ events'[i] = events[i]
            \/ i = Len(events) + 1 /\ events'[i] = e /\ transfer.alive
  <2>1. CASE transfer.alive
    <3>1. events' = Append(events, e)
      BY <1>1, <2>1
    <3> QED
      BY <1>0, <1>10, <2>1, <3>1, AppendFacts
  <2>2. CASE ~ transfer.alive
    BY <1>0, <1>1, <2>2
  <2> QED
    BY <2>1, <2>2
<1>13. \A i \in 1 .. Len(events) : ~ LiveEvent(events[i])
  BY <1>3 DEF InEvents
<1>14. \A r : Live(r)' <=> Live(r)
  BY <1>1 DEF Live
<1>15. \A i \in 1 .. Len(events') :
         /\ LiveEvent(events[i])' => i = Len(events) + 1
         /\ events'[i].at = "task" => i \in 1 .. Len(events) /\ events'[i] = events[i]
         /\ events'[i].at = "reply" => i \in 1 .. Len(events) /\ events'[i] = events[i]
         /\ events'[i].at = "action" => events'[i] = e
         /\ events'[i].at # "request"
         /\ transfer.alive \/ (i \in 1 .. Len(events) /\ events'[i] = events[i])
  BY <1>10, <1>12, <1>13, <1>14 DEF LiveEvent
<1>16. TypeOK'
  BY <1>1, <1>4, <1>9, <1>12 DEF FilesInv, TypeOK, handlerVars
<1>17. StartedInv'
  BY <1>1 DEF FilesInv, StartedInv
<1>18. OneDriver'
  <2>1. ~ InQueue' /\ ~ Signalled' /\ ~ Asked'
    BY <1>1, <1>3, <1>4, <1>14 DEF InQueue, Signalled, Asked
  <2>2. \A i, j \in 1 .. Len(signals') : signals'[i] # "finished" /\ signals'[j] # "finished" => i = j
    BY <1>1 DEF FilesInv, OneDriver
  <2> QED
    BY <1>15, <2>1, <2>2 DEF OneDriver
<1>19. OrderInv'
  <2>1. ~ transfer'.alive => \A i \in 1 .. Len(events') : events'[i].at \in {"task", "reply"}
    BY <1>11, <1>15 DEF FilesInv, OrderInv
  <2>2. NoRequest
    BY <1>13 DEF NoRequest, LiveEvent
  <2>3. transfer'.alive => \A i \in 1 .. Len(events') : events'[i].at = "task" => events'[i].request.by = started'
    BY <1>1, <1>11, <1>15, <2>2 DEF FilesInv, OrderInv, NoRequest
  <2>4. \A i \in 1 .. Len(events') : events'[i].at = "task" => events'[i].request.by <= started'
    BY <1>1, <1>15 DEF FilesInv, OrderInv
  <2> QED
    BY <1>15, <2>1, <2>3, <2>4 DEF OrderInv
<1>20. QueueInv' /\ LiveQueue'
  BY <1>1, <1>14 DEF FilesInv, QueueInv, IsLocal, LiveInv, LiveQueue, RequestFits, Follows, handlerVars
<1>21. ReplyInv'
  BY <1>1, <1>15 DEF FilesInv, ReplyInv
<1>22. /\ SourceInv' /\ DepacketizerInv' /\ CopiedInv' /\ NoTruncatedFile' /\ PacketQueue' /\ ConsentQueue'
  BY <1>1, <1>8, <1>9, WindowKeeps
<1>23. PacketTasks'
  BY <1>1, <1>15 DEF FilesInv, PacketInv, PacketTasks, handlerVars
<1>24. LiveTasks'
  BY <1>1, <1>14, <1>15 DEF FilesInv, LiveInv, LiveTasks, RequestFits, Follows, handlerVars
<1>25. LiveReply'
  BY <1>1, <1>14, <1>15 DEF FilesInv, LiveInv, LiveReply, ReplyFits, handlerVars
<1>26. ErrorInv'
  <2>1. ASSUME transfer.alive
        PROVE  \A i \in 1 .. Len(signals') : signals'[i] # "finished" => ErrorFits(signals'[i], transfer')
    BY <1>1, <2>1 DEF FilesInv, ErrorInv
  <2>2. ASSUME transfer.alive, NEW i \in 1 .. Len(events'), events'[i].at = "action"
        PROVE  /\ ErrorFits(events'[i].error, transfer')
               /\ events'[i].action \in AvailableActions(events'[i].error)
               /\ events'[i].action = "replace_all" => Files \subseteq granted'
               /\ events'[i].action = "replace" => transfer'.tasks[1] \in granted'
    <3>1. events'[i].error = window.prompt /\ events'[i].action = action
      BY <1>10, <1>15, <2>2
    <3> QED
      BY <1>1, <1>5, <1>8, <2>2, <3>1
  <2> QED
    BY <1>4, <1>11, <2>1, <2>2 DEF ErrorInv
<1>27. Consents(transfer)' /\ ConsentTasks'
  <2>1. Consents(transfer)'
    BY <1>1, <1>8 DEF FilesInv, ConsentInv, Consents
  <2>2. ConsentTasks'
    BY <1>8, <1>15 DEF FilesInv, ConsentInv, ConsentTasks, Consented
  <2> QED
    BY <2>1, <2>2
<1> QED
  BY <1>16, <1>17, <1>18, <1>19, <1>20, <1>21, <1>22, <1>23, <1>24, <1>25, <1>26, <1>27
     DEF FilesInv, PacketInv, LiveInv, ConsentInv

\* The error that was signalled becomes the question that is asked.
LEMMA OnSignalsStep ==
    ASSUME FilesInv, OnSignals PROVE FilesInv'
<1> DEFINE T == ErrorTypes \union {"finished"}
           S == ToSet(signals) \ {"finished"}
<1>0. /\ signals \in Seq(T) /\ events \in Seq(Events) /\ transfer \in Transfers
      /\ window \in [shown : BOOLEAN, stopping : BOOLEAN, prompt : ErrorTypes \union {"none"}]
      /\ granted \in SUBSET Files
  BY DEF FilesInv, TypeOK
<1>1. /\ window' = [window EXCEPT !.shown  = @ /\ "finished" \notin ToSet(signals),
                                  !.prompt = IF S = {} THEN @ ELSE CHOOSE x \in S : TRUE]
      /\ signals' = <<>> /\ transfer' = transfer /\ events' = events /\ remote_queue' = remote_queue
      /\ started' = started /\ granted' = granted
      /\ UNCHANGED <<type, remote_queue, wire, handlerVars, copied>>
  BY DEF OnSignals, workerVars
<1>2. \A x \in S : \E i \in 1 .. Len(signals) : signals[i] = x /\ signals[i] # "finished"
  <2>1. DOMAIN signals = 1 .. Len(signals)
    BY <1>0
  <2> QED
    BY <2>1 DEF ToSet
<1>3. \A i \in 1 .. Len(signals) : signals[i] # "finished" => signals[i] \in S
  <2>1. DOMAIN signals = 1 .. Len(signals)
    BY <1>0
  <2> QED
    BY <2>1 DEF ToSet
<1>4. S \subseteq ErrorTypes
  <2>1. \A i \in 1 .. Len(signals) : signals[i] \in T
    BY <1>0
  <2> QED
    BY <1>2, <2>1
<1> HIDE DEF S, T
<1>5. /\ window' \in [shown : BOOLEAN, stopping : BOOLEAN, prompt : ErrorTypes \union {"none"}]
      /\ S = {} => window'.prompt = window.prompt
      /\ S # {} => window'.prompt \in S
  <2> DEFINE sh == window.shown /\ "finished" \notin ToSet(signals)
             pr == IF S = {} THEN window.prompt ELSE CHOOSE x \in S : TRUE
  <2>1. sh \in BOOLEAN
    BY <1>0
  <2>2. /\ pr \in ErrorTypes \union {"none"}
        /\ S = {} => pr = window.prompt
        /\ S # {} => pr \in S
    BY <1>0, <1>4
  <2>3. window' = [window EXCEPT !.shown = sh, !.prompt = pr]
    BY <1>1
  <2> HIDE DEF sh, pr
  <2> QED
    BY <1>0, <2>1, <2>2, <2>3
<1>6. Signalled <=> S # {}
  BY <1>2, <1>3 DEF Signalled
<1>7. Asked' <=> Asked \/ Signalled
  <2>1. CASE S = {}
    BY <1>5, <1>6, <2>1 DEF Asked
  <2>2. CASE S # {}
    <3>1. window'.prompt # "none"
      BY <1>4, <1>5, <2>2 DEF ErrorTypes
    <3> QED
      BY <1>6, <2>2, <3>1 DEF Asked
  <2> QED
    BY <2>1, <2>2
<1>8. Len(signals') = 0 /\ signals' \in Seq(ErrorTypes \union {"finished"})
  BY <1>1
<1>9. \A r : Live(r)' <=> Live(r)
  BY <1>1 DEF Live
<1>10. OneDriver'
  <2>1. ~ Signalled'
    BY <1>8 DEF Signalled
  <2>2. (InEvents' <=> InEvents) /\ (InQueue' <=> InQueue)
    BY <1>1, <1>9 DEF InEvents, InQueue, LiveEvent
  <2>3. \A i, j \in 1 .. Len(events') : LiveEvent(events[i])' /\ LiveEvent(events[j])' => i = j
    BY <1>1, <1>9 DEF FilesInv, OneDriver, LiveEvent
  <2> QED
    BY <1>7, <1>8, <2>1, <2>2, <2>3 DEF FilesInv, OneDriver
<1>11. TypeOK'
  BY <1>1, <1>5, <1>8 DEF FilesInv, TypeOK, handlerVars
<1>12. StartedInv' /\ OrderInv'
  BY <1>1 DEF FilesInv, StartedInv, OrderInv
<1>13. QueueInv' /\ ReplyInv'
  BY <1>1, <1>9 DEF FilesInv, QueueInv, ReplyInv, IsLocal
<1>14. /\ SourceInv' /\ DepacketizerInv' /\ CopiedInv' /\ NoTruncatedFile' /\ PacketQueue' /\ ConsentQueue'
  BY <1>0, <1>1, WindowKeeps
<1>15. PacketTasks'
  BY <1>1 DEF FilesInv, PacketInv, PacketTasks, handlerVars
<1>16. LiveTasks' /\ LiveQueue'
  BY <1>1, <1>9 DEF FilesInv, LiveInv, LiveTasks, LiveQueue, RequestFits, Follows, handlerVars
<1>17. LiveReply'
  BY <1>1, <1>9 DEF FilesInv, LiveInv, LiveReply, ReplyFits, handlerVars
<1>18. ErrorInv'
  <2>1. ASSUME transfer.alive, window'.prompt # "none" PROVE ErrorFits(window'.prompt, transfer)
    <3>1. CASE S = {}
      BY <1>5, <2>1, <3>1 DEF FilesInv, ErrorInv
    <3>2. CASE S # {}
      <4>1. PICK i \in 1 .. Len(signals) : signals[i] = window'.prompt /\ signals[i] # "finished"
        BY <1>2, <1>5, <3>2
      <4>2. ErrorFits(signals[i], transfer)
        BY <2>1, <4>1 DEF FilesInv, ErrorInv
      <4> QED
        BY <4>1, <4>2
    <3> QED
      BY <3>1, <3>2
  <2>2. transfer.alive => \A i \in 1 .. Len(events) : events[i].at = "action" =>
           /\ ErrorFits(events[i].error, transfer)
           /\ events[i].action \in AvailableActions(events[i].error)
           /\ events[i].action = "replace_all" => Files \subseteq granted
           /\ events[i].action = "replace" => transfer.tasks[1] \in granted
    BY DEF FilesInv, ErrorInv
  <2> QED
    BY <1>1, <1>8, <2>1, <2>2 DEF ErrorInv
<1>19. Consents(transfer)' /\ ConsentTasks'
  BY <1>1 DEF FilesInv, ConsentInv, Consents, ConsentTasks, Consented
<1> QED
  BY <1>10, <1>11, <1>12, <1>13, <1>14, <1>15, <1>16, <1>17, <1>18, <1>19
     DEF FilesInv, PacketInv, LiveInv, ConsentInv


----------------------------------------------------------------------------
(* The specification                                                       *)

LEMMA InitStep ==
    ASSUME Init PROVE FilesInv
<1>0. Files \subseteq Paths /\ MaxTransfers \in Nat /\ MaxFaults \in Nat
  BY ConstantFacts
<1>1. /\ type \in {"uploader", "downloader"} /\ started = 0 /\ transfer = NoTransfer
      /\ events = <<>> /\ remote_queue = <<>> /\ wire = <<>> /\ packetizer = <<>> /\ depacketizer = <<>>
      /\ dirs \in SUBSET Directories /\ window = [shown |-> FALSE, stopping |-> FALSE, prompt |-> "none"]
      /\ signals = <<>> /\ faults = 0 /\ copied = {} /\ granted = {}
  BY DEF Init
<1>2. Len(events) = 0 /\ Len(remote_queue) = 0 /\ Len(signals) = 0
  BY <1>1
<1>3. disk \in [Files -> Seq(Seq(Files \X Nat))] /\ \A f \in Files : disk[f] \in {Absent, Old(f)}
  <2>1. PICK existing \in SUBSET Files : disk = [f \in Files |-> IF f \in existing THEN Old(f) ELSE Absent]
    BY DEF Init
  <2>2. \A f \in Files : Old(f) \in Seq(Seq(Files \X Nat))
    <3>1. ASSUME NEW f \in Files PROVE Old(f) \in Seq(Seq(Files \X Nat))
      <4>1. Block(f, 0) \in Files \X Nat
        BY DEF Block
      <4>2. << Block(f, 0) >> \in Seq(Files \X Nat)
        BY <4>1
      <4> QED
        BY <4>2 DEF Old
    <3> QED
      BY <3>1
  <2>3. Absent \in Seq(Seq(Files \X Nat))
    BY DEF Absent
  <2>4. \A f \in Files : (IF f \in existing THEN Old(f) ELSE Absent) \in Seq(Seq(Files \X Nat))
    BY <2>2, <2>3
  <2>5. \A f \in Files : disk[f] = Old(f) \/ disk[f] = Absent
    BY <2>1
  <2> QED
    BY <2>1, <2>4, <2>5
<1>4. TypeOK
  <2>1. transfer \in Transfers
    BY <1>1, NoTransferFacts
  <2>2. started \in 0 .. MaxTransfers /\ faults \in 0 .. MaxFaults
    BY <1>0, <1>1
  <2> QED
    BY <1>1, <1>3, <2>1, <2>2 DEF TypeOK
<1>5. ~ transfer.alive /\ transfer.tasks = <<>> /\ ~ transfer.overwrite
      /\ \A e \in ErrorTypes : transfer.actions[e] = "ask"
  BY <1>1, NoTransferFacts
<1>6. StartedInv /\ OrderInv /\ QueueInv /\ ReplyInv /\ SourceInv /\ PacketInv /\ LiveInv /\ ErrorInv
  BY <1>1, <1>2, <1>5 DEF StartedInv, OrderInv, QueueInv, ReplyInv, SourceInv, PacketInv, PacketTasks,
     PacketQueue, LiveInv, LiveTasks, LiveQueue, LiveReply, ErrorInv
<1>7. OneDriver
  <2>1. ~ InEvents /\ ~ InQueue /\ ~ Signalled /\ ~ Asked
    BY <1>1, <1>2 DEF InEvents, InQueue, Signalled, Asked
  <2> QED
    BY <1>2, <2>1 DEF OneDriver
<1>8. DepacketizerInv /\ CopiedInv /\ NoTruncatedFile
  BY <1>1, <1>3 DEF DepacketizerInv, CopiedInv, Kept, NoTruncatedFile
<1>9. ConsentInv
  BY <1>1, <1>2, <1>5 DEF ConsentInv, Consents, ConsentTasks, ConsentQueue
<1> QED
  BY <1>4, <1>6, <1>7, <1>8, <1>9 DEF FilesInv

LEMMA UnchangedStep ==
    ASSUME FilesInv, UNCHANGED vars PROVE FilesInv'
<1>1. /\ type' = type /\ started' = started /\ transfer' = transfer /\ events' = events
      /\ remote_queue' = remote_queue /\ wire' = wire /\ packetizer' = packetizer
      /\ depacketizer' = depacketizer /\ disk' = disk /\ dirs' = dirs /\ window' = window
      /\ signals' = signals /\ faults' = faults /\ copied' = copied /\ granted' = granted
  BY DEF vars
<1>2. \A r : Live(r)' <=> Live(r)
  BY <1>1 DEF Live
<1>3. TypeOK' /\ StartedInv' /\ OrderInv' /\ ReplyInv' /\ SourceInv'
  BY <1>1 DEF FilesInv, TypeOK, StartedInv, OrderInv, ReplyInv, SourceInv
<1>4. OneDriver'
  BY <1>1, <1>2 DEF FilesInv, OneDriver, InEvents, InQueue, Signalled, Asked, LiveEvent
<1>5. QueueInv'
  BY <1>1, <1>2 DEF FilesInv, QueueInv, IsLocal
<1>6. DepacketizerInv' /\ CopiedInv' /\ NoTruncatedFile'
  BY <1>1 DEF FilesInv, DepacketizerInv, CopiedInv, NoTruncatedFile
<1>7. PacketInv'
  BY <1>1 DEF FilesInv, PacketInv, PacketTasks, PacketQueue
<1>8. LiveTasks' /\ LiveQueue'
  BY <1>1, <1>2 DEF FilesInv, LiveInv, LiveTasks, LiveQueue, RequestFits, Follows
<1>9. LiveReply'
  BY <1>1, <1>2 DEF FilesInv, LiveInv, LiveReply, ReplyFits
<1>10. ErrorInv'
  BY <1>1 DEF FilesInv, ErrorInv
<1>11. ConsentInv'
  BY <1>1 DEF FilesInv, ConsentInv, Consents, ConsentTasks, ConsentQueue, Consented
<1> QED
  BY <1>3, <1>4, <1>5, <1>6, <1>7, <1>8, <1>9, <1>10, <1>11 DEF FilesInv, LiveInv

LEMMA NoLoggedOnUserStep ==
    ASSUME FilesInv, NoLoggedOnUser PROVE FilesInv'
<1>1. /\ type' = type /\ started' = started /\ transfer' = transfer /\ events' = events
      /\ remote_queue' = remote_queue /\ wire' = <<>> /\ packetizer' = packetizer
      /\ depacketizer' = depacketizer /\ disk' = disk /\ dirs' = dirs /\ window' = window
      /\ signals' = signals /\ faults' = faults /\ copied' = copied /\ granted' = granted
  BY DEF NoLoggedOnUser, windowVars, workerVars, handlerVars
<1>2. \A r : Live(r)' <=> Live(r)
  BY <1>1 DEF Live
<1>3. TypeOK' /\ StartedInv' /\ OrderInv' /\ ReplyInv' /\ SourceInv'
  BY <1>1 DEF FilesInv, TypeOK, StartedInv, OrderInv, ReplyInv, SourceInv
<1>4. OneDriver'
  BY <1>1, <1>2 DEF FilesInv, OneDriver, InEvents, InQueue, Signalled, Asked, LiveEvent
<1>5. QueueInv'
  BY <1>1, <1>2 DEF FilesInv, QueueInv, IsLocal
<1>6. DepacketizerInv' /\ CopiedInv' /\ NoTruncatedFile'
  BY <1>1 DEF FilesInv, DepacketizerInv, CopiedInv, NoTruncatedFile
<1>7. PacketInv'
  BY <1>1 DEF FilesInv, PacketInv, PacketTasks, PacketQueue
<1>8. LiveTasks' /\ LiveQueue'
  BY <1>1, <1>2 DEF FilesInv, LiveInv, LiveTasks, LiveQueue, RequestFits, Follows
<1>9. LiveReply'
  BY <1>1, <1>2 DEF FilesInv, LiveInv, LiveReply, ReplyFits
<1>10. ErrorInv'
  BY <1>1 DEF FilesInv, ErrorInv
<1>11. ConsentInv'
  BY <1>1 DEF FilesInv, ConsentInv, Consents, ConsentTasks, ConsentQueue, Consented
<1> QED
  BY <1>3, <1>4, <1>5, <1>6, <1>7, <1>8, <1>9, <1>10, <1>11 DEF FilesInv, LiveInv

\* Every step keeps the invariant, and none takes an old file without consent.
LEMMA FilesStep ==
    ASSUME FilesInv, [Next]_vars
    PROVE  /\ FilesInv'
           /\ \A f \in Files : disk[f] = Old(f) /\ disk'[f] # Old(f) => f \in granted
<1> DEFINE OldKept == \A f \in Files : disk[f] = Old(f) /\ disk'[f] # Old(f) => f \in granted
<1>0. disk' = disk => OldKept
  OBVIOUS
<1>1. CASE OnTransferRequest
  BY <1>0, <1>1, OnTransferRequestStep DEF OnTransferRequest, handlerVars
<1>2. CASE Start
  BY <1>0, <1>2, StartStep DEF Start, handlerVars
<1>3. CASE Stop
  BY <1>0, <1>3, StopStep DEF Stop, handlerVars
<1>4. CASE Action
  BY <1>0, <1>4, ActionStep DEF Action, handlerVars
<1>5. CASE DeleteBuilder
  BY <1>0, <1>5, DeleteBuilderStep DEF DeleteBuilder, handlerVars
<1>6. CASE DeleteTransfer
  BY <1>0, <1>6, DeleteTransferStep DEF DeleteTransfer, handlerVars
<1>7. CASE LocalTask
  BY <1>7, LocalTaskStep
<1>8. CASE RemoteTask
  BY <1>0, <1>8, RemoteTaskStep DEF RemoteTask, handlerVars
<1>9. CASE OnChannelMessage
  BY <1>0, <1>9, OnChannelMessageStep DEF OnChannelMessage, handlerVars
<1>10. CASE CancelTimeout
  BY <1>0, <1>10, CancelTimeoutStep DEF CancelTimeout, handlerVars
<1>11. CASE RemoteServe
  BY <1>11, RemoteServeStep
<1>12. ASSUME NEW replace_existing \in BOOLEAN, TransferItems(replace_existing)
       PROVE  FilesInv' /\ OldKept
  BY <1>0, <1>12, TransferItemsStep DEF TransferItems, handlerVars
<1>13. CASE RequestStop
  BY <1>0, <1>13, RequestStopStep DEF RequestStop, handlerVars
<1>14. ASSUME NEW action \in Answers, Answer(action)
       PROVE  FilesInv' /\ OldKept
  BY <1>0, <1>14, AnswerStep DEF Answer, handlerVars
<1>15. CASE OnSignals
  BY <1>0, <1>15, OnSignalsStep DEF OnSignals, handlerVars
<1>16. CASE UNCHANGED vars
  BY <1>0, <1>16, UnchangedStep DEF vars
<1>18. CASE NoLoggedOnUser
  BY <1>0, <1>18, NoLoggedOnUserStep DEF NoLoggedOnUser, handlerVars
<1> HIDE DEF OldKept
<1>17. CASE WorkerNext
  BY <1>1, <1>2, <1>3, <1>4, <1>5, <1>6, <1>7, <1>8, <1>9, <1>17 DEF WorkerNext, OldKept
<1> QED
  BY <1>10, <1>11, <1>12, <1>13, <1>14, <1>15, <1>16, <1>17, <1>18 DEF Next, OldKept

\* What drives a transfer is in one place, every request and reply of the transfer that
\* is alive fits the state of both FileRequestHandlers, a file that is being written is
\* written in order, and whatever may replace a file has the user's consent.
THEOREM FilesInvariant == Spec => []FilesInv
<1>1. Init => FilesInv
  BY InitStep
<1>2. FilesInv /\ [Next]_vars => FilesInv'
  BY FilesStep
<1> QED
  BY <1>1, <1>2, PTL DEF Spec

\* The variables of FileTransfer, FileWorker and FileRequestHandler keep their types.
THEOREM FilesTypes == Spec => []TypeOK
<1>1. FilesInv => TypeOK
  BY DEF FilesInv
<1> QED
  BY <1>1, FilesInvariant, PTL

\* Whatever fails, is skipped, aborted or cancelled, and whatever transfer follows,
\* ~FileDepacketizer and doUploadRequest leave no truncated or mixed file behind.
THEOREM FilesNeverTruncated == Spec => []NoTruncatedFile
<1>1. FilesInv => NoTruncatedFile
  BY DEF FilesInv
<1> QED
  BY <1>1, FilesInvariant, PTL

\* A file whose last packet targetReply saw confirmed stays complete until it is
\* transferred again, when the target's system refuses to remove a file that is open.
THEOREM ConfirmedFilesKept ==
    ASSUME ~ RemovesOpenFiles PROVE Spec => []ConfirmedFileKept
<1>1. FilesInv => ConfirmedFileKept
  BY DEF FilesInv, CopiedInv, Kept, ConfirmedFileKept
<1> QED
  BY <1>1, FilesInvariant, PTL

\* setAction and doFrontTask never make doUploadRequest replace a file of the target that
\* the user did not agree to replace.
THEOREM OldFilesKept == Spec => OldKeptUnlessReplaced
<1>1. FilesInv /\ [Next]_vars =>
        [\A f \in Files : disk[f] = Old(f) /\ disk'[f] # Old(f) => f \in granted]_vars
  BY FilesStep
<1> QED
  BY <1>1, FilesInvariant, PTL DEF Spec, OldKeptUnlessReplaced
=============================================================================
