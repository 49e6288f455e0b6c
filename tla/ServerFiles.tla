----------------------------- MODULE ServerFiles -----------------------------
(* The files of one server, as the agent's requests work on them            *)
(* (src/agent/files.py, on Linux) while the server itself works in the same *)
(* folder.  Every request runs in a thread: each system call is a step.  A  *)
(* request is the list of the calls it still has to make; listing a folder  *)
(* or an archive adds to it.                                                *)
EXTENDS Integers, Sequences, FiniteSets, SequencesExt

CONSTANTS
  Requests,    \* the requests, which also name their temporary files
  Plain,       \* names of files and folders
  Inodes,      \* what the disk can hold, 1..n
  Offers,      \* what may be asked: [op, path, dest]
  QueueMax,    \* chunks of an upload that wait for the disk (8 in the code)
  Body,        \* chunks of the body of an upload
  MaxTroubles  \* names that the server replaces itself, uploads cut off, agents that die

VARIABLES
  kind,      \* of each inode: "dir", "file" or "link"
  entry,     \* the inode under each name of each folder, or None
  data,      \* the chunks of each file
  job,       \* what each request has still to do, and holds
  feed,      \* the handler of an upload: what it does, what is to come, and its queue
  littered,  \* whether a folder was copied beside a write, or the agent died
  troubles

vars == <<kind, entry, data, job, feed, littered, troubles>>

None == 0
Root == 1
Out == 2          \* a folder that is not the server's
OutFile == 3      \* a file in it
Link == 7         \* a link to it
CopyOf(n) == n \o " copy"
Names == Plain \union {CopyOf(n) : n \in Plain} \union Requests
Idle == [todo |-> <<>>, at |-> None, other |-> None, fd |-> None, seen |-> "none",
         out |-> [dir |-> None, name |-> "", file |-> None], got |-> <<>>, says |-> "idle"]
NoOut == Idle.out
NoFeed == [does |-> "none", left |-> 0, queue |-> <<>>]

\* A folder "d" with a file "f" in it, and a file "f".
Init ==
  /\ kind = [i \in Inodes |-> IF i \in {Root, Out, 4} THEN "dir" ELSE IF i = Link THEN "link" ELSE "file"]
  /\ entry = [x \in Inodes \X Names |->
       CASE x = <<Out, "f">> -> OutFile [] x = <<Root, "d">> -> 4 [] x = <<4, "f">> -> 5
         [] x = <<Root, "f">> -> 6 [] OTHER -> None]
  /\ data = [i \in Inodes |-> IF i \in {3, 5, 6} THEN <<"old", "old">> ELSE <<>>]
  /\ job = [p \in Requests |-> Idle]
  /\ feed = [p \in Requests |-> NoFeed]
  /\ littered = FALSE /\ troubles = 0

------------------------------------------------------------------------------
(* The disk.                                                                *)

Links(i) == {x \in Inodes \X Names : entry[x] = i}
Listed(d) == {n \in Names : entry[<<d, n>>] # None}
\* A folder that was removed takes no new names, even from one who has it open.
Alive(d) == d \in {Root, Out} \/ Links(d) # {}
Held == UNION {{job[p].at, job[p].other, job[p].fd, job[p].out.dir, job[p].out.file} : p \in Requests}
Fresh == Min(Inodes \ ({Root, Out, OutFile, Link} \union Held \union {entry[x] : x \in Inodes \X Names}))

\* The folders under a folder, and itself: folders are at most three deep here.
SubfoldersOf(ds) == {j \in Inodes : kind[j] = "dir" /\ \E x \in ds \X Names : entry[x] = j}
Below(d) == LET one == SubfoldersOf({d})  two == SubfoldersOf(one) IN {d} \union one \union two \union SubfoldersOf(two)

------------------------------------------------------------------------------
(* The calls of each request, in order.                                     *)

\* The folder is opened name by name, from the root, links refused (_dir_fd).
Walk(path, create) == <<[do |-> "root"]>> \o [k \in DOMAIN path |-> [do |-> "enter", name |-> path[k], create |-> create]]

Opens(path) == Walk(Front(path), FALSE) \o <<[do |-> "open", name |-> Last(path)]>>
\* Beside the target, and renamed over it when it is whole and on disk.
Writes(path, chunks) ==
  Walk(Front(path), TRUE)
    \o <<[do |-> "target", name |-> Last(path)], [do |-> "create", name |-> Last(path)]>>
    \o chunks \o <<[do |-> "replace"]>>
Both(verb) == <<[do |-> verb, part |-> 1], [do |-> verb, part |-> 2]>>
Puts(v) == <<[do |-> "put", value |-> v], [do |-> "put", value |-> v]>>
CopyFile(src, dst) == Opens(src) \o Writes(dst, Both("copy"))
CopyTree(src, dst) == Walk(dst, TRUE) \o Walk(src, FALSE) \o <<[do |-> "tree", src |-> src, dst |-> dst]>>

Calls(p, r) ==
  CASE r.op = "read" -> Opens(r.path) \o Both("read")
    [] r.op = "write" -> Writes(r.path, Puts(p))
    [] r.op = "upload" -> Writes(r.path, <<[do |-> "take"]>>)
    [] r.op = "mkdir" -> Walk(r.path, TRUE)
    [] r.op = "create" -> Walk(Front(r.path), FALSE) \o <<[do |-> "exists", path |-> r.path]>>
    [] r.op = "delete" ->
         Walk(Front(r.path), FALSE) \o <<[do |-> "look", name |-> Last(r.path)], [do |-> "remove", name |-> Last(r.path)]>>
    [] r.op = "move" ->
         Walk(Front(r.path), FALSE) \o <<[do |-> "hold"]>> \o Walk(Front(r.dest), FALSE)
           \o <<[do |-> "source", name |-> Last(r.path)], [do |-> "absent", name |-> Last(r.dest)],
                [do |-> "rename", name |-> Last(r.path), to |-> Last(r.dest)]>>
    [] r.op = "copy" ->
         Walk(Front(r.path), FALSE) \o <<[do |-> "spot", name |-> Last(r.path)]>> \o Walk(r.dest, FALSE)
           \o <<[do |-> "copyto", src |-> r.path, folder |-> r.dest]>>
    [] r.op = "extract" -> Opens(r.path) \o Both("read") \o <<[do |-> "unpack", base |-> Front(r.path)]>>
    [] r.op = "compress" ->
         SubSeq(Writes(r.dest, <<>>), 1, Len(Front(r.dest)) + 3) \o Walk(Front(r.path), FALSE)
           \o <<[do |-> "pack", path |-> r.path]>> \o Puts(p) \o <<[do |-> "replace"]>>

\* A folder is not moved or copied into itself.
Allowed(r) ==
  /\ r.op \in {"move", "copy"} => ~ IsStrictPrefix(r.path, r.dest)
  /\ r.op = "move" => r.path # r.dest
Begins(p) ==
  /\ job[p].says = "idle"
  /\ \E r \in Offers :
       /\ Allowed(r)
       /\ job' = [job EXCEPT ![p] = [Idle EXCEPT !.todo = Calls(p, r), !.says = "busy"]]
       /\ feed' = [feed EXCEPT ![p] = IF r.op = "upload" THEN [does |-> "reads", left |-> Body, queue |-> <<>>] ELSE NoFeed]
  /\ UNCHANGED <<kind, entry, data, littered, troubles>>

------------------------------------------------------------------------------
(* The calls.                                                               *)

At(p, verb) == job[p].todo # <<>> /\ Head(job[p].todo).do = verb
Now(p) == Head(job[p].todo)
\* A bug: links are followed.
FoundFollowing(p) == LET i == entry[<<job[p].at, Now(p).name>>] IN IF i = Link THEN Out ELSE i
Found(p) == entry[<<job[p].at, Now(p).name>>]
Is(i, k) == i # None /\ kind[i] = k
\* On to the next call, with "more" before it.
Goes(p, j, more) ==
  LET left == more \o Tail(job[p].todo) IN
    job' = [job EXCEPT ![p] = [j EXCEPT !.todo = left, !.says = IF left = <<>> THEN "done" ELSE "busy"]]
\* An error: the temporary file is removed, if it is still there.
Without(e, p) ==
  LET o == job[p].out IN
    IF o # NoOut /\ e[<<o.dir, p>>] = o.file THEN [e EXCEPT ![<<o.dir, p>>] = None] ELSE e
Refused(p) ==
  /\ entry' = Without(entry, p)
  /\ job' = [job EXCEPT ![p] = [Idle EXCEPT !.says = "refused"]]
Quiet == UNCHANGED <<kind, entry, data>>
Rest == UNCHANGED <<feed, littered, troubles>>
Fails(p) == Refused(p) /\ UNCHANGED <<kind, data>> /\ Rest

FromRoot(p) == At(p, "root") /\ Goes(p, [job[p] EXCEPT !.at = Root], <<>>) /\ Quiet /\ Rest

\* O_DIRECTORY and O_NOFOLLOW, from the folder that is open.
Opened(p) == Is(Found(p), "dir")
Enters(p) ==
  /\ At(p, "enter")
  /\ \/ Opened(p) /\ Goes(p, [job[p] EXCEPT !.at = Found(p)], <<>>) /\ Quiet /\ Rest
     \/ /\ ~ Opened(p) /\ (Found(p) # None \/ ~ Now(p).create)
        /\ Fails(p)
     \/ /\ Found(p) = None /\ Now(p).create
        /\ Goes(p, job[p], <<[do |-> "make", name |-> Now(p).name], [Now(p) EXCEPT !.create = FALSE]>>)
        /\ Quiet /\ Rest
\* One that was made by somebody else in this instant is opened like any other.
Makes(p) ==
  /\ At(p, "make")
  /\ \/ Found(p) # None /\ Goes(p, job[p], <<>>) /\ Quiet /\ Rest
     \/ Found(p) = None /\ ~ Alive(job[p].at) /\ Fails(p)
     \/ /\ Found(p) = None /\ Alive(job[p].at)
        /\ kind' = [kind EXCEPT ![Fresh] = "dir"]
        /\ entry' = [entry EXCEPT ![<<job[p].at, Now(p).name>>] = Fresh]
        /\ Goes(p, job[p], <<>>)
        /\ UNCHANGED data /\ Rest

\* A file with other hard links is not served, and not written.
Servable(i) == Is(i, "file") /\ Cardinality(Links(i)) <= 1
OpensFile(p) ==
  /\ At(p, "open")
  /\ \/ Servable(Found(p)) /\ Goes(p, [job[p] EXCEPT !.fd = Found(p)], <<>>) /\ Quiet /\ Rest
     \/ ~ Servable(Found(p)) /\ Fails(p)
ReadPart(p) == IF Now(p).part \in DOMAIN data[job[p].fd] THEN <<data[job[p].fd][Now(p).part]>> ELSE <<>>
Reads(p) ==
  /\ At(p, "read")
  /\ Goes(p, [job[p] EXCEPT !.got = @ \o ReadPart(p)], <<>>)
  /\ Quiet /\ Rest

Targets(p) ==
  /\ At(p, "target")
  /\ \/ (Found(p) = None \/ Servable(Found(p))) /\ Goes(p, job[p], <<>>) /\ Quiet /\ Rest
     \/ Found(p) # None /\ ~ Servable(Found(p)) /\ Fails(p)
Creates(p) ==
  /\ At(p, "create")
  /\ \/ ~ Alive(job[p].at) /\ Fails(p)
     \/ /\ Alive(job[p].at)
        /\ kind' = [kind EXCEPT ![Fresh] = "file"]
        /\ data' = [data EXCEPT ![Fresh] = <<>>]
        /\ entry' = [entry EXCEPT ![<<job[p].at, p>>] = Fresh]
        /\ Goes(p, [job[p] EXCEPT !.out = [dir |-> job[p].at, name |-> Now(p).name, file |-> Fresh]], <<>>)
        /\ Rest
Written(p, chunks) == data' = [data EXCEPT ![job[p].out.file] = @ \o chunks]
Puts1(p) == At(p, "put") /\ Written(p, <<Now(p).value>>) /\ Goes(p, job[p], <<>>) /\ UNCHANGED <<kind, entry>> /\ Rest
Copies(p) == At(p, "copy") /\ Written(p, ReadPart(p)) /\ Goes(p, job[p], <<>>) /\ UNCHANGED <<kind, entry>> /\ Rest
\* rename(2) of the temporary file over the target: a folder there is in the way.
Replaces(p) ==
  LET o == job[p].out IN
  /\ At(p, "replace")
  /\ \/ /\ entry[<<o.dir, p>>] = o.file /\ ~ Is(entry[<<o.dir, o.name>>], "dir")
        /\ entry' = [entry EXCEPT ![<<o.dir, o.name>>] = o.file, ![<<o.dir, p>>] = None]
        /\ Goes(p, [job[p] EXCEPT !.out = NoOut], <<>>)
        /\ UNCHANGED <<kind, data>> /\ Rest
     \/ (entry[<<o.dir, p>>] # o.file \/ Is(entry[<<o.dir, o.name>>], "dir")) /\ Fails(p)

\* create_file: nothing to do for one that is there, otherwise an empty one is written.
Exists(p) ==
  LET i == entry[<<job[p].at, Last(Now(p).path)>>] IN
  /\ At(p, "exists")
  /\ \/ Is(i, "link") /\ Fails(p)
     \/ /\ ~ Is(i, "link")
        /\ Goes(p, job[p], IF i # None THEN <<>> ELSE Writes(Now(p).path, <<>>))
        /\ Quiet /\ Rest

\* delete: what it is is looked up, and then a folder is emptied and removed.
Looks(p) ==
  /\ At(p, "look")
  /\ \/ Found(p) = None /\ Fails(p)
     \/ Found(p) # None /\ Goes(p, [job[p] EXCEPT !.seen = kind[Found(p)]], <<>>) /\ Quiet /\ Rest
AsSeen(p) == Found(p) # None /\ (job[p].seen = "dir") = Is(Found(p), "dir")
Removes(p) ==
  /\ At(p, "remove")
  /\ \/ ~ AsSeen(p) /\ Fails(p)
     \/ /\ AsSeen(p) /\ Is(Found(p), "dir")
        /\ Goes(p, [job[p] EXCEPT !.fd = Found(p)], <<[do |-> "empty"], [do |-> "rmdir", name |-> Now(p).name]>>)
        /\ Quiet /\ Rest
     \/ /\ AsSeen(p) /\ ~ Is(Found(p), "dir")
        /\ entry' = [entry EXCEPT ![<<job[p].at, Now(p).name>>] = None]
        /\ Goes(p, job[p], <<>>)
        /\ UNCHANGED <<kind, data>> /\ Rest
\* shutil.rmtree: entry by entry, folders when they are empty, links not followed.
Leaves(i) == {x \in Below(i) \X Names : entry[x] # None /\ (kind[entry[x]] = "dir" => Listed(entry[x]) = {})}
Empties(p) ==
  /\ At(p, "empty")
  /\ \/ Leaves(job[p].fd) = {} /\ Goes(p, job[p], <<>>) /\ Quiet /\ Rest
     \/ \E x \in Leaves(job[p].fd) :
          /\ entry' = [entry EXCEPT ![x] = None]
          /\ UNCHANGED <<kind, data, job>> /\ Rest
RemovesFolder(p) ==
  LET done == Is(Found(p), "dir") /\ Listed(Found(p)) = {} IN
  /\ At(p, "rmdir")
  /\ \/ /\ done
        /\ entry' = [entry EXCEPT ![<<job[p].at, Now(p).name>>] = None]
        /\ Goes(p, job[p], <<>>) /\ UNCHANGED <<kind, data>> /\ Rest
     \/ ~ done /\ Fails(p)

\* rename and move: both folders are open, both names are looked at, and then it is renamed.
Holds(p) == At(p, "hold") /\ Goes(p, [job[p] EXCEPT !.other = job[p].at], <<>>) /\ Quiet /\ Rest
FindsSource(p) ==
  /\ At(p, "source")
  /\ IF entry[<<job[p].other, Now(p).name>>] = None THEN Fails(p) ELSE Goes(p, job[p], <<>>) /\ Quiet /\ Rest
FindsRoom(p) ==
  /\ At(p, "absent")
  /\ IF Found(p) # None THEN Fails(p) ELSE Goes(p, job[p], <<>>) /\ Quiet /\ Rest
\* rename(2) replaces a file that appeared since, or an empty folder by a folder.
Renamable(p) ==
  LET s == entry[<<job[p].other, Now(p).name>>]
      t == entry[<<job[p].at, Now(p).to>>] IN
  /\ s # None /\ Alive(job[p].at)
  /\ Is(s, "dir") => job[p].at \notin Below(s) /\ (Is(t, "dir") => Listed(t) = {}) /\ (t = None \/ Is(t, "dir"))
  /\ ~ Is(s, "dir") => ~ Is(t, "dir")
Renames(p) ==
  /\ At(p, "rename")
  /\ \/ ~ Renamable(p) /\ Fails(p)
     \/ /\ Renamable(p)
        /\ entry' = [entry EXCEPT ![<<job[p].at, Now(p).to>>] = entry[<<job[p].other, Now(p).name>>],
                                  ![<<job[p].other, Now(p).name>>] = None]
        /\ Goes(p, job[p], <<>>)
        /\ UNCHANGED <<kind, data>> /\ Rest

\* copy: what it is, and whether the name is free, are read from listings.
Spots(p) ==
  /\ At(p, "spot")
  /\ \/ (Found(p) = None \/ Is(Found(p), "link")) /\ Fails(p)
     \/ /\ Found(p) # None /\ ~ Is(Found(p), "link")
        /\ Goes(p, [job[p] EXCEPT !.seen = kind[Found(p)]], <<>>)
        /\ Quiet /\ Rest
CopiesTo(p) ==
  LET n == Last(Now(p).src)
      to == Now(p).folder \o <<IF n \in Listed(job[p].at) THEN CopyOf(n) ELSE n>> IN
  /\ At(p, "copyto")
  /\ IF job[p].seen = "dir" /\ IsPrefix(Now(p).src, Now(p).folder) THEN Fails(p)
       ELSE /\ Goes(p, job[p], IF job[p].seen = "dir" THEN CopyTree(Now(p).src, to) ELSE CopyFile(Now(p).src, to))
            /\ littered' = (littered \/ job[p].seen = "dir")
            /\ Quiet /\ UNCHANGED <<feed, troubles>>
\* What is in the folder that was opened, links left out.
Members(p) == SetToSeq({n \in Listed(job[p].at) : kind[entry[<<job[p].at, n>>]] # "link"})
CopiesTree(p) ==
  LET s == Now(p).src  t == Now(p).dst
      one(n) == IF kind[entry[<<job[p].at, n>>]] = "dir"
                  THEN CopyTree(Append(s, n), Append(t, n)) ELSE CopyFile(Append(s, n), Append(t, n))
  IN
  /\ At(p, "tree")
  /\ Goes(p, job[p], FlattenSeq([k \in DOMAIN Members(p) |-> one(Members(p)[k])]))
  /\ Quiet /\ Rest

\* extract: every member is checked before the first is written; "f" and "d/f" here.
Unpacks(p) ==
  LET b == Now(p).base IN
  /\ At(p, "unpack")
  /\ IF job[p].got # <<"old", "old">> THEN Fails(p)
       ELSE /\ Goes(p, [job[p] EXCEPT !.got = <<>>],
                    Writes(b \o <<"d", "f">>, Puts("old")) \o Writes(b \o <<"f">>, Puts("old")))
            /\ Quiet /\ Rest
\* compress: a file, or all of a folder, into the archive that is being written.
Packs(p) ==
  LET path == Now(p).path
      i == entry[<<job[p].at, Last(path)>>] IN
  /\ At(p, "pack")
  /\ Goes(p, job[p], IF i = None \/ Is(i, "link") THEN <<>>
                       ELSE IF kind[i] = "file" THEN Opens(path)
                       ELSE Walk(path, FALSE) \o <<[do |-> "packed", path |-> path]>>)
  /\ Quiet /\ Rest

PacksFolder(p) ==
  /\ At(p, "packed")
  /\ Goes(p, job[p], FlattenSeq([k \in DOMAIN Members(p) |->
       LET n == Members(p)[k]  path == Append(Now(p).path, n) IN
         IF kind[entry[<<job[p].at, n>>]] = "file" THEN Opens(path)
         ELSE Walk(path, FALSE) \o <<[do |-> "packed", path |-> path]>>]))
  /\ Quiet /\ Rest

------------------------------------------------------------------------------
(* An upload: the handler puts what arrives in a queue, the thread takes it. *)

Feeds(p, f) == feed' = [feed EXCEPT ![p] = f]
Still == UNCHANGED <<kind, entry, data, job, littered>>
HandlerReads(p) ==
  /\ feed[p].does = "reads" /\ feed[p].left > 0 /\ Len(feed[p].queue) < QueueMax
  /\ Feeds(p, [feed[p] EXCEPT !.left = @ - 1, !.queue = Append(@, "chunk")])
  /\ Still /\ UNCHANGED troubles
CutOff(p) ==
  /\ feed[p].does = "reads" /\ feed[p].left > 0 /\ troubles < MaxTroubles
  /\ troubles' = troubles + 1
  /\ Feeds(p, [feed[p] EXCEPT !.does = "abort"])
  /\ Still
\* The end of the body, or _ABORT, goes into the same queue.
HandlerEnds(p) ==
  /\ feed[p].does = "abort" \/ (feed[p].does = "reads" /\ feed[p].left = 0)
  /\ Len(feed[p].queue) < QueueMax
  /\ Feeds(p, [feed[p] EXCEPT !.does = "waits", !.queue = Append(@, IF feed[p].does = "abort" THEN "abort" ELSE "end")])
  /\ Still /\ UNCHANGED troubles
HandlerAnswers(p) ==
  /\ feed[p].does = "waits" /\ job[p].todo = <<>>
  /\ Feeds(p, NoFeed)
  /\ Still /\ UNCHANGED troubles
Takes(p) ==
  LET q == feed[p].queue IN
  /\ At(p, "take") /\ q # <<>>
  /\ Feeds(p, [feed[p] EXCEPT !.queue = Tail(@)])
  /\ \/ Head(q) = "chunk" /\ Written(p, <<p>>) /\ UNCHANGED <<kind, entry, job>>
     \/ Head(q) = "end" /\ Goes(p, job[p], <<>>) /\ Quiet
     \/ Head(q) = "abort" /\ Refused(p) /\ UNCHANGED <<kind, data>>
  /\ UNCHANGED <<littered, troubles>>

------------------------------------------------------------------------------
(* The server, and the agent's end.                                         *)

\* The server removes what is there, or puts a link or another file's second name there.
ServerSwaps ==
  /\ troubles < MaxTroubles
  /\ troubles' = troubles + 1
  /\ \E d \in Below(Root), n \in Plain : \E i \in {None, Link, OutFile} :
       /\ i # entry[<<d, n>>]
       /\ entry' = [entry EXCEPT ![<<d, n>>] = i]
  /\ UNCHANGED <<kind, data, job, feed, littered>>
\* Nothing removes the temporary files of an agent that is gone.
AgentDies ==
  /\ troubles < MaxTroubles
  /\ troubles' = troubles + 1
  /\ job' = [p \in Requests |-> [Idle EXCEPT !.says = "lost"]] /\ feed' = [p \in Requests |-> NoFeed]
  /\ littered' = TRUE
  /\ UNCHANGED <<kind, entry, data>>

CallOf(p) ==
  \/ FromRoot(p) \/ Enters(p) \/ Makes(p) \/ OpensFile(p) \/ Reads(p) \/ Targets(p) \/ Creates(p)
  \/ Puts1(p) \/ Copies(p) \/ Replaces(p) \/ Exists(p) \/ Looks(p) \/ Removes(p) \/ Empties(p)
  \/ RemovesFolder(p) \/ Holds(p) \/ FindsSource(p) \/ FindsRoom(p) \/ Renames(p) \/ Spots(p)
  \/ CopiesTo(p) \/ CopiesTree(p) \/ Unpacks(p) \/ Packs(p) \/ PacksFolder(p) \/ Takes(p)
HandlerOf(p) == HandlerReads(p) \/ HandlerEnds(p) \/ HandlerAnswers(p)
Next ==
  \/ \E p \in Requests : Begins(p) \/ CallOf(p) \/ HandlerOf(p) \/ CutOff(p)
  \/ ServerSwaps \/ AgentDies
Spec == Init /\ [][Next]_vars
\* Threads and handlers go on; a client that sends goes on sending.
FairSpec == Spec /\ \A p \in Requests : WF_vars(CallOf(p)) /\ WF_vars(HandlerOf(p))

------------------------------------------------------------------------------
(* Properties.                                                              *)

TypeOK ==
  /\ kind \in [Inodes -> {"dir", "file", "link"}] /\ entry \in [Inodes \X Names -> Inodes \union {None}]
  /\ \A p \in Requests : feed[p].queue \in BoundedSeq({"chunk", "end", "abort"}, QueueMax)

\* No request ever opens, changes or removes anything that is not in the folder, whatever
\* links the server puts in its way and at whatever moment.
StaysInside ==
  /\ \A p \in Requests :
       LET j == job[p] IN {j.at, j.other, j.fd, j.out.dir, j.out.file} \intersect {Out, OutFile} = {}
  /\ data[OutFile] = <<"old", "old">>
  /\ \A n \in Names : entry[<<Out, n>>] = IF n = "f" THEN OutFile ELSE None

\* What is read, and what is under any name but that of a temporary file, is all of one write:
\* an upload that is cut off or refused never replaces a whole file.
IsWhole(d) == d = <<>> \/ \E v \in Requests \union {"old"} : d = <<v, v>>
WholeFiles ==
  /\ \A x \in Inodes \X (Names \ Requests) :
       entry[x] # None /\ kind[entry[x]] = "file" => IsWhole(data[entry[x]])
  /\ \A p \in Requests : job[p].says = "done" => IsWhole(job[p].got)

\* A temporary file is there only while its request still writes it.
NoLitter ==
  ~ littered => \A x \in Inodes \X Requests :
    entry[x] # None => job[x[2]].out.dir = x[1] /\ job[x[2]].out.file = entry[x]

\* Every upload is answered, also one that the disk or the jail refuses.
\* Does not hold: see README, section 6.
UploadAnswered == \A p \in Requests : feed[p].does # "none" ~> feed[p].does = "none"
=============================================================================
