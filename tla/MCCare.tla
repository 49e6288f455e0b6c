------------------------------- MODULE MCCare -------------------------------
(* How servers are looked after: their containers, players and history,     *)
(* what is found out about their mods, what a model advises, and what is    *)
(* kept to undo a change.  The parts share no state, and a behaviour is one *)
(* of one part: one run explores them all.                                  *)
EXTENDS Integers, FiniteSets

VARIABLES part,   \* the part that this behaviour is of
  folder, file, snaps, req, saved, changes, troubles,
  assistFolder, job, assistChanges, asks, assistTroubles,
  image, ready, lock, at, taken, wants, again, said, box, published, installer, printed, heard,
  reader, pump, detached, exits, broke, killed, starts, prunes, restarts, boxesTroubles,
  pack, scanFolder, scan, sides, scans, scanChanges, scanTroubles,
  up, peopleFile, memory, mode, peopleReq, promised, mixed, peopleChanges, powers,
  peopleTroubles,
  now, rows, loop, written, torn, historyTroubles,
  world, examFolder, log, crash, exam, since, exams, examChanges, examTroubles,
  server, cache, disk, asking, shown, on, adviceAsks, adviceChanges

\* Servers to tune, and what a model may say of them: in order, out of bounds, about what the
\* server has not got, at odds with itself.
Machine(print, heap, ceiling, unmeasured) ==
  [print |-> print, heap |-> heap, ceiling |-> ceiling, unmeasured |-> unmeasured,
   flags |-> [h \in {"gc", "pause"} |-> [value |-> IF h = "gc" THEN 1 ELSE 200, on |-> h = "gc"]],
   props |-> [k \in {"view-distance", "simulation-distance"} |-> IF k = "view-distance" THEN 10 ELSE 8]]
Machines == {Machine("a", 8, 68, FALSE), Machine("b", 2, 8, FALSE), Machine("c", 12, 60, TRUE)}
Flag(h, v, o) == [head |-> h, value |-> v, on |-> o]
Prop(k, v) == [key |-> k, value |-> v]
Advices ==
  {[heap |-> 0, flags |-> <<Flag("gc", 1, FALSE), Flag("pause", 900, TRUE)>>,
    props |-> <<Prop("simulation-distance", 12)>>],
   [heap |-> 9, flags |-> <<Flag("pause", 100, TRUE), Flag("oops", 1, TRUE)>>,
    props |-> <<Prop("view-distance", 6)>>],
   [heap |-> 80, flags |-> <<Flag("bad", 1, TRUE), Flag("oops", 1, FALSE)>>,
    props |-> <<Prop("simulation-distance", 9), Prop("view-distance", 8)>>],
   [heap |-> 1, flags |-> <<>>, props |-> <<Prop("difficulty", 3), Prop("view-distance", 40)>>]}

\* Three jars, two of which have one name but for its punctuation while the name of one is within the
\* other's, and what a model may say of them: by name, by a piece of it, by one that nothing has.
Jar(words, mark) == [words |-> words, mark |-> mark]
Alike == {Jar(<<"api">>, 1), Jar(<<"lib", "api">>, 1), Jar(<<"api">>, 2)}
Says(kind, names) == [kind |-> kind, names |-> names]
Called(words, mark, suffix) == [words |-> words, mark |-> mark, suffix |-> suffix]
Plans ==
  {<<Says("disable", <<Called(<<"api">>, 1, "jar"), Called(<<"lib">>, 1, "none")>>), Says("heap", <<>>)>>,
   <<Says("delete", <<Called(<<"api">>, 3, "none")>>),
     Says("disable", <<Called(<<"lib", "api">>, 2, "jar"), Called(<<"api">>, 1, "jar")>>)>>,
   <<Says("none", <<>>), Says("page", <<>>), Says("property", <<>>)>>,
   <<Says("delete", <<Called(<<"api">>, 1, "jar")>>)>>,
   <<Says("delete", <<Called(<<"x">>, 1, "jar")>>)>>}
Reviews ==
  {[plan |-> p, culprits |-> c] :
     p \in Plans, c \in {<<>>, <<Called(<<"lib", "api">>, 2, "none"), Called(<<"y">>, 1, "jar")>>}}

\* Two jars and a shader, what speaks of each, which needs which, and what people decided.
Silent ==
  [modrinth |-> "", side |-> "", entry |-> "", layout |-> "", mixins |-> "", library |-> FALSE,
   content |-> "", filed |-> FALSE, named |-> FALSE]
Evidence ==
  {[Silent EXCEPT !.side = "client"],
   [Silent EXCEPT !.modrinth = "required", !.layout = "all"],
   [Silent EXCEPT !.named = TRUE, !.filed = TRUE, !.content = "assets", !.modrinth = "optional"]}
Scanned(says, needs, renderer, operator) ==
  [says |-> says, needs |-> needs, renderer |-> renderer, operator |-> operator]
Verdicts ==
  {<<"none", "none", "none">>, <<"allow", "none", "none">>, <<"block", "none", "none">>, <<"none", "none", "allow">>}
ScanPacks ==
  {[j \in {"a", "b", "s"} |->
      CASE j = "a" -> Scanned(ea, na, FALSE, o[1]) [] j = "b" -> Scanned(eb, nb, FALSE, o[2])
        [] OTHER -> Scanned([Silent EXCEPT !.entry = "client"], {}, r, o[3])] :
    ea \in Evidence, eb \in Evidence, na \in SUBSET {"b", "s"}, nb \in {{}, {"a"}, {"s"}}, r \in BOOLEAN,
    o \in Verdicts}

\* Sick servers: what their logs say, their settings, and what their three jars have and need.
Point(kind, jar) == [kind |-> kind, jar |-> jar]
Problem(what, severity) == [title |-> <<what, 0>>, severity |-> severity, files |-> {}]
Sick ==
  {[points |-> {Point("blamed", 1), Point("frames", 2), Point("suspected", 3)},
    says |-> {Problem("eula", "critical")}, server |-> {Problem("eula", "warning"), Problem("java", "critical")},
    facts |-> <<{"listed"}, {"named"}, {"named", "listed"}>>,
    id |-> <<1, 2, 3>>, needs |-> <<{2}, {4}, {}>>, gives |-> <<{}, {}, {4}>>, alike |-> <<{2}, {}, {1}>>],
   [points |-> {Point("java", 1), Point("lacks", 2), Point("trail", 3)}, says |-> {}, server |-> {},
    facts |-> <<{"named", "listed", "built"}, {"client"}, {"misfit"}>>,
    id |-> <<1, 1, 3>>, needs |-> <<{}, {3}, {1, 5}>>, gives |-> <<{}, {}, {}>>, alike |-> <<{}, {}, {}>>],
   [points |-> {}, says |-> {}, server |-> {},
    facts |-> <<{"named", "supports", "listed"}, {"broken"}, {}>>,
    id |-> <<1, 2, 1>>, needs |-> <<{2}, {}, {6}>>, gives |-> <<{6}, {}, {}>>, alike |-> <<{}, {}, {}>>]}

Undoing == INSTANCE ModSnapshots WITH
  Jars <- {"a", "b"}, Requests <- {"q1", "q2"}, Ids <- {1, 2, 3}, First <- 2, Keep <- 2,
  MaxVersions <- 2, MaxChanges <- 2, MaxTroubles <- 1
Helping == INSTANCE Assistant WITH
  Jars <- Alike, Short <- {"x", "y"}, Answers <- Reviews, Blamed <- {{}, {Jar(<<"api">>, 1)}},
  Ladder <- 2, MaxAsks <- 1, MaxChanges <- 1, MaxTroubles <- 1, folder <- assistFolder,
  changes <- assistChanges, troubles <- assistTroubles
Hosting == INSTANCE Containers WITH
  Addons <- {7}, Game <- 5, MaxLines <- 2, MaxStarts <- 2, MaxPrunes <- 1, MaxRestarts <- 1,
  MaxTroubles <- 1, troubles <- boxesTroubles
Scanning == INSTANCE ClientScan WITH
  Jars <- {"a", "b", "s"}, Packs <- ScanPacks, MaxScans <- 1, MaxChanges <- 1, MaxTroubles <- 1,
  folder <- scanFolder, changes <- scanChanges, troubles <- scanTroubles
Listing == INSTANCE Players WITH
  Names <- {"a", "b"}, Requests <- {"q1", "q2"}, Selections <- {<<"a">>, <<"a", "b">>, <<"b">>},
  MaxChanges <- 2, MaxPowers <- 1, MaxTroubles <- 1, file <- peopleFile, req <- peopleReq,
  changes <- peopleChanges, troubles <- peopleTroubles
Remembering == INSTANCE History WITH
  Servers <- {"s"}, Loops <- {"p1", "p2"}, Running <- {0, 2, 3, 5}, Rolled <- 2, KeepRaw <- 1,
  KeepAll <- 3, CompactEvery <- 5, Batch <- 2, MaxTime <- 5, MaxTroubles <- 1,
  troubles <- historyTroubles
Examining == INSTANCE Diagnosis WITH
  Jars <- 1..3, Worlds <- Sick, MaxExams <- 1, MaxChanges <- 3, MaxTroubles <- 1,
  folder <- examFolder, changes <- examChanges, troubles <- examTroubles
Advising == INSTANCE Advice WITH
  Servers <- Machines, Answers <- Advices, MaxAsks <- 2, MaxChanges <- 2, asks <- adviceAsks,
  changes <- adviceChanges

snapsVars ==
  <<folder, file, snaps, req, saved, changes, troubles>>
assistVars ==
  <<assistFolder, job, assistChanges, asks, assistTroubles>>
boxesVars ==
  <<image, ready, lock, at, taken, wants, again, said, box, published, installer, printed, heard,
    reader, pump, detached, exits, broke, killed, starts, prunes, restarts, boxesTroubles>>
scanVars ==
  <<pack, scanFolder, scan, sides, scans, scanChanges, scanTroubles>>
peopleVars ==
  <<up, peopleFile, memory, mode, peopleReq, promised, mixed, peopleChanges, powers,
    peopleTroubles>>
historyVars ==
  <<now, rows, loop, written, torn, historyTroubles>>
examVars ==
  <<world, examFolder, log, crash, exam, since, exams, examChanges, examTroubles>>
adviceVars ==
  <<server, cache, disk, asking, shown, on, adviceAsks, adviceChanges>>
allVars == <<part, snapsVars, assistVars, boxesVars, scanVars, peopleVars, historyVars, examVars,
       adviceVars>>

\* The parts that are not of the behaviour stay as they begin.
PartsInit ==
  /\ part \in {"snaps", "assist", "boxes", "scan", "people", "history", "exam", "advice"}
  /\ Undoing!Init
  /\ Helping!Init
  /\ part # "assist" => assistFolder = [j \in Alike |-> "on"]
  /\ Hosting!Init
  /\ part # "boxes" => image = TRUE /\ taken = {} /\ box = "none"
  /\ Scanning!Init
  /\ part # "scan" => pack = (CHOOSE p \in ScanPacks : TRUE)
  /\ Listing!Init
  /\ part # "people" => up = TRUE
  /\ Remembering!Init
  /\ Examining!Init
  /\ part # "exam" => world = (CHOOSE w \in Sick : TRUE)
  /\ Advising!Init
  /\ part # "advice" => server = (CHOOSE s \in Machines : TRUE)

SnapsStep ==
  /\ part = "snaps" /\ Undoing!Next
  /\ UNCHANGED <<part, assistVars, boxesVars, scanVars, peopleVars, historyVars, examVars,
                 adviceVars>>
AssistStep ==
  /\ part = "assist" /\ Helping!Next
  /\ UNCHANGED <<part, snapsVars, boxesVars, scanVars, peopleVars, historyVars, examVars,
                 adviceVars>>
BoxesStep ==
  /\ part = "boxes" /\ Hosting!Next
  /\ UNCHANGED <<part, snapsVars, assistVars, scanVars, peopleVars, historyVars, examVars,
                 adviceVars>>
ScanStep ==
  /\ part = "scan" /\ Scanning!Next
  /\ UNCHANGED <<part, snapsVars, assistVars, boxesVars, peopleVars, historyVars, examVars,
                 adviceVars>>
PeopleStep ==
  /\ part = "people" /\ Listing!Next
  /\ UNCHANGED <<part, snapsVars, assistVars, boxesVars, scanVars, historyVars, examVars,
                 adviceVars>>
HistoryStep ==
  /\ part = "history" /\ Remembering!Next
  /\ UNCHANGED <<part, snapsVars, assistVars, boxesVars, scanVars, peopleVars, examVars,
                 adviceVars>>
ExamStep ==
  /\ part = "exam" /\ Examining!Next
  /\ UNCHANGED <<part, snapsVars, assistVars, boxesVars, scanVars, peopleVars, historyVars,
                 adviceVars>>
AdviceStep ==
  /\ part = "advice" /\ Advising!Next
  /\ UNCHANGED <<part, snapsVars, assistVars, boxesVars, scanVars, peopleVars, historyVars,
                 examVars>>
PartsNext == SnapsStep \/ AssistStep \/ BoxesStep \/ ScanStep \/ PeopleStep \/ HistoryStep \/
             ExamStep \/ AdviceStep

PartsSpec == PartsInit /\ [][PartsNext]_allVars

(* Properties.                                                             *)

\* Every variable keeps its type.
PartsTyped ==
  /\ part = "snaps" => Undoing!TypeOK
  /\ part = "assist" => Helping!TypeOK
  /\ part = "boxes" => Hosting!TypeOK
  /\ part = "scan" => Scanning!TypeOK
  /\ part = "people" => Listing!TypeOK
  /\ part = "history" => Remembering!TypeOK
  /\ part = "exam" => Examining!TypeOK
  /\ part = "advice" => Advising!TypeOK

\* ModSnapshots, Assistant: what is changed can be taken back: a restore brings back what the snapshot
\* was of, every action of a model is told of, and a fix that nobody looked at only switches off.
ChangesCanBeUndone ==
  /\ part = "snaps" => Undoing!RestoreIsExact /\ Undoing!SnapshotIsBefore /\ Undoing!FileComesBack
  /\ part = "assist" => Helping!ActionsAreTold /\ Helping!FixCanBeUndone

\* Containers, Players: images are fetched once and starts end for a reason, exits are real and a console
\* is whole; what is said of a player is so, in the files and on the running server.
ServersAreRun ==
  /\ part = "boxes" => Hosting!OneFetch /\ Hosting!StartsAreFair /\ Hosting!ExitsAreReal /\ Hosting!StartMissesNothing
  /\ part = "people" => Listing!PromisesAreKept /\ Listing!EachIsTold /\ Listing!BothPlaces

\* ClientScan, Assistant, Diagnosis: a mod is called client-only, blamed, or said to be missing for a
\* cause.  Advice: what the model says is safe, counted as its own only where it moved something, and
\* kept for the server it was about.  History: each minute is kept, and counts once.
FindingsHold ==
  /\ part = "scan" => Scanning!FineModsKeepTheirs /\ Scanning!DecisionsRule /\ Scanning!RenderersGo /\ Scanning!HintsOnlyAsk
  /\ part = "assist" => Helping!CulpritsAreKept
  /\ part = "exam" => Examining!OfferedForCause /\ Examining!BlamedIsOffered /\ Examining!VersionsAreDeclared
                        /\ Examining!MissingIsMissing /\ Examining!OneCopyStays
  /\ part = "advice" => Advising!NumbersAreSafe /\ Advising!Credited /\ Advising!AdviceIsOfServer
  /\ part = "history" => Remembering!MinutesAreKept /\ Remembering!MinutesCountOnce

\* Diagnosis: "when the log could not be read", the answer does not call itself complete.
CleanBill == part = "exam" => Examining!CleanBillIsHonest
=============================================================================
