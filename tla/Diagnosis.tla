------------------------------ MODULE Diagnosis ------------------------------
(***************************************************************************)
(* Why a server misbehaves (app/diagnostics.py and the routes over it):    *)
(* `diagnose` looks at the settings, reads the log and the newest crash    *)
(* report, ranks the jars they point at and offers to switch some off;     *)
(* `deep_scan` reads every jar and checks what each needs.  The server     *)
(* boots, people change the folder, and calls fail in between.             *)
(*                                                                         *)
(* Of a text the model keeps what the patterns find in it: the jars it     *)
(* points at, each by a kind of line, and problems that name no jar.       *)
(***************************************************************************)
EXTENDS Integers, FiniteSets, FiniteSetsExt

CONSTANTS Jars,         \* as numbers: a smaller one comes first when they are sorted
          Worlds,       \* what can be true of the server and of its jars
          MaxExams,     \* bound: examinations
          MaxChanges,   \* bound: boots, and jars that are switched or deleted
          MaxTroubles   \* bound: calls that fail

VARIABLES world,        \* one of Worlds
          folder,       \* each jar: "on", "off" or "gone"
          log, crash,   \* the texts of the last boot, and the newest crash report
          exam,         \* the examination that is under way, or its report
          since,        \* what has been done since: fixes by name, or "person" and "boot"
          exams, changes, troubles

vars == <<world, folder, log, crash, exam, since, exams, changes, troubles>>

NoText == [there |-> FALSE, points |-> {}, says |-> {}]
\* What is found, about what (a mod, a jar; 0: the server), how bad it is, the jars that can be switched off.
Title(what, about) == <<what, about>>
Finding(title, severity, files) == [title |-> title, severity |-> severity, files |-> files]
NoExam == [kind |-> "none", pc |-> "idle", findings |-> {}, log |-> NoText, crash |-> NoText,
           seen |-> [j \in Jars |-> "gone"], read |-> {}, passes |-> {}, blind |-> FALSE]
PCs ==
  {"idle", "checks", "log", "crash", "log again", "crash again", "list", "debug", "jars", "graph", "done"}
Severity == [critical |-> 0, error |-> 1, warning |-> 2, info |-> 3]

TypeOK ==
  /\ world \in Worlds /\ folder \in [Jars -> {"on", "off", "gone"}]
  /\ \A t \in {log, crash, exam.log, exam.crash} : \A p \in t.points : p.jar \in Jars
  /\ exam.kind \in {"none", "diagnose", "deep"} /\ exam.pc \in PCs /\ exam.read \subseteq Jars
  /\ \A f \in exam.findings : f.severity \in DOMAIN Severity /\ f.files \subseteq Jars
  /\ exam.passes \subseteq {"checks", "logs", "crash"} /\ exam.blind \in BOOLEAN
  /\ exams \in 0..MaxExams /\ changes \in 0..MaxChanges /\ troubles \in 0..MaxTroubles

Init ==
  /\ world \in Worlds /\ folder = [j \in Jars |-> "on"]
  /\ log = NoText /\ crash = NoText /\ exam = NoExam /\ since = {}
  /\ exams = 0 /\ changes = 0 /\ troubles = 0

On == {j \in Jars : folder[j] = "on"}
Fact(f) == {j \in Jars : f \in world.facts[j]}
Works(ok) == IF ok THEN UNCHANGED troubles ELSE troubles < MaxTroubles /\ troubles' = troubles + 1

-----------------------------------------------------------------------------
(* The server and its people.                                              *)

\* A boot writes a new log, and dies with a crash report of what the jars that are on do to it.
Boots ==
  /\ changes < MaxChanges /\ changes' = changes + 1
  /\ LET points == {p \in world.points : p.jar \in On}
         text == [there |-> TRUE, points |-> points, says |-> world.says] IN
       log' = text /\ crash' = IF points = {} THEN crash ELSE text
  /\ since' = since \cup {Title("boot", 0)}
  /\ UNCHANGED <<world, folder, exam, exams, troubles>>

PersonChanges(j, to) ==
  /\ changes < MaxChanges /\ changes' = changes + 1
  /\ folder[j] # "gone" /\ folder[j] # to
  /\ folder' = [folder EXCEPT ![j] = to] /\ since' = since \cup {Title("person", 0)}
  /\ UNCHANGED <<world, log, crash, exam, exams, troubles>>

-----------------------------------------------------------------------------
(* diagnose: the settings.                                                 *)

Examines(kind) ==
  /\ exams < MaxExams /\ exams' = exams + 1 /\ exam.pc \in {"idle", "done"}
  /\ exam' = [NoExam EXCEPT !.kind = kind, !.pc = IF kind = "deep" THEN "list" ELSE "checks"]
  /\ since' = {}
  /\ UNCHANGED <<world, folder, log, crash, changes, troubles>>

\* _version_mismatch_findings: a name only picks the jars to ask about; the publishers' listings,
\* those that answer, decide.
Candidates == On \cap Fact("named")
Declared(silent) == (Candidates \cap Fact("listed")) \ (Fact("supports") \cup silent)
Unverified(silent) == Candidates \cap (silent \cup (Jars \ Fact("listed")))
OfVersions(silent) ==
  (IF Declared(silent) = {} THEN {} ELSE {Finding(Title("other version", 0), "error", Declared(silent))})
    \cup (IF Unverified(silent) = {} THEN {} ELSE {Finding(Title("unchecked", 0), "info", {})})

\* quick_check: each look that fails is passed over, but for the first, which is a finding itself.
OfServer(failed) == {f \in world.server : f.title[1] \notin failed}
ChecksServer(failed, silent) ==
  /\ exam.pc = "checks" /\ Works(failed = {} /\ silent = {})
  /\ exam' = [exam EXCEPT !.pc = "log", !.passes = @ \cup {"checks"},
       !.blind = @ \/ failed # {} \/ silent # {},
       !.findings = IF "root" \in failed THEN {Finding(Title("unreadable", 0), "critical", {})}
                    ELSE OfServer(failed) \cup (IF failed \cap {"mods", "manifest"} # {} THEN {}
                                              ELSE OfVersions(silent))]
  /\ UNCHANGED <<world, folder, log, crash, since, exams, changes>>

-----------------------------------------------------------------------------
(* diagnose: the log and the crash report, read once for their patterns    *)
(* and once more for the review of the crash.                              *)

\* A text that cannot be read is no text.
ReadsText(pc, next, name, text, ok) ==
  /\ exam.pc = pc /\ Works(ok)
  /\ exam' = [exam EXCEPT ![name] = IF ok THEN text ELSE NoText, !.blind = @ \/ ~ok, !.pc = next]
  /\ UNCHANGED <<world, folder, log, crash, since, exams, changes>>
ReadsLog(ok) == ReadsText("log", "crash", "log", log, ok)
LogAgain(ok) == ReadsText("log again", "crash again", "log", log, ok)
CrashAgain(ok) == ReadsText("crash again", "list", "crash", crash, ok)

\* What says the same is said once, at its worst.
Worst(some) ==
  {f \in some : \A g \in some : g.title = f.title => Severity[f.severity] <= Severity[g.severity]}
ReadsCrash(ok) ==
  /\ exam.pc = "crash" /\ Works(ok)
  /\ LET text == IF ok THEN crash ELSE NoText IN
       exam' = [exam EXCEPT !.crash = text, !.blind = @ \/ ~ok, !.passes = @ \cup {"logs"},
                  !.findings = Worst(@ \cup exam.log.says \cup text.says),
                  !.pc = IF text.there THEN "log again" ELSE "done"]
  /\ UNCHANGED <<world, folder, log, crash, since, exams, changes>>

\* The jars, on or off; without them no name leads to a jar.
ListsMods(ok) ==
  /\ exam.kind = "diagnose" /\ exam.pc = "list" /\ Works(ok)
  /\ exam' = [exam EXCEPT !.seen = IF ok THEN folder ELSE @, !.blind = @ \/ ~ok, !.pc = "debug"]
  /\ UNCHANGED <<world, folder, log, crash, since, exams, changes>>

\* A line that names a jar leads to that jar; one that names a mod, to the jar of it, or else to one
\* whose name holds the name of the mod.
ById == {"suspected", "mixin", "cast"}
Resolved(p) ==
  LET there == {j \in Jars : exam.seen[j] # "gone"} IN
    IF p.jar \in there THEN {p.jar} ELSE IF p.kind \in ById THEN there \cap world.alike[p.jar] ELSE {}

Score(kind) ==
  CASE kind \in {"blamed", "lacks"} -> 100 [] kind = "suspected" -> 90 [] kind = "mixin" -> 80
    [] kind \in {"client", "cast", "trail"} -> 75 [] kind = "environment" -> 70 [] kind = "java" -> 60
    [] OTHER -> 40
\* A mixin is only found out by the trail in debug.log.
Pointers(debug) == {p \in exam.crash.points \cup exam.log.points : p.kind = "trail" => debug}
Kinds(j, debug) == {p.kind : p \in {q \in Pointers(debug) : j \in Resolved(q)}}
Best(j, debug) == Max({Score(k) : k \in Kinds(j, debug)})
Culprits(debug) == {j \in Jars : exam.seen[j] = "on" /\ Kinds(j, debug) # {}}
\* Of the first four (the model has no more).  Not offered: what is named by a few frames, or by a Java that is too old, or lacks a library.
Confident(debug) ==
  {j \in Culprits(debug) : Best(j, debug) >= 70 /\ "lacks" \notin Kinds(j, debug)}

ReviewsCrash(debug) ==
  /\ exam.pc = "debug" /\ Works(debug)
  /\ exam' = [exam EXCEPT !.pc = "done", !.passes = @ \cup {"crash"}, !.blind = @ \/ ~debug,
       !.findings = @ \cup IF Culprits(debug) = {} THEN {}
                           ELSE {Finding(Title("crash", 0), "critical", Confident(debug))}]
  /\ UNCHANGED <<world, folder, log, crash, since, exams, changes>>

\* Every pass that was begun has come back: the answer calls itself complete.
Complete == {"checks", "logs"} \subseteq exam.passes /\ (exam.crash.there => "crash" \in exam.passes)

-----------------------------------------------------------------------------
(* deep_scan.                                                              *)

ScanLists(ok) ==
  /\ exam.kind = "deep" /\ exam.pc = "list" /\ Works(ok)
  /\ exam' = IF ok THEN [exam EXCEPT !.seen = folder, !.pc = IF On = {} THEN "done" ELSE "jars"]
                   ELSE [NoExam EXCEPT !.blind = TRUE]
  /\ UNCHANGED <<world, folder, log, crash, since, exams, changes>>
Listed == {j \in Jars : exam.seen[j] = "on"}
\* Four at a time; a jar that cannot be fetched, or parsed, has no metadata.
ScanReads(lost) ==
  /\ exam.pc = "jars" /\ lost \subseteq Listed /\ Works(lost = {})
  /\ exam' = [exam EXCEPT !.read = (Listed \cap On) \ (lost \cup Fact("broken")), !.pc = "graph"]
  /\ UNCHANGED <<world, folder, log, crash, since, exams, changes>>

CopiesOf(i) == {j \in exam.read : world.id[j] = i}
Given == {world.id[j] : j \in exam.read} \cup UNION {world.gives[j] : j \in exam.read}
Ids == {world.id[j] : j \in Jars} \cup UNION {world.needs[j] : j \in Jars}
Extra(i) == CopiesOf(i) \ {Min(CopiesOf(i))}
OfGraph(manifest) ==
  LET Some(title, severity, files) == IF files = {} THEN {} ELSE {Finding(title, severity, files)} IN
    {Finding(Title("duplicate", i), "critical", Extra(i)) : i \in {k \in Ids : Cardinality(CopiesOf(k)) > 1}}
      \cup {Finding(Title("missing", i), "critical", {}) :
               i \in UNION {world.needs[j] : j \in exam.read} \ Given}
      \cup {Finding(Title("client", j), "error", {j}) : j \in exam.read \cap Fact("client")}
      \cup Some(Title("misfits", 0), "error", IF manifest THEN exam.read \cap Fact("misfit") ELSE {})
      \cup (IF Listed = exam.read THEN {} ELSE {Finding(Title("unreadable", 0), "warning", {})})
ScanEnds(manifest) ==
  /\ exam.pc = "graph" /\ Works(manifest)
  /\ exam' = [exam EXCEPT !.pc = "done", !.findings = OfGraph(manifest)]
  /\ UNCHANGED <<world, folder, log, crash, since, exams, changes>>

-----------------------------------------------------------------------------

\* What a finding offers: its jars are switched off, one after the other, those that are still on; the
\* first that cannot be ends it.
Fixes(f, done) ==
  /\ exam.pc = "done" /\ f \in exam.findings /\ f.title[1] # "other version"
  /\ f.files \cap On # {} /\ done \subseteq f.files \cap On /\ Works(done = f.files \cap On)
  /\ folder' = [j \in Jars |-> IF j \in done THEN "off" ELSE folder[j]]
  /\ since' = since \cup {f.title}
  /\ UNCHANGED <<world, log, crash, exam, exams, changes>>
\* suggest_compatible_versions: a build of each for this version, where the mod is known and has one;
\* the person takes one, in place of the jar.
Suggested(f, silent) == {j \in f.files : "listed" \in world.facts[j] /\ "built" \in world.facts[j]} \ silent
FixesVersion(f, j, silent) ==
  /\ exam.pc = "done" /\ f \in exam.findings /\ f.title[1] = "other version"
  /\ Works(silent = {}) /\ j \in Suggested(f, silent) \cap On
  /\ folder' = [folder EXCEPT ![j] = "gone"]
  /\ since' = since \cup {f.title}
  /\ UNCHANGED <<world, log, crash, exam, exams, changes>>

Next ==
  \/ Boots \/ (\E j \in Jars, to \in {"on", "off", "gone"} : PersonChanges(j, to))
  \/ (\E kind \in {"diagnose", "deep"} : Examines(kind))
  \/ \E failed \in {{}, {"root"}, {"mods"}, {"manifest"}, {"eula"}}, silent \in SUBSET Jars :
       ChecksServer(failed, silent)
  \/ \E ok \in BOOLEAN :
       \/ ReadsLog(ok) \/ ReadsCrash(ok) \/ LogAgain(ok) \/ CrashAgain(ok) \/ ListsMods(ok)
       \/ ReviewsCrash(ok) \/ ScanLists(ok) \/ ScanEnds(ok)
  \/ \E some \in SUBSET Jars : ScanReads(some) \/ (\E f \in exam.findings : Fixes(f, some))
  \/ \E f \in exam.findings, j \in Jars, silent \in SUBSET Jars : FixesVersion(f, j, silent)

Spec == Init /\ [][Next]_vars

-----------------------------------------------------------------------------
(* Properties.                                                             *)

Reported(kind) == exam.kind = kind /\ exam.pc = "done"

\* diagnose: a jar is offered to be switched off only when a line that names it says more than that it was
\* in the stack, that Java is too old for it ("disabling the mod would be exactly the wrong fix") or that
\* it lacks a library ("disabling it would throw away a working mod").
OfferedForCause ==
  Reported("diagnose") /\ since \subseteq {Title("crash", 0)} =>
    \A f \in exam.findings : f.title[1] = "crash" => \A j \in f.files :
      \E p \in exam.crash.points \cup exam.log.points :
        /\ p.kind \notin {"frames", "java", "lacks"}
        /\ j = p.jar \/ (exam.seen[p.jar] = "gone" /\ j \in world.alike[p.jar])

\* diagnose: when nothing failed or changed, the jar that the loader itself blames is offered.
BlamedIsOffered ==
  Reported("diagnose") /\ since = {} /\ ~exam.blind =>
    \A p \in exam.crash.points : p.kind = "blamed" /\ folder[p.jar] = "on" =>
      \E f \in exam.findings : f.title[1] = "crash" /\ p.jar \in f.files

\* quick_check: "nothing is reported until the claim has been checked against what the mod's own publisher
\* says the file supports".
VersionsAreDeclared ==
  \A f \in exam.findings : f.title[1] = "other version" =>
    \A j \in f.files : "listed" \in world.facts[j] /\ "supports" \notin world.facts[j]

\* deep_scan: "a working pack" does not turn "into a wall of missing dependency": what is reported as missing
\* is declared, provided or bundled by no jar that could be read, and what is missing is reported.
MissingIsMissing ==
  Reported("deep") => \A i \in Ids :
    Finding(Title("missing", i), "critical", {}) \in exam.findings <=>
      /\ \E j \in exam.read : i \in world.needs[j]
      /\ \A j \in exam.read : i # world.id[j] /\ i \notin world.gives[j]

\* deep_scan: when people only follow what it offers about duplicates, one copy of each mod stays on.
OneCopyStays ==
  Reported("deep") /\ since \subseteq {Title("duplicate", i) : i \in Ids} =>
    \A j \in exam.read : \E k \in On : world.id[k] = world.id[j]

\* diagnose: "when the log could not be read" is "a different claim from" nothing being wrong, so every pass
\* "now reports whether it ran".
CleanBillIsHonest ==
  Reported("diagnose") /\ since = {} /\ log.there /\ ~exam.log.there => ~Complete
=============================================================================
