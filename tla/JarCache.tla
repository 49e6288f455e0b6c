------------------------------- MODULE JarCache -------------------------------
(***************************************************************************)
(* The download cache that every install and every review of the worker    *)
(* shares: pack archives, streamed to a ".part" beside their place and     *)
(* renamed (curseforge.py, download_to), jars, written in one go           *)
(* (cache_jar), the packing of both into what is uploaded (installer.py,   *)
(* _push_batches), and the pruning of the oldest files (app/cache.py).     *)
(*                                                                         *)
(* Installs take turns in one process, at each await.  A file is an inode with *)
(* the chunks that were written to it: a name can move to another inode    *)
(* under somebody who still writes or reads the old one.                   *)
(***************************************************************************)
EXTENDS Integers, FiniteSets, Sequences, SequencesExt

CONSTANTS Packs, Jars,  \* files by their place in the cache
          Wants,        \* what each job needs, in order
          Inodes,       \* bound: files on the disk at a time
          Chunks,       \* a file is this many chunks; the last is below 1024 bytes
          Limit,        \* MAX_CACHE_GB, in chunks; 0: no limit
          Attempts,     \* times a download is tried
          MaxPrunes,    \* bound: prunes that an administrator asks for
          MaxTroubles   \* bound: downloads that fail and workers that die

VARIABLES name,         \* the inode at the place of each file, or 0
          part,         \* the inode at <name>.part of each archive, or 0
          content,      \* chunks in each inode
          order,        \* inodes, the one written longest ago first
          job,
          shared,       \* archives that two jobs have downloaded at once
          torn,         \* jars that a worker died in writing
          prunes, troubles

vars == <<name, part, content, order, job, shared, torn, prunes, troubles>>

Archives == Packs \cup Jars
Installs == DOMAIN Wants
Whole == 1..Chunks
Size(i) == IF content[i] = {} THEN 0 ELSE CHOOSE n \in content[i] : \A m \in content[i] : m <= n
NewJob == [pc |-> "idle", at |-> 0, ino |-> 0, tries |-> 0, got |-> <<>>, up |-> <<>>,
           alone |-> TRUE, cause |-> FALSE]
PCs == {"idle", "look", "load", "write", "open", "stream", "close", "unzip", "build", "end",
        "done", "failed", "dead"}
Under(j) == job[j].pc \notin {"idle", "done", "failed", "dead"}
Wanted(j) == Wants[j][Len(job[j].got) + 1]

TypeOK ==
  /\ name \in [Archives -> Inodes \cup {0}] /\ part \in [Packs -> Inodes \cup {0}]
  /\ content \in [Inodes -> SUBSET Whole]
  /\ IsInjective(order) /\ Range(order) \subseteq Inodes
  /\ \A j \in Installs :
       /\ job[j].pc \in PCs /\ job[j].at \in 0..Chunks /\ job[j].ino \in Inodes \cup {0}
       /\ job[j].tries \in 0..Attempts /\ Len(job[j].got) <= Len(Wants[j])
       /\ Under(j) /\ Len(job[j].got) = Len(Wants[j]) => job[j].pc \in {"build", "end"}
  /\ shared \subseteq Packs /\ torn \subseteq Jars
  /\ prunes \in 0..MaxPrunes /\ troubles \in 0..MaxTroubles

Init ==
  /\ name = [f \in Archives |-> 0] /\ part = [f \in Packs |-> 0]
  /\ content = [i \in Inodes |-> {}] /\ order = <<>>
  /\ job = [j \in Installs |-> NewJob]
  /\ shared = {} /\ torn = {} /\ prunes = 0 /\ troubles = 0

Trouble == troubles < MaxTroubles /\ troubles' = troubles + 1

\* Somebody has it: a name, or a job that reads or writes it.
Held(i) == \/ \E f \in Archives : name[f] = i
           \/ \E f \in Packs : part[f] = i
           \/ \E j \in Installs : Under(j) /\ (job[j].ino = i \/ i \in Range(job[j].got))
Unused == CHOOSE i \in Inodes : ~Held(i) /\ \A k \in Inodes : ~Held(k) => i <= k
Youngest(i) == Append(SelectSeq(order, LAMBDA k : k # i), i)
Gets(j, i) == [job EXCEPT ![j].got = Append(@, i), ![j].ino = 0, ![j].at = 0, ![j].tries = 0,
                          ![j].pc = IF Len(job[j].got) + 1 = Len(Wants[j]) THEN "build" ELSE "look"]
Passes(f) == name[f] # 0 /\ Size(name[f]) >= Chunks - 1

\* A job that overlaps with another one is not alone.
Starts(j) ==
  /\ job[j].pc = "idle"
  /\ LET others == {k \in Installs : Under(k)}
     IN  job' = [k \in Installs |->
                   IF k = j THEN [NewJob EXCEPT !.pc = "look", !.alone = (others = {})]
                   ELSE IF k \in others THEN [job[k] EXCEPT !.alone = FALSE] ELSE job[k]]
  /\ UNCHANGED <<name, part, content, order, shared, torn, prunes, troubles>>

\* The copy in the cache is used if its size is right, give or take 1023 bytes.  Of a jar the
\* job keeps the path, an archive it opens.
Looks(j) ==
  /\ job[j].pc = "look"
  /\ LET f == Wanted(j)
     IN  IF Passes(f) THEN job' = Gets(j, IF f \in Packs THEN name[f] ELSE 0)
         ELSE job' = [job EXCEPT ![j].pc = IF f \in Packs THEN "open" ELSE "load"]
  /\ UNCHANGED <<name, part, content, order, shared, torn, prunes, troubles>>

-----------------------------------------------------------------------------
(* A jar: download into memory, then write_bytes.                          *)

Loads(j, ok) ==
  /\ job[j].pc = "load"
  /\ IF ok THEN UNCHANGED troubles ELSE Trouble
  /\ job' = IF ok THEN [job EXCEPT ![j].pc = "write"]
            ELSE [job EXCEPT ![j].pc = "failed", ![j].cause = TRUE]
  /\ UNCHANGED <<name, part, content, order, shared, torn, prunes>>

\* What is at its place is written over, not replaced.
PutJar(f, chunks) ==
  LET i == IF name[f] # 0 THEN name[f] ELSE Unused
  IN  /\ name' = [name EXCEPT ![f] = i]
      /\ content' = [content EXCEPT ![i] = chunks]
      /\ order' = Youngest(i)

WritesJar(j) ==
  /\ job[j].pc = "write"
  /\ PutJar(Wanted(j), Whole)
  /\ job' = Gets(j, 0)
  /\ UNCHANGED <<part, shared, torn, prunes, troubles>>

-----------------------------------------------------------------------------
(* An archive: download_to.                                                *)

\* open(tmp, "wb"): another download of it writes to the same file, from where it is.
Opens(j) ==
  /\ job[j].pc = "open"
  /\ LET f == Wanted(j)
         i == IF part[f] # 0 THEN part[f] ELSE Unused
     IN  /\ part' = [part EXCEPT ![f] = i]
         /\ content' = [content EXCEPT ![i] = {}]
         /\ order' = Youngest(i)
         /\ job' = [job EXCEPT ![j].pc = "stream", ![j].ino = i, ![j].at = 0]
         /\ shared' = IF \E k \in Installs \ {j} : job[k].pc \in {"open", "stream", "close"} /\ Wanted(k) = f
                      THEN shared \cup {f} ELSE shared
  /\ UNCHANGED <<name, torn, prunes, troubles>>

WritesChunk(j) ==
  /\ job[j].pc = "stream"
  /\ LET at == job[j].at + 1
     IN  /\ content' = [content EXCEPT ![job[j].ino] = @ \cup {at}]
         /\ order' = IF job[j].ino \in Range(order) THEN Youngest(job[j].ino) ELSE order
         /\ job' = [job EXCEPT ![j].at = at, ![j].pc = IF at = Chunks THEN "close" ELSE "stream"]
  /\ UNCHANGED <<name, part, shared, torn, prunes, troubles>>

\* The attempt failed: unlink() takes whatever is at .part by now.
Again(j) ==
  LET f == Wanted(j)
  IN  /\ part' = [part EXCEPT ![f] = 0]
      /\ order' = SelectSeq(order, LAMBDA k : k # part[f])
      /\ job' = IF job[j].tries + 1 = Attempts
                THEN [job EXCEPT ![j].pc = "failed", ![j].ino = 0, ![j].cause = TRUE]
                ELSE [job EXCEPT ![j].pc = "open", ![j].ino = 0, ![j].tries = @ + 1]
      /\ UNCHANGED <<name, content, shared, torn, prunes>>
Breaks(j) == job[j].pc \in {"open", "stream"} /\ Trouble /\ Again(j)

\* tmp.replace(dest).
Replaces(j) ==
  /\ job[j].pc = "close"
  /\ LET f == Wanted(j)
     IN  IF part[f] = 0 THEN Again(j)
         ELSE /\ name' = [name EXCEPT ![f] = part[f]]
              /\ part' = [part EXCEPT ![f] = 0]
              /\ order' = SelectSeq(order, LAMBDA k : k = part[f] \/ k # name[f])
              /\ job' = [job EXCEPT ![j].pc = "unzip", ![j].ino = 0]
              /\ UNCHANGED <<content, shared, torn, prunes>>
  /\ UNCHANGED troubles

\* zipfile.ZipFile(path): the list of its members is at the end.
Unzips(j) ==
  /\ job[j].pc = "unzip"
  /\ LET i == name[Wanted(j)]
     IN  job' = IF i # 0 /\ Chunks \in content[i] THEN Gets(j, i)
                ELSE [job EXCEPT ![j].pc = "failed"]
  /\ UNCHANGED <<name, part, content, order, shared, torn, prunes, troubles>>

-----------------------------------------------------------------------------
(* _push_batches and prune.                                                *)

\* Members of the archive are read from the open file, jars by their paths.
Read(j, n) ==
  LET f == Wants[j][n]
  IN  IF f \in Packs THEN content[job[j].got[n]]
      ELSE IF name[f] = 0 THEN {} ELSE content[name[f]]
Builds(j) ==
  /\ job[j].pc = "build"
  /\ LET files == [n \in DOMAIN Wants[j] |-> Read(j, n)]
         bad == \E n \in DOMAIN files : files[n] = {} \/ (Wants[j][n] \in Packs /\ files[n] # Whole)
     IN  job' = IF bad THEN [job EXCEPT ![j].pc = "failed"]
                ELSE [job EXCEPT ![j].pc = "end", ![j].up = files]
  /\ UNCHANGED <<name, part, content, order, shared, torn, prunes, troubles>>

Sum(s) == FoldLeft(LAMBDA n, i : n + Size(i), 0, s)
\* How many of the oldest have to go.
Excess == CHOOSE n \in 0..Len(order) :
            /\ Sum(SubSeq(order, n + 1, Len(order))) <= Limit
            /\ \A m \in 0..(n - 1) : Sum(SubSeq(order, m + 1, Len(order))) > Limit
Prune ==
  LET go == IF Limit = 0 THEN {} ELSE Range(SubSeq(order, 1, Excess))
      Kept(names) == [f \in DOMAIN names |-> IF names[f] \in go THEN 0 ELSE names[f]]
  IN  /\ name' = Kept(name) /\ part' = Kept(part)
      /\ order' = SelectSeq(order, LAMBDA k : k \notin go)

Ends(j) ==
  /\ job[j].pc = "end"
  /\ Prune
  /\ job' = [job EXCEPT ![j].pc = "done", ![j].got = <<>>]
  /\ UNCHANGED <<content, shared, torn, prunes, troubles>>

AdminPrunes ==
  /\ prunes < MaxPrunes /\ prunes' = prunes + 1
  /\ Prune
  /\ job' = [j \in Installs |-> IF Under(j) THEN [job[j] EXCEPT !.alone = FALSE] ELSE job[j]]
  /\ UNCHANGED <<content, shared, torn, troubles>>

\* The worker is killed: of a jar it was writing there is a piece, and nothing is cleared away.
Dies ==
  /\ Trouble /\ \E j \in Installs : Under(j)
  /\ job' = [j \in Installs |-> IF Under(j) THEN [NewJob EXCEPT !.pc = "dead"] ELSE job[j]]
  /\ \/ UNCHANGED <<name, content, order, torn>>
     \/ \E j \in Installs, n \in 0..(Chunks - 1) :
          /\ job[j].pc = "write" /\ PutJar(Wanted(j), 1..n)
          /\ torn' = torn \cup {Wanted(j)}
  /\ UNCHANGED <<part, shared, prunes>>

-----------------------------------------------------------------------------

Next ==
  \/ \E j \in Installs :
       \/ Starts(j) \/ Looks(j) \/ Loads(j, TRUE) \/ Loads(j, FALSE) \/ WritesJar(j)
       \/ Opens(j) \/ WritesChunk(j) \/ Breaks(j) \/ Replaces(j) \/ Unzips(j)
       \/ Builds(j) \/ Ends(j)
  \/ AdminPrunes \/ Dies

Spec == Init /\ [][Next]_vars

-----------------------------------------------------------------------------
(* Properties.                                                             *)

\* What an install has uploaded is whole; a jar that a worker died in writing may lack the last
\* 1023 bytes, which the look at its size lets pass.
UploadsAreWhole ==
  \A j \in Installs : \A n \in DOMAIN job[j].up :
    job[j].up[n] = Whole \/ (Wants[j][n] \in torn /\ job[j].up[n] = 1..(Chunks - 1))

\* download_to, "an interrupted download can never be mistaken for a cached archive": what is at
\* the place of an archive that only one job at a time has downloaded is whole.
OneAtATimeIsWhole == \A f \in Packs : name[f] # 0 => f \in shared \/ content[name[f]] = Whole

\* A job that was alone, and whose downloads worked, does not fail on what earlier jobs, or
\* workers that died, have left behind.
AloneSucceeds ==
  \A j \in Installs :
    job[j].pc = "failed" /\ job[j].alone /\ Range(Wants[j]) \cap shared = {} => job[j].cause

\* The same as OneAtATimeIsWhole, for archives that several installs want at once.
NeverMistaken ==
  \A f \in Packs :
    Passes(f) /\ (\A j \in Installs : job[j].pc \in {"stream", "close"} => job[j].ino # name[f]) =>
      content[name[f]] = Whole
=============================================================================
