---------------------------- MODULE CompileProofs ----------------------------
(***************************************************************************)
(* For any files, commands and number of compiles, under any interleaving, *)
(* failures and kills: the scan cache is sound (a .deps that is fresh      *)
(* vouches for a .out that is what a scan would find now), and the         *)
(* directory a compile's expression names holds its own sources.           *)
(*                                                                         *)
(* The hypothesis NoNewHeaders is needed: no line of .deps stands for a    *)
(* place where a header was looked for in vain.  So is DistinctTus for the *)
(* sources: where two outputs share a tu-id they share the directory.      *)
(*                                                                         *)
(* The cache, IInv.  CacheSound is not inductive.  An edit must not make a *)
(* stale .deps fresh (TimesOK: no recorded time lies in the future) and    *)
(* must make a fresh one stale whenever it changes the scan (CoversScan:   *)
(* .deps names what the scan found; SourceRecorded: of a source that is    *)
(* gone and comes back too); and a compile that is about to write .deps    *)
(* must know that .out is its own result or an equal one (WritersOK).      *)
(*                                                                         *)
(* The types, TypeInv.  A compile takes the times of what its scan found   *)
(* and links it, so it must still hold a result then (ResultHeld) and the  *)
(* files must still be there (FilesThere).                                 *)
(*                                                                         *)
(* The sources, StageInv on top of both.  What a compile has staged so far *)
(* is a part of what its scan found, under names of its own, and the rest  *)
(* is on its list (StagingOK); no other compile is at work on the same     *)
(* output, hence directory (OneEach); and what was complete when its       *)
(* compile ended stays so until an edit (SettledOK).                       *)
(***************************************************************************)
EXTENDS Compile, SequenceTheorems, Induction, TLAPS

-----------------------------------------------------------------------------
\* Commands that share a key scan alike.
LEMMA SameKeySameScan ==
    ASSUME NEW o \in Outs, NEW q \in Outs, Key[o] = Key[q]
    PROVE  /\ Source[o] = Source[q]
           /\ HeadersOf(o) = HeadersOf(q)
           /\ ScanOf(o) = ScanOf(q)
           /\ Needed(o, ScanOf(o)) = Needed(q, ScanOf(q))
<1>1. Source[o] = Source[q] /\ Cwd[o] = Cwd[q]
      /\ IncDirs[o] = IncDirs[q] /\ Lookups[o] = Lookups[q]
  BY KeyAssumption
<1>2. HeadersOf(o) = HeadersOf(q)
  BY <1>1 DEF HeadersOf
<1>3. RootOf(o, HeadersOf(o)) = RootOf(q, HeadersOf(q))
  BY <1>1, <1>2 DEF RootOf
<1>4. QED
  BY <1>1, <1>2, <1>3 DEF ScanOf, Needed

\* What a scan reads of the tree is whether files exist and what the source
\* holds: where neither changes, the result does not.
LEMMA SameTreeSameScan ==
    ASSUME UNCHANGED <<file, data>>, NEW o
    PROVE  ScanOf(o)' = ScanOf(o)
  BY DEF ScanOf, HeadersOf, Exists

\* The same for all that is asked of the tree.
LEMMA TreeUnchanged ==
    ASSUME UNCHANGED treeVars
    PROVE  /\ \A o : ScanOf(o)' = ScanOf(o)
           /\ \A f : Exists(f)' = Exists(f)
           /\ \A d : Fresh(d)' = Fresh(d)
           /\ \A S : Times(S)' = Times(S)
  BY SameTreeSameScan DEF treeVars, Exists, Fresh, Times

-----------------------------------------------------------------------------
\* What all edits of f have in common: no other file changes, if f is there after
\* its time is new, and if it was not before then nobody looks for it.
EditOf(f) ==
    /\ Exists(f) \/ Unsought(f)
    /\ Quiet(f) /\ clock' = clock + 1
    /\ file' \in [Files -> Inodes \cup {NoInode}]
    /\ data' \in [Inodes -> Contents]
    /\ mtime' \in [Inodes -> Nat]
    /\ \A g \in Files \ {f} :
           /\ file'[g] = file[g]
           /\ Exists(g) => /\ data'[file[g]] = data[file[g]]
                           /\ mtime'[file[g]] = mtime[file[g]]
                           /\ file'[f] # file[g]
    /\ file'[f] # NoInode => mtime'[file'[f]] = clock + 1
    /\ \A i \in Inodes : mtime'[i] <= clock + 1
    /\ UNCHANGED <<scanOut, scanDeps, pc, job, result, deps>>

\* What an editor does is an edit.
LEMMA Edits ==
    ASSUME NoNewHeaders, IInv, NEW f \in Files,
           EditInPlace(f) \/ EditByRename(f) \/ CreateFile(f) \/ DeleteFile(f)
    PROVE  EditOf(f)
<1> USE DEF IInv, CacheTypeOK, TreeInjective, TimesOK, Exists, NoInode
<1>1. /\ Exists(f) \/ Unsought(f)
      /\ Quiet(f) /\ clock' = clock + 1
      /\ UNCHANGED <<scanOut, scanDeps, pc, job, result, deps>>
  BY DEF EditInPlace, EditByRename, CreateFile, DeleteFile, Touch, NoNewHeaders,
         cacheVars, procVars
<1>2. Versions[f] \subseteq Contents
  BY UnpackedAssumption
<1>3. CASE EditInPlace(f)
  <2>1. PICK c \in Contents : data' = [data EXCEPT ![file[f]] = c]
    BY <1>2, <1>3 DEF EditInPlace
  <2>2. /\ mtime' = [mtime EXCEPT ![file[f]] = clock + 1] /\ file' = file
        /\ Exists(f)
    BY <1>1, <1>3 DEF EditInPlace
  <2>3. QED
    BY <1>1, <2>1, <2>2 DEF EditOf
<1>4. CASE EditByRename(f) \/ CreateFile(f)
  <2>1. PICK c \in Contents, i \in Free :
            /\ file' = [file EXCEPT ![f] = i]
            /\ data' = [data EXCEPT ![i] = c]
            /\ mtime' = [mtime EXCEPT ![i] = clock + 1]
    BY <1>1, <1>2, <1>4 DEF EditByRename, CreateFile, PutNew
  <2>2. i \in Inodes /\ \A g \in Files : file[g] # i
    BY DEF Free
  <2>3. QED
    BY <1>1, <2>1, <2>2 DEF EditOf
<1>5. CASE DeleteFile(f)
  BY <1>1, <1>5 DEF EditOf, DeleteFile
<1>6. QED
  BY <1>3, <1>4, <1>5

\* An edit of a file a scan did not find leaves the scan as it is: what exists
\* is found or hidden by the same files as before.
LEMMA UnneededEdit ==
    ASSUME IInv, NEW f \in Files, EditOf(f),
           NEW o \in Outs, Exists(Source[o]), f \notin Needed(o, ScanOf(o))
    PROVE  /\ ScanOf(o)' = ScanOf(o)
           /\ Exists(Source[o])'
           /\ Times(Needed(o, ScanOf(o)))' = Times(Needed(o, ScanOf(o)))
<1>1. Source[o] \in Files /\ Source[o] # f /\ f \notin HeadersOf(o)
  BY CommandsAssumption DEF Needed, ScanOf
<1>2. /\ file'[Source[o]] = file[Source[o]]
      /\ data'[file'[Source[o]]] = data[file[Source[o]]]
      /\ data[file[Source[o]]] \in Contents
  BY <1>1 DEF EditOf, Exists, IInv, CacheTypeOK
<1>3. \A g \in Files \ {f} : Exists(g)' <=> Exists(g)
  BY DEF EditOf, Exists
<1>4. \A l \in Lookups[o][data[file[Source[o]]]] : \A i \in DOMAIN l :
          l[i] = f => Exists(f)
  BY <1>2 DEF EditOf, Unsought
<1>5. \A l \in Lookups[o][data[file[Source[o]]]] :
          l \in Seq(Files) /\ IsInjective(l)
  BY <1>2, CommandsAssumption
<1>6. ASSUME NEW l \in Lookups[o][data[file[Source[o]]]], NEW i \in DOMAIN l
      PROVE  (Exists(l[i]) /\ \A j \in 1..(i - 1) : ~Exists(l[j]))
                 <=> (Exists(l[i])' /\ \A j \in 1..(i - 1) : ~Exists(l[j])')
  <2>1. DOMAIN l = 1..Len(l) /\ Len(l) \in Nat /\ \A j \in DOMAIN l : l[j] \in Files
    BY <1>5
  <2>2. \A j \in 1..(i - 1) : j \in DOMAIN l /\ l[j] \in Files
    BY <2>1
  <2>3. \A j, k \in DOMAIN l : l[j] = l[k] => j = k
    BY <1>5 DEF IsInjective
  <2>4. \A j \in DOMAIN l :
            l[j] = f => ~(Exists(l[j]) /\ \A k \in 1..(j - 1) : ~Exists(l[k]))
    BY <1>1 DEF HeadersOf
  <2>5. ASSUME Exists(l[i]), \A j \in 1..(i - 1) : ~Exists(l[j])
        PROVE  Exists(l[i])' /\ \A j \in 1..(i - 1) : ~Exists(l[j])'
    BY <2>1, <2>2, <2>4, <2>5, <1>3, <1>4
  <2>6. ASSUME Exists(l[i])', \A j \in 1..(i - 1) : ~Exists(l[j])'
        PROVE  Exists(l[i]) /\ \A j \in 1..(i - 1) : ~Exists(l[j])
    <3>1. ASSUME NEW j \in 1..i, l[j] = f PROVE FALSE
      <4>1. j \in DOMAIN l /\ \A k \in 1..(j - 1) : k \in 1..(i - 1) /\ k \in DOMAIN l /\ k # j
        BY <2>1
      <4>2. \A k \in 1..(j - 1) : l[k] \in Files \ {f}
        BY <4>1, <2>1, <2>3, <3>1
      <4>3. \A k \in 1..(j - 1) : ~Exists(l[k])
        BY <4>1, <4>2, <1>3, <2>6
      <4>4. QED
        BY <4>1, <4>3, <2>4, <1>4, <3>1
    <3>2. i \in 1..i /\ \A j \in 1..(i - 1) : j \in 1..i
      BY <2>1
    <3>3. l[i] \in Files \ {f} /\ \A j \in 1..(i - 1) : l[j] \in Files \ {f}
      BY <3>1, <3>2, <2>1, <2>2
    <3>4. QED
      BY <3>3, <1>3, <2>6
  <2>7. QED
    BY <2>5, <2>6
<1>7. HeadersOf(o)' = HeadersOf(o)
  BY <1>2, <1>6 DEF HeadersOf
<1>8. ScanOf(o)' = ScanOf(o)
  BY <1>7 DEF ScanOf, RootOf
<1>9. Exists(Source[o])'
  BY <1>1, <1>3
<1>10. \A g \in Needed(o, ScanOf(o)) : g \in Files \ {f} /\ Exists(g)
  BY <1>1 DEF Needed, ScanOf, HeadersOf
<1>11. \A g \in Needed(o, ScanOf(o)) : mtime'[file'[g]] = mtime[file[g]]
  BY <1>10 DEF EditOf
<1>12. QED
  BY <1>8, <1>9, <1>11 DEF Times

\* A .deps that is fresh after an edit was fresh before and is not about the
\* edited file: its new time is later than all that are recorded.
LEMMA FreshAfterEdit ==
    ASSUME IInv, NEW f \in Files, EditOf(f), NEW k \in Keys
    PROVE  /\ Fresh(scanDeps[k])' => Fresh(scanDeps[k]) /\ f \notin DOMAIN scanDeps[k]
           /\ Fresh(scanDeps[k]) /\ f \notin DOMAIN scanDeps[k] => Fresh(scanDeps[k])'
<1>1. scanDeps' = scanDeps /\ DOMAIN scanDeps[k] \subseteq Files
  BY DEF EditOf, IInv, CacheTypeOK, IsDeps
<1>2. \A g \in DOMAIN scanDeps[k] : scanDeps[k][g] \in Nat /\ scanDeps[k][g] <= clock
  BY DEF IInv, CacheTypeOK, TimesOK, IsDeps
<1>3. clock \in Nat
  BY DEF IInv, CacheTypeOK
<1>4. \A g \in Files \ {f} :
          (Exists(g)' /\ mtime'[file'[g]] = scanDeps[k][g])
              <=> (Exists(g) /\ mtime[file[g]] = scanDeps[k][g])
  BY DEF EditOf, Exists
<1>5. f \in DOMAIN scanDeps[k]
          => ~(Exists(f)' /\ mtime'[file'[f]] = scanDeps[k][f])
  BY <1>2, <1>3 DEF EditOf, Exists
<1>6. QED
  BY <1>1, <1>4, <1>5 DEF Fresh

\* An edit keeps the invariant: entries about the edited file are stale now, the
\* others, and the running compiles, never looked at it.
LEMMA EditStep ==
    ASSUME IInv, NEW f \in Files, EditOf(f)
    PROVE  IInv'
<1>1. /\ UNCHANGED <<scanOut, scanDeps, pc, job, result, deps>>
      /\ clock' = clock + 1 /\ clock \in Nat /\ Quiet(f)
  BY DEF EditOf, IInv, CacheTypeOK
<1>2. CacheTypeOK'
  BY <1>1 DEF IInv, CacheTypeOK, EditOf, IsDeps, Keys
<1>3. TreeInjective'
  BY DEF IInv, TreeInjective, CacheTypeOK, EditOf, Exists
<1>4. TimesOK'
  <2>1. \A k \in Keys : \A g \in DOMAIN scanDeps[k] :
            scanDeps[k][g] \in Nat /\ scanDeps[k][g] <= clock
    BY DEF IInv, CacheTypeOK, TimesOK, IsDeps
  <2>2. \A p \in Procs : \A g \in DOMAIN deps[p] :
            deps[p][g] \in Nat /\ deps[p][g] <= clock
    BY DEF IInv, CacheTypeOK, TimesOK, IsDeps
  <2>3. \A i \in Inodes : mtime'[i] <= clock + 1
    BY DEF EditOf
  <2>4. QED
    BY <1>1, <2>1, <2>2, <2>3 DEF TimesOK
<1>5. ASSUME NEW o \in Outs, Exists(Source[o])', Fresh(scanDeps[Key[o]])'
      PROVE  /\ DOMAIN scanDeps[Key[o]] = Needed(o, ScanOf(o))'
             /\ scanOut[Key[o]] = ScanOf(o)'
  <2>1. Key[o] \in Keys /\ Source[o] \in Files
    BY CommandsAssumption DEF Keys
  <2>2. Fresh(scanDeps[Key[o]]) /\ f \notin DOMAIN scanDeps[Key[o]]
    BY <1>1, <1>5, <2>1, FreshAfterEdit
  <2>3. Exists(Source[o])
    BY <2>1, <2>2 DEF IInv, SourceRecorded, Fresh
  <2>4. /\ DOMAIN scanDeps[Key[o]] = Needed(o, ScanOf(o))
        /\ scanOut[Key[o]] = ScanOf(o)
    BY <2>2, <2>3 DEF IInv, CoversScan, CacheSound
  <2>5. ScanOf(o)' = ScanOf(o)
    BY <2>2, <2>3, <2>4, UnneededEdit
  <2>6. QED
    BY <2>4, <2>5 DEF Needed
<1>6. CoversScan' /\ CacheSound' /\ SourceRecorded'
  BY <1>1, <1>5 DEF CoversScan, CacheSound, IInv, SourceRecorded
<1>7. ASSUME NEW p \in Procs, pc[p] # "idle"
      PROVE  /\ ScanOf(job[p])' = ScanOf(job[p])
             /\ Exists(Source[job[p]])'
             /\ Times(Needed(job[p], ScanOf(job[p])))'
                    = Times(Needed(job[p], ScanOf(job[p])))
             /\ f \notin Needed(job[p], ScanOf(job[p]))
  <2>1. job[p] \in Outs /\ Exists(Source[job[p]]) /\ f \notin Reads(job[p])
    BY <1>1, <1>7 DEF IInv, CacheTypeOK, WritersOK, WriterOK, Quiet
  <2>2. data[file[Source[job[p]]]] \in Contents /\ Source[job[p]] \in Files
    BY <2>1, CommandsAssumption DEF IInv, CacheTypeOK, Exists
  <2>3. Needed(job[p], ScanOf(job[p])) \subseteq Reads(job[p])
    BY <2>2 DEF Needed, ScanOf, HeadersOf, Reads
  <2>4. f \notin Needed(job[p], ScanOf(job[p]))
    BY <2>1, <2>3
  <2>5. PICK o \in Outs : o = job[p]
    BY <2>1
  <2>6. /\ ScanOf(o)' = ScanOf(o)
        /\ Exists(Source[o])'
        /\ Times(Needed(o, ScanOf(o)))' = Times(Needed(o, ScanOf(o)))
    BY <2>1, <2>4, <2>5, UnneededEdit
  <2>7. job'[p] = o
    BY <1>1, <2>5
  <2>8. ScanOf(job[p])' = ScanOf(o)'
    BY <2>7
  <2>9. Exists(Source[job[p]])'
    BY <2>6, <2>7 DEF Exists
  <2>10. Needed(job[p], ScanOf(job[p]))' = Needed(o, ScanOf(o))'
    BY <2>7, <2>8
  <2>11. Times(Needed(job[p], ScanOf(job[p])))' = Times(Needed(o, ScanOf(o)))'
    BY <2>7, <2>10 DEF Times
  <2>12. QED
    BY <2>4, <2>5, <2>6, <2>8, <2>9, <2>11
<1>8. ASSUME NEW p \in Procs, pc[p] = "out"
      PROVE  Fresh(scanDeps[Key[job[p]]])'
  <2>1. job[p] \in Outs /\ Exists(Source[job[p]]) /\ Fresh(scanDeps[Key[job[p]]])
    BY <1>8 DEF IInv, CacheTypeOK, WritersOK, WriterOK
  <2>2. f \notin DOMAIN scanDeps[Key[job[p]]]
    BY <2>1, <1>7, <1>8 DEF IInv, CoversScan
  <2>3. QED
    BY <1>1, <2>1, <2>2, FreshAfterEdit DEF Keys
<1>9. WritersOK'
  BY <1>1, <1>7, <1>8 DEF IInv, WritersOK, WriterOK
<1>10. ResultIsCurrent'
  BY <1>1, <1>7 DEF IInv, ResultIsCurrent, StagePCs
<1>11. QED
  BY <1>2, <1>3, <1>4, <1>6, <1>9, <1>10 DEF IInv

-----------------------------------------------------------------------------
\* ResultIsCurrent of one compile.
ResultOK(p) ==
    pc[p] \in StagePCs \cup {"stat", "writeOut", "writeDeps", "publish"}
        => result[p] = ScanOf(job[p])

\* What a compile knows stays true while it does not move, the tree is as it is
\* and the cache entry of its key is still what it was or better.
LEMMA Others ==
    ASSUME IInv, UNCHANGED treeVars, NEW q \in Procs,
           pc'[q] = pc[q], job'[q] = job[q],
           result'[q] = result[q], deps'[q] = deps[q],
           pc[q] = "out" => Fresh(scanDeps[Key[job[q]]])',
           pc[q] = "writeDeps" => scanOut'[Key[job[q]]] = ScanOf(job[q])
    PROVE  WriterOK(q)' /\ ResultOK(q)'
<1>1. PICK o : o = job[q]
  OBVIOUS
<1>2. job'[q] = o
  BY <1>1
<1>3. ScanOf(job[q])' = ScanOf(o)' /\ Exists(Source[job[q]])' = Exists(Source[o])'
  BY <1>2 DEF Exists
<1>4. /\ ScanOf(o)' = ScanOf(o) /\ Exists(Source[o])' = Exists(Source[o])
      /\ Times(Needed(o, ScanOf(o)))' = Times(Needed(o, ScanOf(o)))
  BY TreeUnchanged DEF Times, Needed, treeVars
<1>5. Needed(job[q], ScanOf(job[q]))' = Needed(o, ScanOf(o))'
  BY <1>2, <1>3
<1>6. Times(Needed(job[q], ScanOf(job[q])))' = Times(Needed(o, ScanOf(o)))'
  BY <1>5 DEF Times
<1>7. WriterOK(q) /\ ResultOK(q)
  BY DEF IInv, WritersOK, ResultIsCurrent, ResultOK
<1>8. WriterOK(q)'
  BY <1>1, <1>3, <1>4, <1>6, <1>7 DEF WriterOK
<1>9. ResultOK(q)'
  BY <1>1, <1>3, <1>4, <1>7 DEF ResultOK
<1>10. QED
  BY <1>8, <1>9

\* A step of p that leaves tree and cache alone has only p's own knowledge to
\* account for.
LEMMA LocalStep ==
    ASSUME IInv, UNCHANGED <<treeVars, cacheVars, clock>>, NEW p \in Procs,
           \A q \in Procs \ {p} : /\ pc'[q] = pc[q] /\ job'[q] = job[q]
                                 /\ result'[q] = result[q] /\ deps'[q] = deps[q],
           CacheTypeOK', WriterOK(p)', ResultOK(p)',
           \A f \in DOMAIN deps'[p] : deps'[p][f] <= clock
    PROVE  IInv'
<1>1. UNCHANGED <<treeVars, scanOut, scanDeps, clock>>
  BY DEF cacheVars
<1>2. TreeInjective'
  BY <1>1 DEF IInv, TreeInjective, treeVars, Exists
<1>3. TimesOK'
  BY <1>1 DEF IInv, TimesOK, treeVars
<1>4. CoversScan' /\ CacheSound' /\ SourceRecorded'
  BY <1>1, TreeUnchanged DEF IInv, CoversScan, CacheSound, Needed, SourceRecorded
<1>5. ASSUME NEW q \in Procs \ {p} PROVE WriterOK(q)' /\ ResultOK(q)'
  <2>1. pc[q] = "out" => Fresh(scanDeps[Key[job[q]]])
    BY DEF IInv, WritersOK, WriterOK
  <2>2. pc[q] = "writeDeps" => scanOut[Key[job[q]]] = ScanOf(job[q])
    BY DEF IInv, WritersOK, WriterOK
  <2>3. pc[q] = "out" => Fresh(scanDeps[Key[job[q]]])'
    BY <2>1, <1>1 DEF Fresh, treeVars, Exists
  <2>4. QED
    BY <1>1, <2>2, <2>3, Others
<1>6. WritersOK' /\ ResultIsCurrent'
  BY <1>5 DEF WritersOK, ResultIsCurrent, ResultOK
<1>7. QED
  BY <1>2, <1>3, <1>4, <1>6 DEF IInv

\* A project as it is unpacked has no cache entry, so none is fresh.
LEMMA InitOK == Init => IInv
<1> SUFFICES ASSUME Init PROVE IInv
  OBVIOUS
<1>1. /\ file \in [Files -> Inodes] /\ IsInjective(file)
      /\ data \in [Inodes -> Contents]
  BY UnpackedAssumption DEF Init
<1>2. IsDeps(NoDeps)
  BY DEF IsDeps, NoDeps
<1>3. CacheTypeOK
  BY <1>1, <1>2 DEF Init, CacheTypeOK
<1>4. TreeInjective
  BY <1>1 DEF TreeInjective, IsInjective
<1>5. TimesOK
  BY DEF Init, TimesOK, NoDeps
<1>6. \A o \in Outs : ~Fresh(scanDeps[Key[o]])
  BY DEF Init, Fresh, Keys
<1>7. CoversScan /\ CacheSound /\ SourceRecorded
  BY <1>6 DEF CoversScan, CacheSound, SourceRecorded, Init, Keys
<1>8. WritersOK /\ ResultIsCurrent
  BY DEF Init, WritersOK, WriterOK, ResultIsCurrent, StagePCs
<1>9. QED
  BY <1>3, <1>4, <1>5, <1>7, <1>8 DEF IInv

\* A compile starts with nothing known but that its source is there.
LEMMA StartStep ==
    ASSUME IInv, NEW p \in Procs, NEW o \in Outs, Start(p, o)
    PROVE  IInv'
<1>1. /\ UNCHANGED <<treeVars, cacheVars, clock, result, deps>>
      /\ pc' = [pc EXCEPT ![p] = "deps"] /\ job' = [job EXCEPT ![p] = o]
      /\ Exists(Source[o])
  BY DEF Start, Goto
<1>2. pc \in [Procs -> ScanPCs \cup StagePCs \cup {"idle", "publish"}]
      /\ job \in [Procs -> Outs \cup {NoJob}]
  BY DEF IInv, CacheTypeOK
<1>3. CacheTypeOK'
  <2>1. pc' \in [Procs -> ScanPCs \cup StagePCs \cup {"idle", "publish"}]
    BY <1>1, <1>2 DEF ScanPCs
  <2>2. job' \in [Procs -> Outs \cup {NoJob}]
    BY <1>1, <1>2
  <2>3. \A q \in Procs : pc'[q] # "idle" => job'[q] \in Outs
    BY <1>1, <1>2 DEF IInv, CacheTypeOK
  <2>4. QED
    BY <1>1, <2>1, <2>2, <2>3 DEF IInv, CacheTypeOK, treeVars, cacheVars
<1>4. pc'[p] = "deps" /\ job'[p] = o
  BY <1>1, <1>2
<1>5. Exists(Source[o])'
  BY <1>1, TreeUnchanged
<1>6. WriterOK(p)' /\ ResultOK(p)'
  BY <1>4, <1>5 DEF WriterOK, ResultOK, StagePCs, Exists
<1>7. \A q \in Procs \ {p} : /\ pc'[q] = pc[q] /\ job'[q] = job[q]
                              /\ result'[q] = result[q] /\ deps'[q] = deps[q]
  BY <1>1, <1>2
<1>8. \A f \in DOMAIN deps'[p] : deps'[p][f] <= clock
  BY <1>1 DEF IInv, TimesOK
<1>9. QED
  BY <1>1, <1>3, <1>6, <1>7, <1>8, LocalStep

\* g is f but for its value at p.
Becomes(f, g, p, v) ==
    DOMAIN g = DOMAIN f /\ g[p] = v /\ \A q \in Procs \ {p} : g[q] = f[q]

\* A compile that goes on to another place has to know there what the place asks.
LEMMA MoveStep ==
    ASSUME IInv, UNCHANGED <<treeVars, cacheVars, clock, job>>,
           NEW p \in Procs, pc[p] # "idle",
           NEW to \in ScanPCs \cup StagePCs \cup {"publish"},
           pc' = [pc EXCEPT ![p] = to],
           NEW r, Becomes(result, result', p, r),
           NEW d, Becomes(deps, deps', p, d),
           IsDeps(d), \A f \in DOMAIN d : d[f] <= clock,
           to = "out" => Fresh(scanDeps[Key[job[p]]]),
           to \in {"writeOut", "writeDeps"}
               => d = Times(Needed(job[p], ScanOf(job[p]))),
           to = "writeDeps" => scanOut[Key[job[p]]] = ScanOf(job[p]),
           to \in StagePCs \cup {"stat", "writeOut", "writeDeps", "publish"}
               => r = ScanOf(job[p])
    PROVE  IInv'
<1>1. CacheTypeOK /\ WriterOK(p)
  BY DEF IInv, WritersOK
<1>2. pc'[p] = to /\ result'[p] = r /\ deps'[p] = d /\ job'[p] = job[p]
  BY <1>1 DEF CacheTypeOK, Becomes
<1>3. \A q \in Procs \ {p} : /\ pc'[q] = pc[q] /\ job'[q] = job[q]
                              /\ result'[q] = result[q] /\ deps'[q] = deps[q]
  BY <1>1 DEF CacheTypeOK, Becomes
<1>4. CacheTypeOK'
  <2>1. pc' \in [Procs -> ScanPCs \cup StagePCs \cup {"idle", "publish"}]
    BY <1>1 DEF CacheTypeOK
  <2>2. DOMAIN result' = Procs /\ DOMAIN deps' = Procs
    BY <1>1 DEF CacheTypeOK, Becomes
  <2>3. \A q \in Procs : IsDeps(deps'[q])
    BY <1>1, <1>2, <1>3 DEF CacheTypeOK
  <2>4. \A q \in Procs : pc'[q] # "idle" => job'[q] \in Outs
    BY <1>1, <1>3 DEF CacheTypeOK
  <2>5. QED
    BY <1>1, <2>1, <2>2, <2>3, <2>4 DEF CacheTypeOK, treeVars, cacheVars, IsDeps
<1>5. PICK o : o = job[p]
  OBVIOUS
<1>6. /\ ScanOf(o)' = ScanOf(o) /\ Exists(Source[o])' = Exists(Source[o])
      /\ Fresh(scanDeps[Key[o]])' = Fresh(scanDeps[Key[o]])
      /\ Times(Needed(o, ScanOf(o)))' = Times(Needed(o, ScanOf(o)))
  BY TreeUnchanged DEF Times, Needed, treeVars, cacheVars, Fresh, Exists
<1>7. job'[p] = o
  BY <1>2, <1>5
<1>8. /\ ScanOf(job[p])' = ScanOf(o)'
      /\ Exists(Source[job[p]])' = Exists(Source[o])'
      /\ Fresh(scanDeps[Key[job[p]]])' = Fresh(scanDeps[Key[o]])'
  BY <1>7 DEF Exists, Fresh
<1>9. Needed(job[p], ScanOf(job[p]))' = Needed(o, ScanOf(o))'
  BY <1>7, <1>8
<1>10. Times(Needed(job[p], ScanOf(job[p])))' = Times(Needed(o, ScanOf(o)))'
  BY <1>9 DEF Times
<1>11. WriterOK(p)'
  BY <1>1, <1>2, <1>5, <1>6, <1>8, <1>10 DEF WriterOK, cacheVars
<1>12. ResultOK(p)'
  BY <1>2, <1>5, <1>6, <1>8 DEF ResultOK
<1>13. QED
  BY <1>2, <1>3, <1>4, <1>11, <1>12, LocalStep

\* A shim that is gone knows nothing.
LEMMA LeaveStep ==
    ASSUME IInv, UNCHANGED <<treeVars, cacheVars, clock>>,
           NEW p \in Procs, Leave(p)
    PROVE  IInv'
<1>1. CacheTypeOK
  BY DEF IInv
<1>2. /\ pc' = [pc EXCEPT ![p] = "idle"] /\ job' = [job EXCEPT ![p] = NoJob]
      /\ result' = [result EXCEPT ![p] = NoResult]
      /\ deps' = [deps EXCEPT ![p] = NoDeps]
  BY DEF Leave, Goto
<1>3. pc'[p] = "idle" /\ deps'[p] = NoDeps
  BY <1>1, <1>2 DEF CacheTypeOK
<1>4. \A q \in Procs \ {p} : /\ pc'[q] = pc[q] /\ job'[q] = job[q]
                              /\ result'[q] = result[q] /\ deps'[q] = deps[q]
  BY <1>1, <1>2 DEF CacheTypeOK
<1>5. IsDeps(NoDeps) /\ \A f \in DOMAIN NoDeps : NoDeps[f] <= clock
  BY DEF IsDeps, NoDeps
<1>6. CacheTypeOK'
  <2>1. pc' \in [Procs -> ScanPCs \cup StagePCs \cup {"idle", "publish"}]
        /\ job' \in [Procs -> Outs \cup {NoJob}]
    BY <1>1, <1>2 DEF CacheTypeOK
  <2>2. DOMAIN result' = Procs /\ DOMAIN deps' = Procs
    BY <1>1, <1>2 DEF CacheTypeOK
  <2>3. \A q \in Procs : IsDeps(deps'[q])
    BY <1>1, <1>3, <1>4, <1>5 DEF CacheTypeOK
  <2>4. \A q \in Procs : pc'[q] # "idle" => job'[q] \in Outs
    BY <1>1, <1>3, <1>4 DEF CacheTypeOK
  <2>5. QED
    BY <1>1, <2>1, <2>2, <2>3, <2>4 DEF CacheTypeOK, treeVars, cacheVars, IsDeps
<1>7. WriterOK(p)' /\ ResultOK(p)'
  BY <1>3 DEF WriterOK, ResultOK, StagePCs
<1>8. QED
  BY <1>3, <1>4, <1>5, <1>6, <1>7, LocalStep

\* The steps of the scan that only read the tree and the cache.
LEMMA ReadingSteps ==
    ASSUME IInv, clock' = clock, NEW p \in Procs,
           ReadDeps(p) \/ ReadOut(p) \/ Scan(p) \/ StatDeps(p) \/ WriteFails(p)
    PROVE  IInv'
<1>1. CacheTypeOK /\ WriterOK(p) /\ ResultOK(p)
  BY DEF IInv, WritersOK, ResultIsCurrent, ResultOK
<1>2. pc[p] # "idle" /\ UNCHANGED <<treeVars, cacheVars, clock, job>>
  BY DEF ReadDeps, ReadOut, Scan, StatDeps, WriteFails
<1>3. job[p] \in Outs /\ Exists(Source[job[p]])
  BY <1>1, <1>2 DEF CacheTypeOK, WriterOK
<1>4. /\ Becomes(result, result, p, result[p])
      /\ Becomes(deps, deps, p, deps[p])
      /\ IsDeps(deps[p]) /\ \A f \in DOMAIN deps[p] : deps[p][f] <= clock
  BY <1>1 DEF CacheTypeOK, IInv, TimesOK, Becomes
<1>5. CASE ReadDeps(p)
  <2>1. PICK to \in {"out", "scan"} :
            /\ pc' = [pc EXCEPT ![p] = to]
            /\ to = "out" => Fresh(scanDeps[Key[job[p]]])
    BY <1>5 DEF ReadDeps, Goto
  <2>2. result' = result /\ deps' = deps
    BY <1>5 DEF ReadDeps
  <2>3. to \in ScanPCs \cup StagePCs \cup {"publish"}
        /\ to \notin StagePCs \cup {"stat", "writeOut", "writeDeps", "publish"}
    BY DEF ScanPCs, StagePCs
  <2>4. QED
    BY <1>2, <1>4, <2>1, <2>2, <2>3, MoveStep
<1>6. CASE ReadOut(p)
  <2>1. Becomes(deps, deps', p, deps[p]) /\ pc[p] = "out"
    BY <1>4, <1>6 DEF ReadOut
  <2>2. CASE scanOut[Key[job[p]]] = NoResult
    <3>1. /\ pc' = [pc EXCEPT ![p] = "scan"]
          /\ Becomes(result, result', p, result[p])
      BY <1>4, <1>6, <2>2 DEF ReadOut, Goto
    <3>2. /\ "scan" \in ScanPCs \cup StagePCs \cup {"publish"}
          /\ "scan" \notin StagePCs \cup {"out", "stat", "writeOut", "writeDeps", "publish"}
      BY DEF ScanPCs, StagePCs
    <3>3. QED
      BY <1>2, <1>4, <2>1, <3>1, <3>2, MoveStep
  <2>3. CASE scanOut[Key[job[p]]] # NoResult
    <3>1. /\ pc' = [pc EXCEPT ![p] = "stage"]
          /\ Becomes(result, result', p, scanOut[Key[job[p]]])
      BY <1>1, <1>6, <2>3 DEF ReadOut, Goto, Becomes, CacheTypeOK
    <3>2. scanOut[Key[job[p]]] = ScanOf(job[p])
      BY <1>1, <1>3, <2>1 DEF WriterOK, IInv, CacheSound
    <3>3. /\ "stage" \in ScanPCs \cup StagePCs \cup {"publish"}
          /\ "stage" \notin {"out", "writeOut", "writeDeps"}
      BY DEF StagePCs
    <3>4. QED
      BY <1>2, <1>4, <2>1, <3>1, <3>2, <3>3, MoveStep
  <2>4. QED
    BY <2>2, <2>3
<1>7. CASE Scan(p)
  <2>1. /\ deps' = deps /\ pc' = [pc EXCEPT ![p] = "stat"]
        /\ Becomes(result, result', p, ScanOf(job[p]))
    BY <1>1, <1>7 DEF Scan, Goto, Becomes, CacheTypeOK
  <2>2. Becomes(deps, deps', p, deps[p])
    BY <1>4, <2>1
  <2>3. /\ "stat" \in ScanPCs \cup StagePCs \cup {"publish"}
        /\ "stat" \notin {"out", "writeOut", "writeDeps"}
    BY DEF ScanPCs
  <2>4. QED
    BY <1>2, <1>4, <2>1, <2>2, <2>3, MoveStep
<1>8. CASE StatDeps(p)
  <2>1. /\ result' = result /\ pc' = [pc EXCEPT ![p] = "writeOut"]
        /\ Becomes(deps, deps', p, Times(Needed(job[p], result[p])))
        /\ pc[p] = "stat"
    BY <1>1, <1>8 DEF StatDeps, Goto, Needed, Becomes, CacheTypeOK
  <2>2. result[p] = ScanOf(job[p])
    BY <1>1, <2>1 DEF ResultOK
  <2>3. \A g \in Needed(job[p], result[p]) : g \in Files /\ Exists(g)
    <3>1. Needed(job[p], result[p]) = {Source[job[p]]} \cup HeadersOf(job[p])
      BY <2>2 DEF Needed, ScanOf
    <3>2. QED
      BY <1>3, <3>1, CommandsAssumption DEF HeadersOf
  <2>4. \A g \in Needed(job[p], result[p]) :
            mtime[file[g]] \in Nat /\ mtime[file[g]] <= clock
    BY <1>1, <2>3 DEF CacheTypeOK, IInv, TimesOK, Exists
  <2>5. /\ IsDeps(Times(Needed(job[p], result[p])))
        /\ \A g \in DOMAIN Times(Needed(job[p], result[p])) :
               Times(Needed(job[p], result[p]))[g] <= clock
    BY <2>3, <2>4 DEF IsDeps, Times
  <2>6. Becomes(result, result', p, result[p])
    BY <1>4, <2>1
  <2>7. /\ "writeOut" \in ScanPCs \cup StagePCs \cup {"publish"}
        /\ "writeOut" \notin {"out", "writeDeps"}
    BY DEF ScanPCs
  <2>8. Times(Needed(job[p], result[p])) = Times(Needed(job[p], ScanOf(job[p])))
    BY <2>2
  <2>9. QED
    BY <1>2, <2>1, <2>2, <2>5, <2>6, <2>7, <2>8, MoveStep
<1>9. CASE WriteFails(p)
  <2>1. /\ result' = result /\ deps' = deps /\ pc' = [pc EXCEPT ![p] = "stage"]
        /\ pc[p] \in {"writeOut", "writeDeps"}
    BY <1>9 DEF WriteFails, Goto
  <2>2. result[p] = ScanOf(job[p])
    BY <1>1, <2>1 DEF ResultOK
  <2>3. /\ Becomes(result, result', p, result[p])
        /\ Becomes(deps, deps', p, deps[p])
    BY <1>4, <2>1
  <2>4. /\ "stage" \in ScanPCs \cup StagePCs \cup {"publish"}
        /\ "stage" \notin {"out", "writeOut", "writeDeps"}
    BY DEF StagePCs
  <2>5. QED
    BY <1>2, <1>4, <2>1, <2>2, <2>3, <2>4, MoveStep
<1>10. QED
  BY <1>5, <1>6, <1>7, <1>8, <1>9

\* Staging touches neither the tree nor the cache, and keeps the scan's result.
LEMMA StagingSteps ==
    ASSUME IInv, clock' = clock, NEW p \in Procs, StageStep(p)
    PROVE  IInv'
<1>1. CacheTypeOK /\ ResultOK(p)
  BY DEF IInv, ResultIsCurrent, ResultOK
<1>2. UNCHANGED <<treeVars, cacheVars, clock>> /\ pc[p] \in StagePCs
  BY DEF StageStep, CheckReuse, Clear, Link, StagePCs
<1>3. result[p] = ScanOf(job[p]) /\ pc[p] # "idle"
  BY <1>1, <1>2 DEF ResultOK, StagePCs
<1>4. /\ Becomes(result, result, p, result[p])
      /\ Becomes(deps, deps, p, deps[p])
      /\ IsDeps(deps[p]) /\ \A f \in DOMAIN deps[p] : deps[p][f] <= clock
  BY <1>1 DEF CacheTypeOK, IInv, TimesOK, Becomes
<1>5. ASSUME UNCHANGED <<job, result, deps>>,
             NEW to \in {"publish", "clear", "link"}, pc' = [pc EXCEPT ![p] = to]
      PROVE  IInv'
  <2>1. /\ Becomes(result, result', p, result[p])
        /\ Becomes(deps, deps', p, deps[p])
    BY <1>4, <1>5
  <2>2. /\ to \in ScanPCs \cup StagePCs \cup {"publish"}
        /\ to \notin {"out", "writeOut", "writeDeps"}
    BY DEF StagePCs
  <2>3. QED
    BY <1>2, <1>3, <1>4, <1>5, <2>1, <2>2, MoveStep
<1>6. CASE CheckReuse(p)
  <2>1. \E to \in {"publish", "clear", "link"} : pc' = [pc EXCEPT ![p] = to]
    BY <1>6 DEF CheckReuse, Goto
  <2>2. UNCHANGED <<job, result, deps>>
    BY <1>6 DEF CheckReuse
  <2>3. QED
    BY <1>5, <2>1, <2>2
<1>7. CASE Clear(p)
  <2>1. pc[p] = "clear" /\ UNCHANGED <<job, result, deps>>
    BY <1>7 DEF Clear
  <2>2. pc = [pc EXCEPT ![p] = "clear"]
    BY <1>1, <2>1 DEF CacheTypeOK
  <2>3. \E to \in {"publish", "clear", "link"} : pc' = [pc EXCEPT ![p] = to]
    BY <1>7, <2>2 DEF Clear, Goto
  <2>4. QED
    BY <1>5, <2>1, <2>3
<1>8. CASE Link(p)
  <2>1. PICK f \in todo[p] :
            IF CanLink(p, f) THEN LinkOne(p, f) ELSE Leave(p)
    BY <1>8 DEF Link
  <2>2. CASE LinkOne(p, f)
    <3>1. UNCHANGED <<job, result, deps>>
      BY <2>2 DEF LinkOne
    <3>2. \E to \in {"publish", "clear", "link"} : pc' = [pc EXCEPT ![p] = to]
      BY <2>2 DEF LinkOne, Goto
    <3>3. QED
      BY <1>5, <3>1, <3>2
  <2>3. CASE Leave(p)
    BY <1>2, <2>3, LeaveStep
  <2>4. QED
    BY <2>1, <2>2, <2>3
<1>9. QED
  BY <1>6, <1>7, <1>8 DEF StageStep

\* A step of p that writes the cache entry of its key must leave an entry that,
\* if fresh, is right for p's command: then it is for all that share the key,
\* and the other compiles keep what they know.
LEMMA EntryStep ==
    ASSUME IInv, UNCHANGED <<treeVars, clock, job, result, deps>>,
           NEW p \in Procs, job[p] \in Outs,
           NEW K, K = Key[job[p]],
           NEW to \in ScanPCs \cup StagePCs, pc' = [pc EXCEPT ![p] = to],
           DOMAIN scanOut' = Keys, DOMAIN scanDeps' = Keys,
           \A k \in Keys \ {K} : scanOut'[k] = scanOut[k] /\ scanDeps'[k] = scanDeps[k],
           IsDeps(scanDeps'[K]), \A f \in DOMAIN scanDeps'[K] : scanDeps'[K][f] <= clock,
           scanOut'[K] = ScanOf(job[p]),
           Fresh(scanDeps[K]) => Fresh(scanDeps'[K]),
           scanDeps'[K] # NoDeps => Source[job[p]] \in DOMAIN scanDeps'[K],
           Fresh(scanDeps'[K]) =>
               DOMAIN scanDeps'[K] = Needed(job[p], ScanOf(job[p])),
           WriterOK(p)', ResultOK(p)'
    PROVE  IInv'
<1>1. CacheTypeOK /\ K \in Keys
  BY DEF IInv, Keys
<1>2. CacheTypeOK'
  <2>1. pc' \in [Procs -> ScanPCs \cup StagePCs \cup {"idle", "publish"}]
        /\ \A q \in Procs : pc'[q] # "idle" => job[q] \in Outs
    BY <1>1 DEF CacheTypeOK
  <2>2. \A k \in Keys : IsDeps(scanDeps'[k])
    BY <1>1 DEF CacheTypeOK
  <2>3. QED
    BY <1>1, <2>1, <2>2 DEF CacheTypeOK, treeVars, IsDeps, Keys
<1>3. TreeInjective'
  BY DEF IInv, TreeInjective, treeVars, Exists
<1>4. TimesOK'
  BY <1>1 DEF IInv, TimesOK, treeVars, Keys
<1>5. \A d : Fresh(d)' <=> Fresh(d)
  BY DEF Fresh, Exists, treeVars
<1>6. ASSUME NEW o \in Outs, Exists(Source[o]), Fresh(scanDeps'[Key[o]])
      PROVE  /\ DOMAIN scanDeps'[Key[o]] = Needed(o, ScanOf(o))
             /\ scanOut'[Key[o]] = ScanOf(o)
  <2>1. CASE Key[o] = K
    BY <1>6, <2>1, SameKeySameScan
  <2>2. CASE Key[o] # K
    BY <1>6, <2>2 DEF IInv, CoversScan, CacheSound, Keys
  <2>3. QED
    BY <2>1, <2>2
<1>7. \A o \in Outs : /\ ScanOf(o)' = ScanOf(o)
                      /\ Exists(Source[o])' = Exists(Source[o])
                      /\ Needed(o, ScanOf(o))' = Needed(o, ScanOf(o))
                      /\ Fresh(scanDeps[Key[o]])' = Fresh(scanDeps'[Key[o]])
  BY TreeUnchanged DEF Needed, Fresh, Exists, treeVars
<1>8. CoversScan' /\ CacheSound'
  BY <1>6, <1>7 DEF CoversScan, CacheSound
<1>9. SourceRecorded'
  <2>1. ASSUME NEW o \in Outs, scanDeps'[Key[o]] # NoDeps
        PROVE  Source[o] \in DOMAIN scanDeps'[Key[o]]
    BY <2>1, KeyAssumption DEF IInv, SourceRecorded, Keys
  <2>2. QED
    BY <2>1 DEF SourceRecorded
<1>10. ASSUME NEW q \in Procs \ {p} PROVE WriterOK(q)' /\ ResultOK(q)'
  <2>1. pc'[q] = pc[q] /\ job'[q] = job[q] /\ result'[q] = result[q]
        /\ deps'[q] = deps[q]
    BY <1>1 DEF CacheTypeOK
  <2>2. pc[q] # "idle" => job[q] \in Outs /\ Key[job[q]] \in Keys
    BY <1>1 DEF CacheTypeOK, Keys
  <2>3. pc[q] = "out" => Fresh(scanDeps'[Key[job[q]]])
    <3>1. pc[q] = "out" => Fresh(scanDeps[Key[job[q]]])
      BY DEF IInv, WritersOK, WriterOK
    <3>2. QED
      BY <2>2, <3>1
  <2>4. pc[q] = "out" => Fresh(scanDeps[Key[job[q]]])'
    BY <2>3, <2>1 DEF Fresh, treeVars, Exists
  <2>5. pc[q] = "writeDeps" => scanOut'[Key[job[q]]] = ScanOf(job[q])
    <3>1. CASE pc[q] = "writeDeps" /\ Key[job[q]] = K
      <4>1. ScanOf(job[q]) = ScanOf(job[p])
        BY <2>2, <3>1, SameKeySameScan
      <4>2. QED
        BY <3>1, <4>1
    <3>2. CASE pc[q] = "writeDeps" /\ Key[job[q]] # K
      BY <2>2, <3>2 DEF IInv, WritersOK, WriterOK
    <3>3. QED
      BY <3>1, <3>2
  <2>6. QED
    BY <2>1, <2>4, <2>5, Others
<1>11. WritersOK' /\ ResultIsCurrent'
  BY <1>10 DEF WritersOK, ResultIsCurrent, ResultOK
<1>12. QED
  BY <1>2, <1>3, <1>4, <1>8, <1>11, <1>9 DEF IInv

\* The steps that write the cache: .out gets a result that is current, .deps the
\* times of the files it was found in.
LEMMA WritingSteps ==
    ASSUME IInv, clock' = clock, NEW p \in Procs, WriteOut(p) \/ WriteDeps(p)
    PROVE  IInv'
<1>1. CacheTypeOK /\ WriterOK(p) /\ ResultOK(p)
  BY DEF IInv, WritersOK, ResultIsCurrent, ResultOK
<1>2. pc[p] # "idle" /\ UNCHANGED <<treeVars, clock, job, result, deps>>
  BY DEF WriteOut, WriteDeps
<1>3. job[p] \in Outs /\ Exists(Source[job[p]]) /\ Key[job[p]] \in Keys
  BY <1>1, <1>2 DEF CacheTypeOK, WriterOK, Keys
<1>4. result[p] = ScanOf(job[p])
  BY <1>1 DEF WriteOut, WriteDeps, ResultOK
<1>5. deps[p] = Times(Needed(job[p], ScanOf(job[p])))
  BY <1>1 DEF WriteOut, WriteDeps, WriterOK
<1>6. PICK o : o = job[p] /\ o = job'[p]
  BY <1>2
<1>7. /\ ScanOf(job[p])' = ScanOf(o)' /\ ScanOf(o)' = ScanOf(o)
      /\ Exists(Source[job[p]])' = Exists(Source[o])
      /\ Times(Needed(o, ScanOf(o)))' = Times(Needed(o, ScanOf(o)))
  BY <1>2, <1>6, TreeUnchanged DEF Times, Needed, treeVars, Exists
<1>8. Needed(job[p], ScanOf(job[p]))' = Needed(o, ScanOf(o))'
  BY <1>6, <1>7
<1>9. Times(Needed(job[p], ScanOf(job[p])))' = Times(Needed(o, ScanOf(o)))'
  BY <1>8 DEF Times
<1>10. CASE WriteOut(p)
  <2>1. /\ pc' = [pc EXCEPT ![p] = "writeDeps"] /\ scanDeps' = scanDeps
        /\ scanOut' = [scanOut EXCEPT ![Key[job[p]]] = ScanOf(job[p])]
    BY <1>4, <1>10 DEF WriteOut, Goto
  <2>2. /\ pc'[p] = "writeDeps" /\ DOMAIN scanOut' = Keys /\ DOMAIN scanDeps' = Keys
        /\ scanOut'[Key[job[p]]] = ScanOf(job[p])
        /\ \A k \in Keys \ {Key[job[p]]} : scanOut'[k] = scanOut[k]
    BY <1>1, <1>3, <2>1 DEF CacheTypeOK
  <2>3. /\ IsDeps(scanDeps'[Key[job[p]]])
        /\ \A f \in DOMAIN scanDeps'[Key[job[p]]] : scanDeps'[Key[job[p]]][f] <= clock
    BY <1>1, <1>3, <2>1 DEF CacheTypeOK, IInv, TimesOK
  <2>4. Fresh(scanDeps'[Key[job[p]]]) =>
            DOMAIN scanDeps'[Key[job[p]]] = Needed(job[p], ScanOf(job[p]))
    BY <1>3, <2>1 DEF IInv, CoversScan
  <2>5. scanDeps'[Key[job[p]]] # NoDeps
            => Source[job[p]] \in DOMAIN scanDeps'[Key[job[p]]]
    BY <1>3, <2>1 DEF IInv, SourceRecorded
  <2>6. WriterOK(p)' /\ ResultOK(p)'
    BY <1>2, <1>3, <1>4, <1>5, <1>6, <1>7, <1>9, <2>2 DEF WriterOK, ResultOK
  <2>7. "writeDeps" \in ScanPCs \cup StagePCs
    BY DEF ScanPCs
  <2>8. QED
    BY <1>2, <1>3, <2>1, <2>2, <2>3, <2>4, <2>6, <2>7, <2>5, EntryStep
<1>11. CASE WriteDeps(p)
  <2>1. /\ pc' = [pc EXCEPT ![p] = "stage"] /\ scanOut' = scanOut
        /\ scanDeps' = [scanDeps EXCEPT ![Key[job[p]]] = deps[p]]
        /\ pc[p] = "writeDeps"
    BY <1>11 DEF WriteDeps, Goto
  <2>2. /\ pc'[p] = "stage" /\ DOMAIN scanOut' = Keys /\ DOMAIN scanDeps' = Keys
        /\ scanDeps'[Key[job[p]]] = deps[p]
        /\ \A k \in Keys \ {Key[job[p]]} : scanDeps'[k] = scanDeps[k]
    BY <1>1, <1>3, <2>1 DEF CacheTypeOK
  <2>3. scanOut'[Key[job[p]]] = ScanOf(job[p])
    BY <1>1, <2>1 DEF WriterOK
  <2>4. IsDeps(deps[p]) /\ \A f \in DOMAIN deps[p] : deps[p][f] <= clock
    BY <1>1 DEF CacheTypeOK, IInv, TimesOK
  <2>5. Needed(job[p], ScanOf(job[p])) = {Source[job[p]]} \cup HeadersOf(job[p])
    BY DEF Needed, ScanOf
  <2>6. \A f \in Needed(job[p], ScanOf(job[p])) : Exists(f)
    BY <1>3, <2>5 DEF HeadersOf
  <2>7. DOMAIN deps[p] = Needed(job[p], ScanOf(job[p]))
    BY <1>5 DEF Times
  <2>8. deps[p] # NoDeps
    BY <2>5, <2>7 DEF NoDeps
  <2>9. Fresh(deps[p])
    BY <1>5, <2>6, <2>8 DEF Fresh, Times
  <2>10. WriterOK(p)' /\ ResultOK(p)'
    BY <1>2, <1>3, <1>4, <1>6, <1>7, <2>2 DEF WriterOK, ResultOK
  <2>11. "stage" \in ScanPCs \cup StagePCs
    BY DEF StagePCs
  <2>12. QED
    BY <1>2, <1>3, <2>1, <2>2, <2>3, <2>4, <2>5, <2>7, <2>9, <2>10, <2>11, EntryStep
<1>12. QED
  BY <1>10, <1>11

-----------------------------------------------------------------------------
\* Every step keeps the invariant.
LEMMA NextOK ==
    ASSUME NoNewHeaders, IInv, [Next]_vars
    PROVE  IInv'
<1>1. ASSUME NEW p \in Procs, Scanning(p)
      PROVE  IInv'
  <2>1. clock' = clock
    BY <1>1 DEF Scanning
  <2>2. QED
    BY <1>1, <2>1, ReadingSteps, WritingSteps DEF Scanning, ScanStep
<1>2. ASSUME NEW p \in Procs, Staging(p)
      PROVE  IInv'
  BY <1>2, StagingSteps DEF Staging
<1>3. ASSUME NEW p \in Procs, Publish(p)
      PROVE  IInv'
  BY <1>3, LeaveStep DEF Publish
<1>4. ASSUME NEW p \in Procs, CacheWriteFails(p)
      PROVE  IInv'
  BY <1>4, ReadingSteps DEF CacheWriteFails
<1>5. ASSUME NEW p \in Procs, Stop(p)
      PROVE  IInv'
  BY <1>5, LeaveStep DEF Stop
<1>6. ASSUME NEW p \in Procs, NEW o \in Outs, Start(p, o)
      PROVE  IInv'
  BY <1>6, StartStep
<1>7. ASSUME NEW f \in Files,
             EditInPlace(f) \/ EditByRename(f) \/ CreateFile(f) \/ DeleteFile(f)
      PROVE  IInv'
  BY <1>7, Edits, EditStep
<1>8. CASE UNCHANGED vars
  <2>1. UNCHANGED <<file, data, mtime, scanOut, scanDeps, pc, job, result, deps, clock>>
    BY <1>8 DEF vars, treeVars, cacheVars, procVars
  <2>2. CacheTypeOK' /\ TreeInjective' /\ TimesOK'
    BY <2>1 DEF IInv, CacheTypeOK, TreeInjective, TimesOK, Exists
  <2>3. CoversScan' /\ CacheSound' /\ SourceRecorded'
    BY <2>1, TreeUnchanged
       DEF IInv, CoversScan, CacheSound, SourceRecorded, Needed, treeVars
  <2>4. \A q \in Procs : WriterOK(q)' /\ ResultOK(q)'
    <3>1. UNCHANGED treeVars
      BY <2>1 DEF treeVars
    <3>2. \A q \in Procs : pc[q] = "out" => Fresh(scanDeps[Key[job[q]]])'
      BY <2>1 DEF IInv, WritersOK, WriterOK, Fresh, Exists
    <3>3. \A q \in Procs : pc[q] = "writeDeps" => scanOut'[Key[job[q]]] = ScanOf(job[q])
      BY <2>1 DEF IInv, WritersOK, WriterOK
    <3>4. QED
      BY <2>1, <3>1, <3>2, <3>3, Others
  <2>5. QED
    BY <2>2, <2>3, <2>4 DEF IInv, WritersOK, ResultIsCurrent, ResultOK
<1>9. QED
  BY <1>1, <1>2, <1>3, <1>4, <1>5, <1>6, <1>7, <1>8 DEF Next

\* The scan cache's invariant holds in every behaviour of any number of compiles,
\* edits, failed cache writes and kills.
THEOREM Invariance ==
    ASSUME NoNewHeaders
    PROVE  Spec => []IInv
<1>1. IInv /\ [Next]_vars => IInv'
  BY NextOK
<1>2. QED
  BY InitOK, <1>1, PTL DEF Spec

\* Whatever compiles and edits went before, a .deps whose files are all as
\* recorded stands beside a .out that is what a scan would find now: the hit of
\* scan.Run needs no lock over the two files.
THEOREM CacheIsSound ==
    ASSUME NoNewHeaders
    PROVE  Spec => []CacheSound
<1>1. IInv => CacheSound
  BY DEF IInv
<1>2. QED
  BY Invariance, <1>1, PTL

\* Whether it hit or scanned, a compile goes on to staging with what a scan of
\* its sources finds at that moment.
THEOREM ResultsAreCurrent ==
    ASSUME NoNewHeaders
    PROVE  Spec => []ResultIsCurrent
<1>1. IInv => ResultIsCurrent
  BY DEF IInv
<1>2. QED
  BY Invariance, <1>1, PTL

-----------------------------------------------------------------------------
\* A prefix is no longer than its path and agrees with it name by name.
LEMMA PrefixOf ==
    ASSUME NEW d \in Seq(Names), NEW e \in Seq(Names)
    PROVE  IsPrefix(d, e) <=> /\ Len(d) <= Len(e)
                              /\ \A i \in 1..Len(d) : d[i] = e[i]
<1>1. Len(d) \in Nat /\ Len(e) \in Nat
      /\ (\A i \in 1..Len(d) : d[i] \in Names) /\ (\A i \in 1..Len(e) : e[i] \in Names)
  BY LenProperties, ElementOfSeq
<1> SUFFICES ASSUME Len(d) <= Len(e)
             PROVE  SubSeq(d, 1, Len(d)) = SubSeq(e, 1, Len(d))
                        <=> \A i \in 1..Len(d) : d[i] = e[i]
  BY DEF IsPrefix
<1> DEFINE s == SubSeq(d, 1, Len(d))
           t == SubSeq(e, 1, Len(d))
<1>2. /\ s \in Seq(Names) /\ Len(s) = Len(d)
      /\ \A i \in 1..Len(d) : s[i] = d[i]
  <2>1. \A i \in 1..Len(d) : d[i] \in Names
    BY <1>1
  <2>2. QED
    BY <1>1, <2>1, SubSeqProperties, Z3
<1>3. /\ t \in Seq(Names) /\ Len(t) = Len(d)
      /\ \A i \in 1..Len(d) : t[i] = e[i]
  <2>1. \A i \in 1..Len(d) : e[i] \in Names
    BY <1>1
  <2>2. QED
    BY <1>1, <2>1, SubSeqProperties, Z3
<1> HIDE DEF s, t
<1>4. s = t <=> \A i \in 1..Len(d) : s[i] = t[i]
  BY <1>1, <1>2, <1>3, SeqEqual
<1>5. QED
  BY <1>2, <1>3, <1>4 DEF s, t

\* The directory of a path is a path, and what lies above it lies above the path.
LEMMA DirOf ==
    ASSUME NEW f \in Seq(Names)
    PROVE  /\ Dir(f) \in Seq(Names)
           /\ \A d \in Seq(Names) : IsPrefix(d, Dir(f)) => IsPrefix(d, f)
<1>1. Len(f) \in Nat /\ \A i \in 1..Len(f) : f[i] \in Names
  BY LenProperties, ElementOfSeq
<1>2. /\ Dir(f) \in Seq(Names) /\ Len(Dir(f)) <= Len(f)
      /\ \A i \in 1..Len(Dir(f)) : Dir(f)[i] = f[i]
  <2>1. \A i \in 1..(Len(f) - 1) : f[i] \in Names
    BY <1>1
  <2>2. QED
    BY <1>1, <2>1, SubSeqProperties, Z3 DEF Dir, Front
<1>3. QED
  BY <1>1, <1>2, PrefixOf, LenProperties, Z3

\* The project root of a scan is a path above the source and every header.
LEMMA RootIsAncestor ==
    ASSUME NEW o \in Outs, NEW h \in SUBSET Files
    PROVE  /\ RootOf(o, h) \in Seq(Names)
           /\ \A f \in {Source[o]} \cup h : Under(RootOf(o, h), f)
<1> DEFINE dirs == {Dir(Source[o])} \cup IncDirs[o] \cup {Dir(f) : f \in h}
           common == {d \in Prefixes(Cwd[o]) : \A e \in dirs : IsPrefix(d, e)}
           deepest(root) == root \in common /\ \A d \in common : Len(d) <= Len(root)
<1>1. Cwd[o] \in Seq(Names) /\ Source[o] \in Seq(Names) /\ h \subseteq Seq(Names)
      /\ IncDirs[o] \subseteq Seq(Names)
  BY PathsAssumption, CommandsAssumption
<1>2. dirs \subseteq Seq(Names)
  BY <1>1, DirOf
<1>3. Prefixes(Cwd[o]) \subseteq Seq(Names)
      /\ \A d \in Prefixes(Cwd[o]) : Len(d) \in 0..Len(Cwd[o])
  <2>1. Len(Cwd[o]) \in Nat /\ \A i \in 1..Len(Cwd[o]) : Cwd[o][i] \in Names
    BY <1>1, LenProperties, ElementOfSeq
  <2>2. ASSUME NEW l \in 0..Len(Cwd[o])
        PROVE  SubSeq(Cwd[o], 1, l) \in Seq(Names) /\ Len(SubSeq(Cwd[o], 1, l)) = l
    <3>1. \A i \in 1..l : Cwd[o][i] \in Names
      BY <2>1
    <3>2. QED
      BY <2>1, <3>1, SubSeqProperties, Z3
  <2>3. QED
    BY <2>2 DEF Prefixes
<1>4. <<>> \in common
  <2>1. ASSUME NEW e \in dirs PROVE IsPrefix(<<>>, e)
    <3>1. e \in Seq(Names) /\ Len(e) \in Nat /\ <<>> \in Seq(Names) /\ Len(<<>>) = 0
      BY <1>2, EmptySeq, LenProperties
    <3>2. ASSUME NEW d \in Seq(Names), Len(d) = 0 PROVE IsPrefix(d, e)
      <4>1. Len(d) <= Len(e) /\ \A i \in 1..Len(d) : d[i] = e[i]
        BY <3>1, <3>2, Z3
      <4>2. QED
        BY <3>1, <4>1, PrefixOf, Zenon
    <3>3. QED
      BY <3>1, <3>2
  <2>2. <<>> = SubSeq(Cwd[o], 1, 0)
    BY SubSeqEmpty
  <2>3. 0 \in 0..Len(Cwd[o])
    BY <1>1, LenProperties
  <2>4. QED
    BY <2>1, <2>2, <2>3 DEF Prefixes
<1>5. \E root : deepest(root)
  <2> DEFINE above == {n \in Nat : \E d \in common : n = Len(Cwd[o]) - Len(d)}
  <2>1. Len(Cwd[o]) \in Nat
    BY <1>1, LenProperties
  <2>2. above # {} /\ above \subseteq Nat
    BY <1>3, <1>4, <2>1
  <2>3. PICK n \in above : \A m \in above : n <= m
    BY <2>2, LeastNatural
  <2>4. PICK root \in common : n = Len(Cwd[o]) - Len(root)
    BY <2>3
  <2>5. ASSUME NEW d \in common PROVE Len(d) <= Len(root)
    <3>1. Len(d) \in 0..Len(Cwd[o]) /\ Len(root) \in 0..Len(Cwd[o])
      BY <1>3
    <3>2. Len(Cwd[o]) - Len(d) \in above
      BY <2>1, <3>1
    <3>3. n <= Len(Cwd[o]) - Len(d)
      BY <2>3, <3>2
    <3>4. QED
      BY <2>1, <2>4, <3>1, <3>3, Z3
  <2>6. QED
    BY <2>5
<1>6. RootOf(o, h) = CHOOSE root : deepest(root)
  BY DEF RootOf
<1>7. deepest(RootOf(o, h))
  BY <1>5, <1>6
<1>8. RootOf(o, h) \in Seq(Names)
      /\ \A f \in {Source[o]} \cup h : IsPrefix(RootOf(o, h), Dir(f))
  BY <1>3, <1>7
<1>9. QED
  BY <1>1, <1>8, DirOf DEF Under

\* Below the root, paths are named by what follows it: names are of staged files,
\* and two files never share one.
LEMMA RelOf ==
    ASSUME NEW root \in Seq(Names), NEW f \in Files \cup Outs
    PROVE  /\ Under(root, f) => Rel(root, f) \in Rels /\ Rel(root, f) # Outside
           /\ ~Under(root, f) => Rel(root, f) = Outside
<1>1. f \in Seq(Names) /\ Len(f) \in Nat /\ Len(root) \in Nat
      /\ \A i \in 1..Len(f) : f[i] \in Names
  BY PathsAssumption, LenProperties, ElementOfSeq
<1>2. ~Under(root, f) => Rel(root, f) = Outside
  BY DEF Rel
<1> SUFFICES ASSUME Under(root, f)
             PROVE  Rel(root, f) \in Rels /\ Rel(root, f) # Outside
  BY <1>2
<1> DEFINE rest == SubSeq(f, Len(root) + 1, Len(f))
<1>3. Rel(root, f) = <<".">> \o rest
  BY DEF Rel
<1>4. Len(root) <= Len(f)
  BY DEF Under, IsPrefix
<1>5. rest \in Suffixes(f)
  <2>1. CASE Len(root) = Len(f)
    BY <1>1, <2>1, SubSeqEmpty DEF Suffixes
  <2>2. CASE Len(root) < Len(f)
    <3>1. Len(root) + 1 \in 1..Len(f)
      BY <1>1, <2>2
    <3>2. QED
      BY <3>1 DEF Suffixes
  <2>3. QED
    BY <1>1, <1>4, <2>1, <2>2
<1>6. rest \in Seq(Names)
  <2>1. \A i \in (Len(root) + 1)..Len(f) : f[i] \in Names
    BY <1>1
  <2>2. QED
    BY <1>1, <2>1, SubSeqProperties, Z3
<1> HIDE DEF rest
<1>7. Rel(root, f) \in Rels
  BY <1>3, <1>5 DEF Rels
<1>8. Rel(root, f)[1] = "."
  <2>1. <<".">> \in Seq(Names \cup {"."}) /\ rest \in Seq(Names \cup {"."})
        /\ Len(<<".">>) = 1 /\ <<".">>[1] = "."
    BY <1>6, SeqMonotonic
  <2>2. QED
    BY <1>3, <2>1, ConcatProperties, LenProperties
<1>9. QED
  BY <1>7, <1>8 DEF Outside

-----------------------------------------------------------------------------
\* What the type invariant needs beside itself: from the scan on a compile holds
\* a result.
ResultHeld ==
    \A p \in Procs :
        pc[p] \in StagePCs \cup {"stat", "writeOut", "writeDeps", "publish"}
            => result[p] \in Results

\* And when it takes the times of what it found, that is still there: of the
\* files a running compile may look at none is edited.
FilesThere ==
    \A p \in Procs :
        /\ pc[p] # "idle" => Exists(Source[job[p]])
        /\ pc[p] = "stat" => \A f \in Needed(job[p], result[p]) :
                                f \in Reads(job[p]) /\ Exists(f)

TreeTyped ==
    /\ file \in [Files -> Inodes \cup {NoInode}]
    /\ data \in [Inodes -> Contents]
    /\ mtime \in [Inodes -> Nat]

CacheTyped ==
    /\ scanOut \in [Keys -> Results \cup {NoResult}]
    /\ DOMAIN scanDeps = Keys /\ \A k \in Keys : IsDeps(scanDeps[k])

ProcsTyped ==
    /\ job \in [Procs -> Outs \cup {NoJob}]
    /\ result \in [Procs -> Results \cup {NoResult}]
    /\ DOMAIN deps = Procs /\ \A p \in Procs : IsDeps(deps[p])
    /\ todo \in [Procs -> SUBSET Files]
    /\ pc \in [Procs -> ScanPCs \cup StagePCs \cup {"idle", "publish"}]
    /\ \A p \in Procs : pc[p] # "idle" <=> job[p] # NoJob
    /\ ResultHeld

StagedTyped ==
    /\ DOMAIN staged = TuIds
    /\ \A t \in TuIds : /\ DOMAIN staged[t] \subseteq Rels
                         /\ staged[t] \in [DOMAIN staged[t] -> Inodes]

RestTyped ==
    /\ expr \in [Outs -> [source : Rels \cup {Outside}, dir : TuIds] \cup {NoExpr}]
    /\ settled \subseteq Outs
    /\ clock \in Nat /\ jobs \in Nat /\ faults \in Nat

TypeInv == /\ TreeTyped /\ CacheTyped /\ ProcsTyped /\ StagedTyped /\ RestTyped
           /\ FilesThere

\* TypeInv in the parts the proofs look at.
LEMMA TypeInvIsTypeOK == TypeInv <=> TypeOK /\ ResultHeld /\ FilesThere
  BY DEF TypeInv, TypeOK, ScanTypeOK, StageTypeOK, TreeTyped, CacheTyped,
         ProcsTyped, StagedTyped, RestTyped

\* A scan finds files of the tree and a root above them.
LEMMA ScanTyped ==
    ASSUME NEW o \in Outs
    PROVE  ScanOf(o) \in Results
<1>1. HeadersOf(o) \in SUBSET Files
  BY DEF HeadersOf
<1>2. QED
  BY <1>1 DEF ScanOf, Results

\* A result names files of the tree below a path.
LEMMA ResultTyped ==
    ASSUME NEW o \in Outs, NEW r \in Results
    PROVE  /\ Needed(o, r) \subseteq Files
           /\ r.root \in Seq(Names)
<1>1. PICK q \in Outs, h \in SUBSET Files : r.root = RootOf(q, h)
  BY DEF Results
<1>2. r.headers \in SUBSET Files
  BY DEF Results
<1>3. QED
  BY <1>1, <1>2, RootIsAncestor, CommandsAssumption DEF Needed

\* What a scan finds is there, and is among the files its command may look at.
LEMMA ReadByScan ==
    ASSUME NEW o \in Outs, Exists(Source[o]), data[file[Source[o]]] \in Contents,
           NEW f \in Needed(o, ScanOf(o))
    PROVE  f \in Reads(o) /\ Exists(f)
<1>1. CASE f = Source[o]
  BY <1>1 DEF Reads
<1>2. CASE f \in HeadersOf(o)
  <2>1. PICK l \in Lookups[o][data[file[Source[o]]]] :
            \E i \in DOMAIN l : l[i] = f /\ Exists(f)
    BY <1>2 DEF HeadersOf
  <2>2. QED
    BY <2>1 DEF Reads
<1>3. QED
  BY <1>1, <1>2 DEF Needed, ScanOf

\* The types hold of an empty cache.
LEMMA InitTyped == Init => TypeInv
<1> SUFFICES ASSUME Init PROVE TypeInv
  OBVIOUS
<1> USE DEF Init
<1>1. TreeTyped
  BY UnpackedAssumption DEF TreeTyped
<1>2. CacheTyped /\ StagedTyped
  BY DEF CacheTyped, StagedTyped, IsDeps, NoDeps
<1>3. ProcsTyped
  BY DEF ProcsTyped, ResultHeld, StagePCs, IsDeps, NoDeps
<1>4. RestTyped
  BY DEF RestTyped
<1>5. FilesThere
  BY DEF FilesThere
<1>6. QED
  BY <1>1, <1>2, <1>3, <1>4, <1>5 DEF TypeInv

\* A shim that is gone is as one that never ran.
LEMMA LeaveTyped ==
    ASSUME TypeInv, NEW p \in Procs, Leave(p)
    PROVE  ProcsTyped' /\ (UNCHANGED file => FilesThere')
<1>1. IsDeps(NoDeps)
  BY DEF IsDeps, NoDeps
<1>2. ProcsTyped'
  BY <1>1 DEF TypeInv, ProcsTyped, ResultHeld, Leave, Goto, StagePCs
<1>3. UNCHANGED file => FilesThere'
  BY DEF TypeInv, ProcsTyped, FilesThere, Leave, Goto, Exists, Needed
<1>4. QED
  BY <1>2, <1>3

\* A compile that starts keeps the types.
LEMMA StartTyped ==
    ASSUME TypeInv, NEW p \in Procs, NEW o \in Outs, Start(p, o)
    PROVE  TypeInv'
<1> USE DEF TypeInv, Start
<1>1. TreeTyped' /\ CacheTyped' /\ StagedTyped'
  BY DEF TreeTyped, CacheTyped, StagedTyped, treeVars, cacheVars
<1>2. ProcsTyped'
  BY CommandsAssumption DEF ProcsTyped, ResultHeld, Goto, StagePCs, ScanPCs
<1>3. RestTyped'
  BY DEF RestTyped
<1>4. FilesThere'
  BY DEF FilesThere, ProcsTyped, Goto, treeVars, Exists, Needed
<1>5. QED
  BY <1>1, <1>2, <1>3, <1>4

\* The steps of scan.Run keep the types.
LEMMA ScanningTyped ==
    ASSUME TypeInv, NEW p \in Procs, Scanning(p) \/ CacheWriteFails(p)
    PROVE  TypeInv'
<1> USE DEF TypeInv, Goto
<1>1. TreeTyped' /\ StagedTyped' /\ UNCHANGED <<todo, expr, settled, clock, jobs>>
      /\ faults' \in Nat
  BY DEF TreeTyped, StagedTyped, RestTyped, treeVars, Scanning, CacheWriteFails,
         ScanStep, ReadDeps, ReadOut, Scan, StatDeps, WriteOut, WriteDeps,
         WriteFails, Fault
<1>2. RestTyped'
  BY <1>1 DEF RestTyped
<1>3. pc[p] # "idle" /\ job[p] \in Outs /\ Key[job[p]] \in Keys
  BY DEF ProcsTyped, Keys, Scanning, CacheWriteFails, ScanStep, ReadDeps, ReadOut,
         Scan, StatDeps, WriteOut, WriteDeps, WriteFails
<1>4. FilesThere'
  <2>1. /\ UNCHANGED <<file, job>>
        /\ pc'[p] = "stat" => Scan(p)
        /\ \A q \in Procs \ {p} : pc'[q] = pc[q] /\ result'[q] = result[q]
    BY DEF ProcsTyped, treeVars, Scanning, CacheWriteFails, ScanStep, ReadDeps,
           ReadOut, Scan, StatDeps, WriteOut, WriteDeps, WriteFails
  <2>2. \A q \in Procs : pc[q] # "idle" => Exists(Source[job[q]])
    BY DEF FilesThere
  <2>3. \A q \in Procs : pc'[q] # "idle" => Exists(Source[job[q]])'
    BY <1>3, <2>1, <2>2 DEF Exists
  <2>4. ASSUME NEW q \in Procs, pc'[q] = "stat", NEW f \in Needed(job[q], result[q])'
        PROVE  f \in Reads(job[q])' /\ Exists(f)'
    <3>1. CASE q # p
      <4>1. pc[q] = "stat" /\ f \in Needed(job[q], result[q])
        BY <2>1, <2>4, <3>1 DEF Needed
      <4>2. f \in Reads(job[q]) /\ Exists(f)
        BY <4>1 DEF FilesThere
      <4>3. QED
        BY <2>1, <4>2 DEF Exists, Reads
    <3>2. CASE q = p
      <4>1. result' = [result EXCEPT ![p] = ScanOf(job[p])]
        BY <2>1, <2>4, <3>2 DEF Scan
      <4>2. f \in Needed(job[p], ScanOf(job[p]))
        BY <2>1, <2>4, <3>2, <4>1 DEF Needed, ProcsTyped
      <4>3. Source[job[p]] \in Files /\ Exists(Source[job[p]])
        BY <1>3, <2>2, CommandsAssumption
      <4>4. data[file[Source[job[p]]]] \in Contents
        BY <4>3 DEF TreeTyped, Exists
      <4>5. f \in Reads(job[p]) /\ Exists(f)
        BY <1>3, <4>2, <4>3, <4>4, ReadByScan
      <4>6. QED
        BY <2>1, <3>2, <4>5 DEF Exists, Reads
    <3>3. QED
      BY <3>1, <3>2
  <2>5. QED
    BY <2>3, <2>4 DEF FilesThere
<1>5. CASE ReadDeps(p)
  BY <1>1, <1>2, <1>3, <1>4, <1>5 DEF ReadDeps, cacheVars, CacheTyped, ProcsTyped,
     ResultHeld, ScanPCs, StagePCs
<1>6. CASE ReadOut(p)
  BY <1>1, <1>2, <1>3, <1>4, <1>6 DEF ReadOut, cacheVars, CacheTyped, ProcsTyped,
     ResultHeld, ScanPCs, StagePCs
<1>7. CASE Scan(p)
  BY <1>1, <1>2, <1>3, <1>4, <1>7, ScanTyped DEF Scan, cacheVars, CacheTyped, ProcsTyped,
     ResultHeld, ScanPCs, StagePCs
<1>8. CASE StatDeps(p)
  <2> DEFINE S == {Source[job[p]]} \cup result[p].headers
  <2>1. S \subseteq Files
    BY <1>3, <1>8, ResultTyped DEF StatDeps, ProcsTyped, ResultHeld, Needed
  <2>2. \A f \in S : Exists(f)
    BY <1>8 DEF StatDeps, FilesThere, Needed
  <2>3. IsDeps(Times(S))
    BY <2>1, <2>2 DEF IsDeps, Times, TreeTyped, Exists
  <2>4. CacheTyped'
    BY <1>8 DEF StatDeps, cacheVars, CacheTyped
  <2>5. deps' = [deps EXCEPT ![p] = Times(S)]
    BY <1>8 DEF StatDeps
  <2> HIDE DEF S
  <2>6. QED
    BY <1>1, <1>2, <1>3, <1>8, <2>3, <2>4, <2>5, <1>4 DEF StatDeps, ProcsTyped,
       ResultHeld, ScanPCs, StagePCs
<1>9. CASE WriteOut(p)
  BY <1>1, <1>2, <1>3, <1>4, <1>9 DEF WriteOut, CacheTyped, ProcsTyped,
     ResultHeld, ScanPCs, StagePCs
<1>10. CASE WriteDeps(p)
  BY <1>1, <1>2, <1>3, <1>4, <1>10 DEF WriteDeps, CacheTyped, ProcsTyped,
     ResultHeld, ScanPCs, StagePCs
<1>11. CASE WriteFails(p)
  BY <1>1, <1>2, <1>3, <1>4, <1>11 DEF WriteFails, cacheVars, CacheTyped, ProcsTyped,
     ResultHeld, ScanPCs, StagePCs
<1>12. QED
  BY <1>5, <1>6, <1>7, <1>8, <1>9, <1>10, <1>11 DEF Scanning, CacheWriteFails, ScanStep

\* A step that takes no times and edits nothing leaves in place what is there.
LEMMA StillThere ==
    ASSUME TypeInv, UNCHANGED file, NEW p \in Procs, pc'[p] # "stat",
           pc'[p] # "idle" => pc[p] # "idle" /\ job'[p] = job[p],
           \A q \in Procs \ {p} : /\ pc'[q] = pc[q] /\ job'[q] = job[q]
                                 /\ result'[q] = result[q]
    PROVE  FilesThere'
<1>1. FilesThere
  BY DEF TypeInv
<1>2. \A q \in Procs : pc'[q] # "idle" => pc[q] # "idle" /\ job'[q] = job[q]
  OBVIOUS
<1>3. \A q \in Procs : pc'[q] # "idle" => Exists(Source[job[q]])'
  BY <1>1, <1>2 DEF FilesThere, Exists
<1>4. ASSUME NEW q \in Procs, pc'[q] = "stat", NEW f \in Needed(job[q], result[q])'
      PROVE  f \in Reads(job[q])' /\ Exists(f)'
  <2>1. q # p /\ f \in Needed(job[q], result[q])
    BY <1>4 DEF Needed
  <2>2. f \in Reads(job[q]) /\ Exists(f)
    BY <1>1, <1>4, <2>1 DEF FilesThere
  <2>3. QED
    BY <2>1, <2>2 DEF Exists, Reads
<1>5. QED
  BY <1>3, <1>4 DEF FilesThere

\* Staging removes and makes links of files that are there, by their names below
\* the root.
LEMMA StagingTyped ==
    ASSUME TypeInv, NEW p \in Procs, Staging(p)
    PROVE  TypeInv'
<1> USE DEF TypeInv, Goto
<1>1. /\ UNCHANGED <<treeVars, cacheVars, expr, settled, clock, jobs, faults>>
      /\ pc[p] \in StagePCs
  BY DEF Staging, StageStep, CheckReuse, Clear, Link, StagePCs
<1>2. TreeTyped' /\ CacheTyped' /\ RestTyped'
  BY <1>1 DEF TreeTyped, CacheTyped, RestTyped, treeVars, cacheVars
<1>3. job[p] \in Outs /\ result[p] \in Results
  BY <1>1 DEF ProcsTyped, ResultHeld, StagePCs
<1>4. Needed(job[p], result[p]) \subseteq Files /\ result[p].root \in Seq(Names)
  BY <1>3, ResultTyped
<1>5. CASE CheckReuse(p)
  <2>1. ProcsTyped' /\ StagedTyped'
    BY <1>3, <1>5 DEF CheckReuse, ProcsTyped, ResultHeld, StagedTyped, StagePCs
  <2>2. FilesThere'
    BY <1>5, StillThere DEF CheckReuse, treeVars, ProcsTyped
  <2>3. QED
    BY <1>2, <2>1, <2>2
<1>6. CASE Clear(p)
  <2>1. ProcsTyped'
    BY <1>3, <1>4, <1>6 DEF Clear, ProcsTyped, ResultHeld, StagePCs
  <2>2. StagedTyped'
    <3>1. CASE UNCHANGED staged
      BY <3>1 DEF StagedTyped
    <3>2. CASE ~UNCHANGED staged
      <4>1. PICK rel \in DOMAIN staged[TuOf(p)] :
                staged' = [staged EXCEPT ![TuOf(p)] = Without(@, rel)]
        BY <1>6, <3>2 DEF Clear
      <4>2. ASSUME NEW t \in TuIds
            PROVE  /\ DOMAIN Without(staged[t], rel) \subseteq DOMAIN staged[t]
                   /\ Without(staged[t], rel)
                          \in [DOMAIN Without(staged[t], rel) -> Inodes]
        BY DEF StagedTyped, Without
      <4>3. \A t \in TuIds : staged'[t] = staged[t] \/ staged'[t] = Without(staged[t], rel)
        BY <4>1 DEF StagedTyped
      <4>4. QED
        BY <4>1, <4>2, <4>3 DEF StagedTyped
    <3>3. QED
      BY <3>1, <3>2
  <2>3. FilesThere'
    BY <1>6, StillThere DEF Clear, treeVars, ProcsTyped
  <2>4. QED
    BY <1>2, <2>1, <2>2, <2>3
<1>7. ASSUME NEW f \in todo[p], LinkOne(p, f), CanLink(p, f), pc[p] = "link"
      PROVE  ProcsTyped' /\ StagedTyped' /\ FilesThere'
  <2>1. f \in Files /\ file[f] \in Inodes
    BY <1>7 DEF ProcsTyped, TreeTyped, CanLink, Exists
  <2>2. Rel(result[p].root, f) = Outside \/ Rel(result[p].root, f) \in Rels
    BY <1>4, <2>1, RelOf
  <2>3. StagedTyped'
    <3>1. CASE staged' = staged
      BY <3>1 DEF StagedTyped
    <3>2. CASE staged' # staged
      <4>1. Rel(result[p].root, f) \in Rels
            /\ staged' = [staged EXCEPT ![TuOf(p)] =
                            With(@, Rel(result[p].root, f), file[f])]
        BY <1>7, <2>2, <3>2 DEF LinkOne
      <4>2. QED
        BY <2>1, <4>1 DEF StagedTyped, With
    <3>3. QED
      BY <3>1, <3>2
  <2>4. ProcsTyped'
    BY <1>3, <1>7 DEF LinkOne, ProcsTyped, ResultHeld, StagePCs
  <2>5. FilesThere'
    BY <1>1, <1>7, StillThere DEF LinkOne, treeVars, ProcsTyped
  <2>6. QED
    BY <2>3, <2>4, <2>5
<1>8. CASE Link(p)
  <2>1. PICK f \in todo[p] : IF CanLink(p, f) THEN LinkOne(p, f)
                              ELSE Leave(p) /\ UNCHANGED staged
    BY <1>8 DEF Link
  <2>2. CASE CanLink(p, f)
    BY <1>2, <1>7, <1>8, <2>1, <2>2 DEF Link
  <2>3. CASE ~CanLink(p, f)
    <3>1. Leave(p) /\ UNCHANGED staged /\ UNCHANGED file
      BY <1>1, <2>1, <2>3 DEF treeVars
    <3>2. ProcsTyped' /\ FilesThere'
      BY <3>1, LeaveTyped
    <3>3. QED
      BY <1>2, <3>1, <3>2 DEF StagedTyped
  <2>4. QED
    BY <2>2, <2>3
<1>9. QED
  BY <1>5, <1>6, <1>8 DEF Staging, StageStep

\* The expression names a directory of staged files and the source's name in it.
LEMMA PublishTyped ==
    ASSUME TypeInv, NEW p \in Procs, Publish(p)
    PROVE  TypeInv'
<1> USE DEF TypeInv
<1>1. /\ UNCHANGED <<treeVars, cacheVars, staged, clock, jobs, faults>>
      /\ pc[p] = "publish" /\ Leave(p) /\ UNCHANGED file
  BY DEF Publish, treeVars
<1>2. TreeTyped' /\ CacheTyped' /\ StagedTyped'
  BY <1>1 DEF TreeTyped, CacheTyped, StagedTyped, treeVars, cacheVars
<1>3. ProcsTyped' /\ FilesThere'
  BY <1>1, LeaveTyped
<1>4. job[p] \in Outs /\ result[p] \in Results
  BY <1>1 DEF ProcsTyped, ResultHeld
<1>5. result[p].root \in Seq(Names) /\ Source[job[p]] \in Files
  BY <1>4, ResultTyped, CommandsAssumption
<1>6. /\ Rel(result[p].root, Source[job[p]]) \in Rels \cup {Outside}
      /\ TuOf(p) \in TuIds
  BY <1>4, <1>5, RelOf DEF TuOf, TuKey, TuIds
<1>7. RestTyped'
  BY <1>1, <1>4, <1>6 DEF RestTyped, Publish
<1>8. QED
  BY <1>2, <1>3, <1>7

\* A compile that is killed or fails keeps the types.
LEMMA StopTyped ==
    ASSUME TypeInv, NEW p \in Procs, Stop(p)
    PROVE  TypeInv'
<1>1. /\ UNCHANGED <<treeVars, cacheVars, staged, expr, settled, clock, jobs>>
      /\ UNCHANGED file /\ Leave(p) /\ faults' = faults + 1
  BY DEF Stop, Fault, treeVars
<1>2. ProcsTyped' /\ FilesThere'
  BY <1>1, LeaveTyped
<1>3. QED
  BY <1>1, <1>2 DEF TypeInv, TreeTyped, CacheTyped, StagedTyped, RestTyped,
                    treeVars, cacheVars

\* An edit gives a file an inode of the file system, or none, and leaves alone what
\* running compiles may look at.
LEMMA EditTyped ==
    ASSUME TypeInv, NEW f \in Files,
           EditInPlace(f) \/ EditByRename(f) \/ CreateFile(f) \/ DeleteFile(f)
    PROVE  TypeInv'
<1> USE DEF TypeInv, NoInode
<1>1. /\ UNCHANGED <<cacheVars, procVars, staged, expr, jobs, faults>>
      /\ clock' = clock + 1 /\ settled' \subseteq settled /\ Quiet(f)
  BY DEF EditInPlace, EditByRename, CreateFile, DeleteFile, Touch
<1>2. Versions[f] \subseteq Contents
  BY UnpackedAssumption
<1>3. TreeTyped' /\ \A g \in Files \ {f} : file'[g] = file[g]
  <2>1. CASE EditInPlace(f)
    BY <1>1, <1>2, <2>1 DEF EditInPlace, TreeTyped, Exists, RestTyped
  <2>2. CASE EditByRename(f) \/ CreateFile(f)
    <3>1. PICK c \in Contents, i \in Inodes :
              /\ file' = [file EXCEPT ![f] = i]
              /\ data' = [data EXCEPT ![i] = c]
              /\ mtime' = [mtime EXCEPT ![i] = clock']
      BY <1>2, <2>2 DEF EditByRename, CreateFile, PutNew, Free
    <3>2. QED
      BY <1>1, <3>1 DEF TreeTyped, RestTyped
  <2>3. CASE DeleteFile(f)
    BY <2>3 DEF DeleteFile, TreeTyped
  <2>4. QED
    BY <2>1, <2>2, <2>3
<1>4. CacheTyped' /\ ProcsTyped' /\ StagedTyped' /\ RestTyped'
  BY <1>1 DEF CacheTyped, ProcsTyped, ResultHeld, StagedTyped, RestTyped, cacheVars,
              procVars
<1>5. FilesThere'
  <2>1. ASSUME NEW q \in Procs, pc[q] # "idle", NEW g \in Files, g \in Reads(job[q]),
               Exists(g)
        PROVE  Exists(g)'
    BY <1>1, <1>3, <2>1 DEF Quiet, Exists
  <2>2. \A q \in Procs : pc[q] # "idle" => job[q] \in Outs
    BY DEF ProcsTyped
  <2>3. ASSUME NEW q \in Procs, pc[q] # "idle"
        PROVE  Exists(Source[job[q]])'
    <3>1. Source[job[q]] \in Files /\ Source[job[q]] \in Reads(job[q])
      BY <2>2, <2>3, CommandsAssumption DEF Reads
    <3>2. Exists(Source[job[q]])
      BY <2>3 DEF FilesThere
    <3>3. PICK g : g = Source[job[q]]
      OBVIOUS
    <3>4. Exists(g)'
      BY <2>1, <2>3, <3>1, <3>2, <3>3
    <3>5. QED
      BY <1>1, <3>3, <3>4 DEF Exists, procVars
  <2>4. ASSUME NEW q \in Procs, pc[q] = "stat", NEW g \in Needed(job[q], result[q])
        PROVE  g \in Reads(job[q]) /\ Exists(g)'
    <3>1. g \in Reads(job[q]) /\ Exists(g)
      BY <2>4 DEF FilesThere
    <3>2. g \in Files
      BY <2>2, <2>4, ResultTyped DEF ProcsTyped, ResultHeld
    <3>3. QED
      BY <2>1, <2>4, <3>1, <3>2
  <2>5. QED
    BY <1>1, <2>3, <2>4 DEF FilesThere, Needed, Reads, procVars
<1>6. QED
  BY <1>3, <1>4, <1>5

\* Every step keeps the types.
LEMMA NextTyped == TypeInv /\ [Next]_vars => TypeInv'
<1> SUFFICES ASSUME TypeInv, [Next]_vars PROVE TypeInv'
  OBVIOUS
<1>1. CASE UNCHANGED vars
  BY <1>1 DEF TypeInv, TreeTyped, CacheTyped, ProcsTyped, ResultHeld, StagedTyped,
              RestTyped, FilesThere, Exists, Needed, Reads, vars, treeVars, cacheVars,
              procVars
<1>2. QED
  BY <1>1, StartTyped, ScanningTyped, StagingTyped, PublishTyped, StopTyped,
     EditTyped DEF Next

\* In every behaviour of any number of compiles, edits, failures and kills the
\* variables of Compile have their types: recorded times are times, staged names
\* are names below a project root and staged inodes are files' own.
THEOREM TypeCorrect == Spec => []TypeOK
<1>1. TypeInv => TypeOK
  BY TypeInvIsTypeOK
<1>2. QED
  BY InitTyped, NextTyped, <1>1, PTL DEF Spec

-----------------------------------------------------------------------------
\* No two compiles have one output: make sees to it.
OneEach == \A p, q \in Procs : job[p] = job[q] /\ job[p] # NoJob => p = q

\* A directory holds links of the files of S, and nothing else.
HoldsFiles(t, root, S) ==
    /\ DOMAIN staged[t] = {Rel(root, f) : f \in S}
    /\ \A f \in S : staged[t][Rel(root, f)] = file[f]

\* While links are made, those of the files that are not to be linked any more are
\* there; before the expression is published, all are.
StagingOK(p) ==
    /\ pc[p] = "link" =>
           /\ todo[p] \subseteq Needed(job[p], result[p])
           /\ HoldsFiles(TuOf(p), result[p].root, Needed(job[p], result[p]) \ todo[p])
    /\ pc[p] = "publish" =>
           HoldsFiles(TuOf(p), result[p].root, Needed(job[p], result[p]))

\* A settled command is not being compiled, its source is there, and its expression
\* and the directory that names are those of a scan of it now.
SettledOK(o) ==
    LET r == ScanOf(o)
    IN  /\ \A p \in Procs : job[p] # o
        /\ Exists(Source[o])
        /\ expr[o] = [source |-> Rel(r.root, Source[o]), dir |-> TuKey(o, r.root)]
        /\ HoldsFiles(TuKey(o, r.root), r.root, Needed(o, r))

StageInv ==
    /\ IInv /\ TypeInv /\ OneEach
    /\ \A p \in Procs : StagingOK(p)
    /\ \A o \in settled : SettledOK(o)

\* What is settled and covered by the invariant is what BuildsOwnSources asks for.
LEMMA StageInvSuffices == StageInv => BuildsOwnSources
<1> SUFFICES ASSUME StageInv PROVE BuildsOwnSources
  OBVIOUS
<1>1. ASSUME NEW o \in settled, NEW r, r = ScanOf(o)
      PROVE  /\ expr[o].source = Rel(r.root, Source[o])
             /\ DOMAIN staged[expr[o].dir] = RelNeeded(o, r)
             /\ \A f \in Needed(o, r) : staged[expr[o].dir][Rel(r.root, f)] = file[f]
  <2>1. SettledOK(o)
    BY DEF StageInv
  <2>2. /\ expr[o] = [source |-> Rel(r.root, Source[o]), dir |-> TuKey(o, r.root)]
        /\ HoldsFiles(TuKey(o, r.root), r.root, Needed(o, r))
    BY <1>1, <2>1 DEF SettledOK
  <2>3. expr[o].source = Rel(r.root, Source[o]) /\ expr[o].dir = TuKey(o, r.root)
    BY <2>2
  <2>4. QED
    BY <2>2, <2>3 DEF HoldsFiles, RelNeeded
<1>2. QED
  BY <1>1 DEF BuildsOwnSources

\* A compile that stages has the result of a scan of its sources, which are there
\* and below its root; it stages under a tu-id of its own output.
LEMMA Stages ==
    ASSUME IInv, TypeInv, NEW p \in Procs, pc[p] \in StagePCs \cup {"publish"}
    PROVE  /\ job[p] \in Outs /\ result[p] = ScanOf(job[p])
           /\ Exists(Source[job[p]]) /\ result[p].root \in Seq(Names)
           /\ Needed(job[p], result[p]) \subseteq Files
           /\ \A f \in Needed(job[p], result[p]) : Under(result[p].root, f)
           /\ TuOf(p) \in TuKeys(job[p]) /\ TuOf(p) \in TuIds
           /\ DOMAIN staged[TuOf(p)] \subseteq Rels
<1>1. /\ job[p] \in Outs /\ result[p] = ScanOf(job[p])
      /\ Exists(Source[job[p]])
  BY DEF IInv, CacheTypeOK, WritersOK, WriterOK, ResultIsCurrent, StagePCs
<1>2. PICK o : o = job[p]
  OBVIOUS
<1>3. HeadersOf(o) \in SUBSET Files
  BY DEF HeadersOf
<1>4. result[p] = [root |-> RootOf(o, HeadersOf(o)), headers |-> HeadersOf(o)]
  BY <1>1, <1>2 DEF ScanOf
<1>5. /\ result[p].root = RootOf(o, HeadersOf(o)) /\ result[p].headers = HeadersOf(o)
      /\ o \in Outs /\ Source[o] \in Files
  BY <1>1, <1>2, <1>4, CommandsAssumption
<1>6. /\ RootOf(o, HeadersOf(o)) \in Seq(Names)
      /\ \A f \in {Source[o]} \cup HeadersOf(o) : Under(RootOf(o, HeadersOf(o)), f)
  BY <1>3, <1>5, RootIsAncestor
<1>7. TuOf(p) \in TuKeys(job[p])
  BY <1>2, <1>3, <1>5 DEF TuOf, TuKeys
<1>8. TuOf(p) \in TuIds
  BY <1>2, <1>5, <1>6, RelOf DEF TuOf, TuKey, TuIds
<1>9. QED
  BY <1>1, <1>2, <1>3, <1>5, <1>6, <1>7, <1>8 DEF Needed, TypeInv, StagedTyped

\* The same of a settled command.
LEMMA Settled ==
    ASSUME NEW o \in Outs
    PROVE  /\ TuKey(o, ScanOf(o).root) \in TuKeys(o)
           /\ TuKey(o, ScanOf(o).root) \in TuIds
<1>1. HeadersOf(o) \in SUBSET Files
  BY DEF HeadersOf
<1>2. ScanOf(o).root = RootOf(o, HeadersOf(o))
  BY DEF ScanOf
<1>3. RootOf(o, HeadersOf(o)) \in Seq(Names)
  BY <1>1, RootIsAncestor
<1>4. QED
  BY <1>1, <1>2, <1>3, RelOf DEF TuKeys, TuKey, TuIds

\* Two files below a root have names of their own there.
LEMMA RelInjective ==
    ASSUME NEW root \in Seq(Names), NEW f \in Files, NEW g \in Files,
           Under(root, f), Under(root, g), Rel(root, f) = Rel(root, g)
    PROVE  f = g
<1> DEFINE n == Len(root)
           F == SubSeq(f, n + 1, Len(f))
           G == SubSeq(g, n + 1, Len(g))
<1>1. /\ f \in Seq(Names) /\ Len(f) \in Nat /\ \A i \in 1..Len(f) : f[i] \in Names
      /\ g \in Seq(Names) /\ Len(g) \in Nat /\ \A i \in 1..Len(g) : g[i] \in Names
      /\ n \in Nat
  BY PathsAssumption, LenProperties, ElementOfSeq
<1>2. /\ n <= Len(f) /\ \A i \in 1..n : root[i] = f[i]
      /\ n <= Len(g) /\ \A i \in 1..n : root[i] = g[i]
  BY <1>1, PrefixOf DEF Under
<1>3. /\ F \in Seq(Names) /\ Len(F) = Len(f) - n
      /\ \A i \in 1..(Len(f) - n) : F[i] = f[n + i]
  <2>1. \A i \in (n + 1)..Len(f) : f[i] \in Names
    BY <1>1
  <2>2. /\ F \in Seq(Names) /\ Len(F) = IF n + 1 <= Len(f) THEN Len(f) - (n + 1) + 1 ELSE 0
        /\ \A i \in 1..(Len(f) - (n + 1) + 1) : F[i] = f[(n + 1) + i - 1]
    <3> HIDE DEF n
    <3>1. QED
      BY <1>1, <2>1, SubSeqProperties, Z3
  <2> HIDE DEF F, n
  <2>3. QED
    BY <1>1, <1>2, <2>2, Z3
<1>4. /\ G \in Seq(Names) /\ Len(G) = Len(g) - n
      /\ \A i \in 1..(Len(g) - n) : G[i] = g[n + i]
  <2>1. \A i \in (n + 1)..Len(g) : g[i] \in Names
    BY <1>1
  <2>2. /\ G \in Seq(Names) /\ Len(G) = IF n + 1 <= Len(g) THEN Len(g) - (n + 1) + 1 ELSE 0
        /\ \A i \in 1..(Len(g) - (n + 1) + 1) : G[i] = g[(n + 1) + i - 1]
    <3> HIDE DEF n
    <3>1. QED
      BY <1>1, <2>1, SubSeqProperties, Z3
  <2> HIDE DEF G, n
  <2>3. QED
    BY <1>1, <1>2, <2>2, Z3
<1>5. F = G
  <2>1. <<".">> \o F = <<".">> \o G
    BY DEF Rel
  <2> HIDE DEF F, G
  <2>2. /\ <<".">> \in Seq(Names \cup {"."})
        /\ F \in Seq(Names \cup {"."}) /\ G \in Seq(Names \cup {"."})
    BY <1>3, <1>4, SeqMonotonic
  <2>3. QED
    BY <2>1, <2>2, ConcatSimplifications
<1> HIDE DEF F, G, n
<1>6. Len(f) = Len(g)
  BY <1>1, <1>2, <1>3, <1>4, <1>5
<1>7. ASSUME NEW i \in 1..Len(f) PROVE f[i] = g[i]
  <2>1. CASE i <= n
    BY <1>1, <1>2, <2>1
  <2>2. CASE i > n
    <3>1. i - n \in 1..(Len(f) - n) /\ n + (i - n) = i
      BY <1>1, <1>2, <2>2
    <3>2. QED
      BY <1>3, <1>4, <1>5, <1>6, <3>1
  <2>3. QED
    BY <1>1, <2>1, <2>2
<1>8. QED
  BY <1>1, <1>6, <1>7, SeqEqual

\* A step of one compile: directories of other compiles and of settled commands are
\* not its own, so what is staged for them stays.
LEMMA OneStep ==
    ASSUME DistinctTus, StageInv, UNCHANGED treeVars, NEW p \in Procs,
           \A q \in Procs \ {p} : /\ pc'[q] = pc[q] /\ job'[q] = job[q]
                                 /\ result'[q] = result[q] /\ todo'[q] = todo[q],
           job'[p] \in {job[p], NoJob} \/ \A q \in Procs : job[q] # job'[p],
           \/ staged' = staged
           \/ /\ pc[p] \in StagePCs
              /\ \A t \in TuIds \ {TuOf(p)} : staged'[t] = staged[t],
           \A o \in settled : expr'[o] = expr[o],
           StagingOK(p)'
    PROVE  /\ OneEach' /\ \A q \in Procs : StagingOK(q)'
           /\ \A o \in settled : job'[p] # o => SettledOK(o)'
<1>1. OneEach'
  BY DEF StageInv, OneEach
<1>2. ASSUME NEW q \in Procs \ {p} PROVE StagingOK(q)'
  <2>1. StagingOK(q)
    BY DEF StageInv
  <2>2. TuOf(q)' = TuOf(q) /\ Needed(job[q], result[q])' = Needed(job[q], result[q])
    BY DEF TuOf, Needed
  <2>3. ASSUME pc[q] \in {"link", "publish"}
        PROVE  staged'[TuOf(q)] = staged[TuOf(q)]
    <3>1. CASE staged' = staged
      BY <3>1
    <3>2. CASE /\ pc[p] \in StagePCs
               /\ \A t \in TuIds \ {TuOf(p)} : staged'[t] = staged[t]
      <4>1. /\ job[q] \in Outs /\ TuOf(q) \in TuKeys(job[q]) /\ TuOf(q) \in TuIds
        BY <2>3, Stages DEF StageInv, StagePCs
      <4>2. job[p] \in Outs /\ TuOf(p) \in TuKeys(job[p])
        BY <3>2, Stages DEF StageInv
      <4>3. job[p] # job[q]
        BY <4>1, CommandsAssumption DEF StageInv, OneEach
      <4>4. TuOf(p) # TuOf(q)
        BY <4>1, <4>2, <4>3 DEF DistinctTus
      <4>5. QED
        BY <3>2, <4>1, <4>4
    <3>3. QED
      BY <3>1, <3>2
  <2>4. QED
    BY <2>1, <2>2, <2>3 DEF StagingOK, HoldsFiles, treeVars
<1>3. ASSUME NEW o \in settled, job'[p] # o PROVE SettledOK(o)'
  <2>1. PICK r : r = ScanOf(o)
    OBVIOUS
  <2>2. ScanOf(o)' = r
    BY <2>1, TreeUnchanged
  <2>3. /\ \A q \in Procs : job[q] # o
        /\ Exists(Source[o])
        /\ expr[o] = [source |-> Rel(r.root, Source[o]), dir |-> TuKey(o, r.root)]
        /\ HoldsFiles(TuKey(o, r.root), r.root, Needed(o, r))
        /\ o \in Outs
    BY <2>1 DEF StageInv, SettledOK, TypeInv, RestTyped
  <2>4. staged'[TuKey(o, r.root)] = staged[TuKey(o, r.root)]
    <3>1. CASE staged' = staged
      BY <3>1
    <3>2. CASE /\ pc[p] \in StagePCs
               /\ \A t \in TuIds \ {TuOf(p)} : staged'[t] = staged[t]
      <4>1. TuKey(o, r.root) \in TuKeys(o) /\ TuKey(o, r.root) \in TuIds
        BY <2>1, <2>3, Settled
      <4>2. job[p] \in Outs /\ TuOf(p) \in TuKeys(job[p])
        BY <3>2, Stages DEF StageInv
      <4>3. TuOf(p) # TuKey(o, r.root)
        BY <2>3, <4>1, <4>2 DEF DistinctTus
      <4>4. QED
        BY <3>2, <4>1, <4>3
    <3>3. QED
      BY <3>1, <3>2
  <2>5. HoldsFiles(TuKey(o, r.root), r.root, Needed(o, r))'
    BY <2>3, <2>4 DEF HoldsFiles, treeVars, Needed
  <2>6. /\ \A q \in Procs : job'[q] # o
        /\ Exists(Source[o])' /\ expr'[o] = expr[o]
    BY <1>3, <2>3 DEF Exists, treeVars
  <2>7. QED
    BY <2>2, <2>3, <2>5, <2>6 DEF SettledOK, HoldsFiles, Needed
<1>4. QED
  BY <1>1, <1>2, <1>3

\* The scan, and the failure to record it, stage nothing.
LEMMA ScanningStages ==
    ASSUME DistinctTus, StageInv, NEW p \in Procs, Scanning(p) \/ CacheWriteFails(p),
           IInv', TypeInv'
    PROVE  StageInv'
<1>1. /\ UNCHANGED <<treeVars, job, todo, staged, expr, settled>>
      /\ pc'[p] \notin {"link", "publish"}
      /\ \A q \in Procs \ {p} : pc'[q] = pc[q] /\ result'[q] = result[q]
  BY DEF StageInv, TypeInv, ProcsTyped, Scanning, CacheWriteFails, ScanStep, ReadDeps,
         ReadOut, Scan, StatDeps, WriteOut, WriteDeps, WriteFails, Goto, treeVars
<1>2. StagingOK(p)'
  BY <1>1 DEF StagingOK
<1>3. /\ OneEach' /\ \A q \in Procs : StagingOK(q)'
      /\ \A o \in settled : job'[p] # o => SettledOK(o)'
  BY <1>1, <1>2, OneStep
<1>4. \A o \in settled : job'[p] # o
  BY <1>1 DEF StageInv, SettledOK
<1>5. QED
  BY <1>1, <1>3, <1>4 DEF StageInv

\* A compile that starts unsettles its own output only.
LEMMA StartStages ==
    ASSUME DistinctTus, StageInv, NEW p \in Procs, NEW o \in Outs, Start(p, o),
           IInv', TypeInv'
    PROVE  StageInv'
<1>1. /\ UNCHANGED <<treeVars, result, todo, staged, expr>> /\ settled' = settled \ {o}
      /\ pc'[p] = "deps" /\ job'[p] = o /\ \A q \in Procs : job[q] # o
      /\ \A q \in Procs \ {p} : pc'[q] = pc[q] /\ job'[q] = job[q]
  BY DEF StageInv, TypeInv, ProcsTyped, Start, Goto
<1>2. StagingOK(p)'
  BY <1>1 DEF StagingOK
<1>3. /\ OneEach' /\ \A q \in Procs : StagingOK(q)'
      /\ \A i \in settled : job'[p] # i => SettledOK(i)'
  BY <1>1, <1>2, OneStep
<1>4. QED
  BY <1>1, <1>3 DEF StageInv

\* A shim that leaves has nothing staged to account for.
LEMMA LeaveStages ==
    ASSUME DistinctTus, StageInv, NEW p \in Procs, Leave(p), IInv', TypeInv',
           UNCHANGED <<treeVars, staged, expr, settled>>
    PROVE  StageInv'
<1>1. /\ pc'[p] = "idle" /\ job'[p] = NoJob
      /\ \A q \in Procs \ {p} : /\ pc'[q] = pc[q] /\ job'[q] = job[q]
                                /\ result'[q] = result[q] /\ todo'[q] = todo[q]
  BY DEF StageInv, TypeInv, ProcsTyped, Leave, Goto
<1>2. StagingOK(p)'
  BY <1>1 DEF StagingOK
<1>3. /\ OneEach' /\ \A q \in Procs : StagingOK(q)'
      /\ \A o \in settled : job'[p] # o => SettledOK(o)'
  BY <1>1, <1>2, OneStep
<1>4. \A o \in settled : job'[p] # o
  BY <1>1, CommandsAssumption DEF StageInv, TypeInv, RestTyped
<1>5. QED
  BY <1>3, <1>4 DEF StageInv

\* A directory is kept only if it holds what it would be filled with.
LEMMA ReuseStages ==
    ASSUME StageInv, NEW p \in Procs, CheckReuse(p)
    PROVE  StagingOK(p)'
<1>1. /\ UNCHANGED <<treeVars, job, result, todo, staged>>
      /\ pc'[p] = IF ReuseOK(p) THEN "publish" ELSE "clear"
  BY DEF StageInv, TypeInv, ProcsTyped, CheckReuse, Goto
<1>2. CASE ReuseOK(p)
  <2>1. HoldsFiles(TuOf(p), result[p].root, Needed(job[p], result[p]))
    BY <1>2 DEF ReuseOK, SameInodes, SameNames, HoldsInode, RelNeeded, HoldsFiles
  <2>2. QED
    BY <1>1, <1>2, <2>1 DEF StagingOK, HoldsFiles, TuOf, Needed, treeVars
<1>3. CASE ~ReuseOK(p)
  BY <1>1, <1>3 DEF StagingOK
<1>4. QED
  BY <1>2, <1>3

\* Linking starts in an empty directory.
LEMMA ClearStages ==
    ASSUME StageInv, NEW p \in Procs, Clear(p)
    PROVE  StagingOK(p)'
<1>1. /\ UNCHANGED <<treeVars, job, result>> /\ pc[p] = "clear"
  BY DEF Clear
<1>2. CASE DOMAIN staged[TuOf(p)] = {}
  <2>1. /\ pc'[p] = "link" /\ todo'[p] = Needed(job[p], result[p]) /\ UNCHANGED staged
    BY <1>2 DEF StageInv, TypeInv, ProcsTyped, Clear, Goto
  <2>2. HoldsFiles(TuOf(p), result[p].root, {})
    BY <1>2 DEF HoldsFiles
  <2>3. QED
    BY <1>1, <2>1, <2>2 DEF StagingOK, HoldsFiles, TuOf, Needed, treeVars
<1>3. CASE DOMAIN staged[TuOf(p)] # {}
  BY <1>1, <1>3 DEF Clear, StagingOK
<1>4. QED
  BY <1>2, <1>3

\* One link more: under a name no other of the files has.
LEMMA LinkStages ==
    ASSUME StageInv, NEW p \in Procs, pc[p] = "link", UNCHANGED treeVars,
           NEW f \in todo[p], LinkOne(p, f)
    PROVE  StagingOK(p)'
<1> DEFINE root == result[p].root
           t == TuOf(p)
           All == Needed(job[p], result[p])
           rel == Rel(root, f)
<1>1. /\ todo[p] \subseteq All /\ HoldsFiles(t, root, All \ todo[p])
  BY DEF StageInv, StagingOK
<1>2. /\ root \in Seq(Names) /\ All \subseteq Files /\ t \in TuIds
      /\ \A g \in All : Under(root, g)
  BY Stages DEF StageInv, StagePCs
<1>3. f \in All /\ f \in Files /\ Under(root, f)
  BY <1>1, <1>2
<1>4. rel # Outside
  BY <1>2, <1>3, RelOf
<1>5. /\ todo'[p] = todo[p] \ {f} /\ UNCHANGED <<file, job, result>>
      /\ staged' = [staged EXCEPT ![t] = With(@, rel, file[f])]
      /\ pc'[p] = IF todo[p] = {f} THEN "publish" ELSE "link"
  BY <1>4 DEF StageInv, TypeInv, ProcsTyped, LinkOne, Goto, treeVars
<1>6. staged'[t] = With(staged[t], rel, file[f])
  BY <1>2, <1>5 DEF StageInv, TypeInv, StagedTyped
<1>7. ASSUME NEW g \in All \ todo[p] PROVE Rel(root, g) # rel
  BY <1>2, <1>3, RelInjective
<1> HIDE DEF root, t, All, rel
<1>8. DOMAIN staged'[t] = {Rel(root, g) : g \in (All \ todo[p]) \cup {f}}
  BY <1>1, <1>6 DEF HoldsFiles, With, rel
<1>9. \A g \in (All \ todo[p]) \cup {f} : staged'[t][Rel(root, g)] = file[g]
  BY <1>1, <1>6, <1>7 DEF HoldsFiles, With, rel
<1>10. All \ todo'[p] = (All \ todo[p]) \cup {f}
  BY <1>3, <1>5
<1>11. /\ DOMAIN staged'[t] = {Rel(root, g) : g \in All \ todo'[p]}
       /\ \A g \in All \ todo'[p] : staged'[t][Rel(root, g)] = file'[g]
       /\ todo'[p] \subseteq All
       /\ pc'[p] = "publish" => All \ todo'[p] = All
  BY <1>1, <1>5, <1>8, <1>9, <1>10
<1>12. /\ TuOf(p)' = t /\ result'[p].root = root /\ Needed(job[p], result[p])' = All
  BY <1>5 DEF TuOf, Needed, t, root, All
<1>13. QED
  BY <1>5, <1>11, <1>12 DEF StagingOK, HoldsFiles

\* The steps that clear and fill a directory keep what is known of it.
LEMMA StagingStages ==
    ASSUME DistinctTus, StageInv, NEW p \in Procs, Staging(p), IInv', TypeInv'
    PROVE  StageInv'
<1>1. /\ UNCHANGED <<treeVars, expr, settled>> /\ pc[p] \in StagePCs
  BY DEF Staging, StageStep, CheckReuse, Clear, Link, StagePCs
<1>2. ASSUME StagingOK(p)', UNCHANGED <<job, result>>,
             \A q \in Procs \ {p} : pc'[q] = pc[q] /\ todo'[q] = todo[q],
             \A t \in TuIds \ {TuOf(p)} : staged'[t] = staged[t]
      PROVE  StageInv'
  <2>1. /\ OneEach' /\ \A q \in Procs : StagingOK(q)'
        /\ \A o \in settled : job'[p] # o => SettledOK(o)'
    BY <1>1, <1>2, OneStep
  <2>2. \A o \in settled : job'[p] # o
    BY <1>2 DEF StageInv, SettledOK
  <2>3. QED
    BY <1>1, <2>1, <2>2 DEF StageInv
<1>3. CASE CheckReuse(p)
  <2>1. /\ UNCHANGED <<job, result, staged>>
        /\ \A q \in Procs \ {p} : pc'[q] = pc[q] /\ todo'[q] = todo[q]
    BY <1>3 DEF StageInv, TypeInv, ProcsTyped, CheckReuse, Goto
  <2>2. QED
    BY <1>2, <1>3, <2>1, ReuseStages
<1>4. CASE Clear(p)
  <2>1. /\ UNCHANGED <<job, result>>
        /\ \A q \in Procs \ {p} : pc'[q] = pc[q] /\ todo'[q] = todo[q]
        /\ \A t \in TuIds \ {TuOf(p)} : staged'[t] = staged[t]
    BY <1>4 DEF StageInv, TypeInv, ProcsTyped, StagedTyped, Clear, Goto
  <2>2. QED
    BY <1>2, <1>4, <2>1, ClearStages
<1>5. ASSUME NEW f \in todo[p], LinkOne(p, f), pc[p] = "link"
      PROVE  StageInv'
  <2>1. /\ UNCHANGED <<job, result>>
        /\ \A q \in Procs \ {p} : pc'[q] = pc[q] /\ todo'[q] = todo[q]
        /\ \A t \in TuIds \ {TuOf(p)} : staged'[t] = staged[t]
    BY <1>5 DEF StageInv, TypeInv, ProcsTyped, StagedTyped, LinkOne, Goto
  <2>2. StagingOK(p)'
    BY <1>1, <1>5, LinkStages
  <2>3. QED
    BY <1>2, <2>1, <2>2
<1>6. CASE Link(p)
  <2>1. PICK f \in todo[p] : IF CanLink(p, f) THEN LinkOne(p, f)
                              ELSE Leave(p) /\ UNCHANGED staged
    BY <1>6 DEF Link
  <2>2. CASE LinkOne(p, f)
    BY <1>5, <1>6, <2>2 DEF Link
  <2>3. CASE Leave(p) /\ UNCHANGED staged
    BY <1>1, <2>3, LeaveStages
  <2>4. QED
    BY <2>1, <2>2, <2>3
<1>7. QED
  BY <1>3, <1>4, <1>6 DEF Staging, StageStep

\* What is published names the directory as it was filled.
LEMMA PublishStages ==
    ASSUME DistinctTus, StageInv, NEW p \in Procs, Publish(p), IInv', TypeInv'
    PROVE  StageInv'
<1>1. PICK o : o = job[p]
  OBVIOUS
<1>2. PICK r : r = ScanOf(o)
  OBVIOUS
<1>3. /\ UNCHANGED <<treeVars, staged>> /\ pc[p] = "publish"
      /\ settled' = settled \cup {o}
      /\ pc'[p] = "idle" /\ job'[p] = NoJob
      /\ \A q \in Procs \ {p} : /\ pc'[q] = pc[q] /\ job'[q] = job[q]
                                /\ result'[q] = result[q] /\ todo'[q] = todo[q]
  BY <1>1 DEF StageInv, TypeInv, ProcsTyped, Publish, Leave, Goto
<1>4. /\ o \in Outs /\ result[p] = r /\ Exists(Source[o])
  BY <1>1, <1>2, <1>3, Stages DEF StageInv
<1>5. HoldsFiles(TuKey(o, r.root), r.root, Needed(o, r))
  BY <1>1, <1>3, <1>4 DEF StageInv, StagingOK, TuOf
<1>6. o \notin settled
  BY <1>1 DEF StageInv, SettledOK
<1>7. /\ expr'[o] = [source |-> Rel(r.root, Source[o]), dir |-> TuKey(o, r.root)]
      /\ \A q \in settled : expr'[q] = expr[q]
  BY <1>1, <1>4, <1>6 DEF StageInv, TypeInv, RestTyped, Publish, TuOf
<1>8. StagingOK(p)'
  BY <1>3 DEF StagingOK
<1>9. /\ OneEach' /\ \A q \in Procs : StagingOK(q)'
      /\ \A q \in settled : job'[p] # q => SettledOK(q)'
  BY <1>3, <1>7, <1>8, OneStep
<1>10. \A q \in settled : job'[p] # q
  BY <1>3, CommandsAssumption DEF StageInv, TypeInv, RestTyped
<1>11. SettledOK(o)'
  <2>1. ScanOf(o)' = r /\ Exists(Source[o])'
    BY <1>2, <1>3, <1>4, TreeUnchanged
  <2>2. HoldsFiles(TuKey(o, r.root), r.root, Needed(o, r))'
    BY <1>3, <1>5 DEF HoldsFiles, treeVars, Needed
  <2>3. \A q \in Procs : job'[q] # o
    BY <1>1, <1>3, <1>4, CommandsAssumption DEF StageInv, OneEach
  <2>4. QED
    BY <1>7, <2>1, <2>2, <2>3 DEF SettledOK, HoldsFiles, Needed
<1>12. QED
  BY <1>3, <1>9, <1>10, <1>11 DEF StageInv

\* An edit unsettles the commands that may look at the file; no other command, and no
\* running compile, has it staged.
LEMMA EditStages ==
    ASSUME NoNewHeaders, StageInv, NEW f \in Files,
           EditInPlace(f) \/ EditByRename(f) \/ CreateFile(f) \/ DeleteFile(f),
           IInv', TypeInv'
    PROVE  StageInv'
<1>1. /\ UNCHANGED <<pc, job, result, todo, staged, expr>>
      /\ settled' = {o \in settled : f \notin Reads(o)}
  BY DEF EditInPlace, EditByRename, CreateFile, DeleteFile, Touch, procVars
<1>2. EditOf(f)
  BY Edits DEF StageInv
<1>3. \A g \in Files \ {f} : file'[g] = file[g]
  BY <1>2 DEF EditOf
<1>4. OneEach'
  BY <1>1 DEF StageInv, OneEach
<1>5. ASSUME NEW o \in Outs, Exists(Source[o])
      PROVE  Needed(o, ScanOf(o)) \subseteq Reads(o)
  <2>1. data[file[Source[o]]] \in Contents
    BY <1>5, CommandsAssumption DEF StageInv, TypeInv, TreeTyped, Exists
  <2>2. QED
    BY <1>5, <2>1, ReadByScan
<1>6. ASSUME NEW p \in Procs PROVE StagingOK(p)'
  <2>1. StagingOK(p) /\ TuOf(p)' = TuOf(p) /\ Needed(job[p], result[p])' = Needed(job[p], result[p])
    BY <1>1 DEF StageInv, TuOf, Needed
  <2>2. ASSUME pc[p] \in {"link", "publish"}, NEW g \in Needed(job[p], result[p])
        PROVE  file'[g] = file[g]
    <3>1. g \in Reads(job[p]) /\ g \in Files
      BY <1>5, <2>2, Stages DEF StageInv, StagePCs
    <3>2. g # f
      BY <1>2, <2>2, <3>1 DEF EditOf, Quiet
    <3>3. QED
      BY <1>3, <3>1, <3>2
  <2>3. QED
    BY <1>1, <2>1, <2>2 DEF StagingOK, HoldsFiles
<1>7. ASSUME NEW o \in settled, f \notin Reads(o) PROVE SettledOK(o)'
  <2>1. PICK r : r = ScanOf(o)
    OBVIOUS
  <2>2. /\ \A q \in Procs : job[q] # o
        /\ Exists(Source[o])
        /\ expr[o] = [source |-> Rel(r.root, Source[o]), dir |-> TuKey(o, r.root)]
        /\ HoldsFiles(TuKey(o, r.root), r.root, Needed(o, r))
        /\ o \in Outs
    BY <2>1 DEF StageInv, SettledOK, TypeInv, RestTyped
  <2>3. Needed(o, r) \subseteq Reads(o) /\ Needed(o, r) \subseteq Files
    BY <1>5, <2>1, <2>2, ScanTyped, ResultTyped
  <2>4. ScanOf(o)' = r /\ Exists(Source[o])'
    BY <1>2, <1>7, <2>1, <2>2, <2>3, UnneededEdit DEF StageInv
  <2>5. \A g \in Needed(o, r) : file'[g] = file[g]
    BY <1>3, <1>7, <2>3
  <2>6. HoldsFiles(TuKey(o, r.root), r.root, Needed(o, r))'
    BY <1>1, <2>2, <2>5 DEF HoldsFiles, Needed
  <2>7. QED
    BY <1>1, <2>2, <2>4, <2>6 DEF SettledOK, HoldsFiles, Needed
<1>8. QED
  BY <1>1, <1>4, <1>6, <1>7 DEF StageInv

\* Every step keeps the invariant.
LEMMA NextStages ==
    ASSUME NoNewHeaders, DistinctTus, StageInv, [Next]_vars
    PROVE  StageInv'
<1>1. IInv' /\ TypeInv'
  BY NextOK, NextTyped DEF StageInv
<1>2. CASE UNCHANGED vars
  <2>1. UNCHANGED <<treeVars, pc, job, result, todo, staged, expr, settled>>
    BY <1>2 DEF vars, procVars
  <2>2. OneEach' /\ \A p \in Procs : StagingOK(p)'
    BY <2>1 DEF StageInv, OneEach, StagingOK, HoldsFiles, TuOf, Needed, treeVars
  <2>3. ASSUME NEW o \in settled PROVE SettledOK(o)'
    <3>1. ScanOf(o)' = ScanOf(o) /\ Exists(Source[o])' = Exists(Source[o])
      BY <2>1, TreeUnchanged
    <3>2. QED
      BY <2>1, <3>1 DEF StageInv, SettledOK, HoldsFiles, Needed, treeVars
  <2>4. QED
    BY <1>1, <2>1, <2>2, <2>3 DEF StageInv
<1>3. ASSUME NEW p \in Procs, Stop(p) PROVE StageInv'
  <2>1. Leave(p) /\ UNCHANGED <<treeVars, staged, expr, settled>>
    BY <1>3 DEF Stop
  <2>2. QED
    BY <1>1, <2>1, LeaveStages
<1>4. QED
  BY <1>1, <1>2, <1>3, StartStages, ScanningStages, StagingStages, PublishStages,
     EditStages DEF Next

\* Nothing is staged at the start.
LEMMA InitStages == Init => StageInv
<1> SUFFICES ASSUME Init PROVE StageInv
  OBVIOUS
<1>1. OneEach /\ (\A p \in Procs : StagingOK(p)) /\ settled = {}
  BY DEF Init, OneEach, StagingOK
<1>2. QED
  BY <1>1, InitOK, InitTyped DEF StageInv

\* From the end of a compile to the next edit of its files, the directory its
\* expression names holds its source and headers as they are in the tree, and
\* nothing else: for any commands whose outputs never share a tu-id, under any
\* number of other compiles, edits, failures and kills.
THEOREM StagedSourcesAreOwn ==
    ASSUME NoNewHeaders, DistinctTus
    PROVE  Spec => []BuildsOwnSources
<1>1. StageInv /\ [Next]_vars => StageInv'
  BY NextStages
<1>2. QED
  BY InitStages, <1>1, StageInvSuffices, PTL DEF Spec
=============================================================================
