------------------------- MODULE CompileCacheProofs -------------------------
(***************************************************************************)
(* Theorems about the compile cache, for any number of processes, any file *)
(* length and any crashes, when at most one process compiles at a time.    *)
(***************************************************************************)
EXTENDS CompileCache, FiniteSetTheorems, TLAPS

CacheTypeOK ==
  /\ at \in [Procs -> {"call", "read", "return", "error"} \union PastMiss]
  /\ handle \in [Procs -> Inodes \union {None}]
  /\ written \in [Procs -> 0 .. Full]
  /\ dir \in [{"bin", "tmp"} -> Inodes \union {None}]
  /\ size \in [Inodes -> 0 .. Full]
  /\ loaded \in [Procs -> (0 .. Full) \union {None}]

\* Only the process past the miss has a file open, and that file is the one the
\* staging name leads to.
WriterInv ==
  /\ \A p, q \in Procs : at[p] \in PastMiss /\ at[q] \in PastMiss => p = q
  /\ \A p \in Procs : handle[p] # None <=> at[p] = "write"
  /\ \A p \in Procs : at[p] = "write" =>
       handle[p] = dir["tmp"] /\ size[handle[p]] = written[p]
  /\ \A p \in Procs : at[p] = "rename" =>
       dir["tmp"] # None /\ size[dir["tmp"]] = Full

\* The two names never lead to the same file, and the cached one stays.
NameInv ==
  /\ dir["tmp"] # None => dir["tmp"] # dir["bin"]
  /\ \A p \in Procs : at[p] = "read" => dir["bin"] # None

CacheInv == CacheTypeOK /\ WriterInv /\ NameInv /\ CacheWhole

-----------------------------------------------------------------------------

USE CacheAssumption

\* An empty directory, nobody in load_or_compile.
LEMMA InitCacheInv == Init => CacheInv
<1> SUFFICES ASSUME Init PROVE CacheInv
  OBVIOUS
<1>1. CacheTypeOK
  BY DEF Init, CacheTypeOK, PastMiss
<1>2. WriterInv /\ NameInv /\ CacheWhole
  BY DEF Init, WriterInv, NameInv, CacheWhole, PastMiss
<1>3. QED
  BY <1>1, <1>2 DEF CacheInv

\* The process that opens the staging file for the first time finds an inode:
\* no file is open then, and the cached name holds at most one.
LEMMA InodeLeft ==
  ASSUME CacheInv, NEW p \in Procs, at[p] = "open", dir["tmp"] = None
  PROVE  Unused # {}
<1>1. \A q \in Procs : handle[q] = None
  BY DEF CacheInv, WriterInv, PastMiss
<1>2. SUFFICES ASSUME Unused = {}
               PROVE  FALSE
  OBVIOUS
<1>3. Inodes \subseteq {dir["bin"]}
  BY <1>1, <1>2 DEF Unused
<1>4. IsFiniteSet({dir["bin"]}) /\ Cardinality({dir["bin"]}) = 1
  BY FS_Singleton
<1>5. Cardinality(Inodes) <= 1 /\ Cardinality(Inodes) \in Nat
  BY <1>3, <1>4, FS_Subset, FS_CardinalityType
<1>6. Cardinality(Procs) \in Nat
  BY FS_CardinalityType
<1>7. QED
  BY <1>5, <1>6

\* Steps that touch no file: they only move a process.
LEMMA CallStep ==
  ASSUME CacheInv, NEW p \in Procs, Hit(p) \/ Read(p) \/ Compile(p) \/ CallAgain(p)
  PROVE  CacheInv'
<1>1. CacheTypeOK /\ WriterInv /\ NameInv /\ CacheWhole
  BY DEF CacheInv
<1>2. CacheTypeOK'
  BY <1>1 DEF Hit, Read, Compile, CallAgain, CacheTypeOK, PastMiss, NameInv
<1>3. WriterInv'
  BY <1>1 DEF Hit, Read, Compile, CallAgain, CacheTypeOK, WriterInv, PastMiss
<1>4. NameInv'
  BY <1>1 DEF Hit, Read, Compile, CallAgain, CacheTypeOK, NameInv
<1>5. CacheWhole'
  BY <1>1 DEF Hit, Read, Compile, CallAgain, CacheTypeOK, CacheWhole, NameInv
<1>6. QED
  BY <1>2, <1>3, <1>4, <1>5 DEF CacheInv

\* A process that finds no file goes on to compile.
LEMMA MissStep ==
  ASSUME CacheInv, OneCompiler, NEW p \in Procs, Miss(p)
  PROVE  CacheInv'
<1>1. CacheTypeOK /\ WriterInv /\ NameInv /\ CacheWhole
  BY DEF CacheInv
<1>2. CacheTypeOK'
  BY <1>1 DEF Miss, CacheTypeOK, PastMiss
<1>3. WriterInv'
  BY <1>1 DEF Miss, CacheTypeOK, WriterInv, PastMiss
<1>4. NameInv' /\ CacheWhole'
  BY <1>1 DEF Miss, CacheTypeOK, NameInv, CacheWhole
<1>5. QED
  BY <1>2, <1>3, <1>4 DEF CacheInv

\* Opening the staging name empties the file behind it, or makes one.
LEMMA OpenStep ==
  ASSUME CacheInv, NEW p \in Procs, Open(p)
  PROVE  CacheInv'
<1>1. CacheTypeOK /\ WriterInv /\ NameInv /\ CacheWhole
  BY DEF CacheInv
<1>2. PICK ino \in Inodes :
        /\ dir' = [dir EXCEPT !["tmp"] = ino]
        /\ size' = [size EXCEPT ![ino] = 0]
        /\ handle' = [handle EXCEPT ![p] = ino]
        /\ ino # dir["bin"]
  <2>1. CASE dir["tmp"] # None
    BY <1>1, <2>1 DEF Open, Staging, CacheTypeOK, NameInv
  <2>2. CASE dir["tmp"] = None
    <3>1. (CHOOSE n \in Unused : TRUE) \in Unused
      BY <2>2, InodeLeft DEF Open
    <3>2. QED
      BY <2>2, <3>1 DEF Open, Staging, Unused
  <2>3. QED
    BY <2>1, <2>2
<1>3. /\ at[p] = "open" /\ at' = [at EXCEPT ![p] = "write"]
      /\ written' = [written EXCEPT ![p] = 0] /\ loaded' = loaded
  BY DEF Open
<1>4. CacheTypeOK'
  BY <1>1, <1>2, <1>3 DEF CacheTypeOK, PastMiss
<1>5. \A q \in Procs : q # p => at[q] \notin PastMiss
  BY <1>1, <1>3 DEF WriterInv, PastMiss
<1>6. WriterInv'
  BY <1>1, <1>2, <1>3, <1>5 DEF CacheTypeOK, WriterInv, PastMiss
<1>7. NameInv' /\ CacheWhole'
  BY <1>1, <1>2, <1>3 DEF CacheTypeOK, NameInv, CacheWhole
<1>8. QED
  BY <1>4, <1>6, <1>7 DEF CacheInv

\* A chunk more in the file the process has open.
LEMMA WriteStep ==
  ASSUME CacheInv, NEW p \in Procs, Write(p)
  PROVE  CacheInv'
<1>1. CacheTypeOK /\ WriterInv /\ NameInv /\ CacheWhole
  BY DEF CacheInv
<1>2. /\ at[p] = "write" /\ handle[p] = dir["tmp"] /\ handle[p] \in Inodes
      /\ size[handle[p]] = written[p] /\ written[p] \in 0 .. Full /\ written[p] < Full
      /\ handle[p] # dir["bin"]
  BY <1>1 DEF Write, WriterInv, NameInv, CacheTypeOK
<1>3. /\ written' = [written EXCEPT ![p] = written[p] + 1]
      /\ size' = [size EXCEPT ![handle[p]] = written[p] + 1]
      /\ UNCHANGED <<at, handle, dir, loaded>>
  <2>1. Longer(size[handle[p]], written[p] + 1) = written[p] + 1
    BY <1>2 DEF Longer
  <2>2. QED
    BY <2>1 DEF Write
<1>4. written[p] + 1 \in 0 .. Full
  BY <1>2
<1>5. CacheTypeOK'
  BY <1>1, <1>3, <1>4 DEF CacheTypeOK
<1>6. \A q \in Procs : q # p => at[q] \notin PastMiss
  BY <1>1, <1>2 DEF WriterInv, PastMiss
<1>7. WriterInv'
  BY <1>1, <1>2, <1>3, <1>6 DEF CacheTypeOK, WriterInv, PastMiss
<1>8. NameInv' /\ CacheWhole'
  BY <1>1, <1>2, <1>3 DEF CacheTypeOK, NameInv, CacheWhole
<1>9. QED
  BY <1>5, <1>7, <1>8 DEF CacheInv

\* The file that is closed is complete.
LEMMA CloseStep ==
  ASSUME CacheInv, NEW p \in Procs, Close(p)
  PROVE  CacheInv'
<1>1. CacheTypeOK /\ WriterInv /\ NameInv /\ CacheWhole
  BY DEF CacheInv
<1>2. CacheTypeOK'
  BY <1>1 DEF Close, CacheTypeOK, PastMiss
<1>3. WriterInv'
  BY <1>1 DEF Close, CacheTypeOK, WriterInv, PastMiss
<1>4. NameInv' /\ CacheWhole'
  BY <1>1 DEF Close, CacheTypeOK, NameInv, CacheWhole
<1>5. QED
  BY <1>2, <1>3, <1>4 DEF CacheInv

\* os.replace: the staged file takes the cached name.
LEMMA RenameStep ==
  ASSUME CacheInv, NEW p \in Procs, Rename(p)
  PROVE  CacheInv'
<1>1. CacheTypeOK /\ WriterInv /\ NameInv /\ CacheWhole
  BY DEF CacheInv
<1>2. /\ at[p] = "rename" /\ dir["tmp"] # None /\ size[dir["tmp"]] = Full
      /\ dir' = [dir EXCEPT !["bin"] = dir["tmp"], !["tmp"] = None]
      /\ at' = [at EXCEPT ![p] = "return"]
      /\ UNCHANGED <<handle, written, size, loaded>>
  BY <1>1 DEF Rename, WriterInv
<1>3. CacheTypeOK'
  BY <1>1, <1>2 DEF CacheTypeOK
<1>4. \A q \in Procs : q # p => at[q] \notin PastMiss
  BY <1>1, <1>2 DEF WriterInv, PastMiss
<1>5. WriterInv'
  BY <1>1, <1>2, <1>4 DEF CacheTypeOK, WriterInv, PastMiss
<1>6. NameInv' /\ CacheWhole'
  BY <1>1, <1>2 DEF CacheTypeOK, NameInv, CacheWhole
<1>7. QED
  BY <1>3, <1>5, <1>6 DEF CacheInv

\* A process that is interrupted leaves at worst a staging file that is short.
LEMMA CrashStep ==
  ASSUME CacheInv, NEW p \in Procs, Crash(p)
  PROVE  CacheInv'
<1>1. CacheTypeOK /\ WriterInv /\ NameInv /\ CacheWhole
  BY DEF CacheInv
<1>2. CacheTypeOK'
  BY <1>1 DEF Crash, CacheTypeOK
<1>3. WriterInv'
  BY <1>1 DEF Crash, CacheTypeOK, WriterInv, PastMiss
<1>4. NameInv' /\ CacheWhole'
  BY <1>1 DEF Crash, CacheTypeOK, NameInv, CacheWhole
<1>5. QED
  BY <1>2, <1>3, <1>4 DEF CacheInv

\* Every step keeps the invariant, as long as one process compiles.
LEMMA NextCacheInv ==
  ASSUME OneCompiler
  PROVE  CacheInv /\ [Next]_vars => CacheInv'
<1>1. ASSUME CacheInv, Next
      PROVE  CacheInv'
  BY <1>1, CallStep, MissStep, OpenStep, WriteStep, CloseStep, RenameStep, CrashStep DEF Next
<1>2. ASSUME CacheInv, UNCHANGED vars
      PROVE  CacheInv'
  BY <1>2 DEF vars, CacheInv, CacheTypeOK, WriterInv, NameInv, CacheWhole
<1>3. QED
  BY <1>1, <1>2

\* When at most one process is past a cache miss, a file under the name that
\* others look for is complete, and so is what a hit restores, wherever any
\* process was interrupted.  CompileCacheRace shows that without the assumption
\* it is not so.
THEOREM CacheStaysWhole ==
  ASSUME OneCompiler
  PROVE  Spec => []CacheWhole
<1>1. CacheInv => CacheWhole
  BY DEF CacheInv
<1>2. QED
  BY <1>1, InitCacheInv, NextCacheInv, PTL DEF Spec

=============================================================================
