---------------------------- MODULE CompileCache ----------------------------
(***************************************************************************)
(* load_or_compile of cache.py: processes share a directory of compiled    *)
(* programs.  One cache key is modelled; compiling is deterministic, so    *)
(* every process writes the same bytes and a file is as good as the length *)
(* it has reached.  A name leads to an inode; rename moves the name, and a *)
(* process that has the file open keeps its inode.                         *)
(***************************************************************************)
EXTENDS Naturals, FiniteSets

CONSTANTS
  Procs,       \* processes that call load_or_compile
  Inodes,      \* enough for every open file and both names
  Full,        \* chunks of a complete file
  None,
  OneCompiler  \* TRUE: at most one process at a time is past a cache miss

ASSUME CacheAssumption ==
  /\ Full \in Nat \ {0} /\ OneCompiler \in BOOLEAN
  /\ None \notin Inodes /\ None \notin Nat
  /\ IsFiniteSet(Procs) /\ Cardinality(Inodes) >= Cardinality(Procs) + 2

VARIABLES
  at,       \* where each process is in load_or_compile
  handle,   \* the inode write_bytes has open
  written,  \* chunks the process has written to it
  dir,      \* cache_path and tmp_path
  size,     \* length of each inode
  loaded    \* length of what from_bytes was given on a hit

vars == <<at, handle, written, dir, size, loaded>>

PastMiss == {"compile", "open", "write", "rename"}

-----------------------------------------------------------------------------

\* cache_path.exists(); TACCEL_NO_COMPILE_CACHE touches no file and is no step.
Hit(p) ==
  /\ at[p] = "call"
  /\ dir["bin"] # None
  /\ at' = [at EXCEPT ![p] = "read"]
  /\ UNCHANGED <<handle, written, dir, size, loaded>>

Miss(p) ==
  /\ at[p] = "call"
  /\ dir["bin"] = None
  /\ OneCompiler => \A q \in Procs : at[q] \notin PastMiss
  /\ at' = [at EXCEPT ![p] = "compile"]
  /\ UNCHANGED <<handle, written, dir, size, loaded>>

\* Nothing unlinks cache_path, so it is still there.
Read(p) ==
  /\ at[p] = "read"
  /\ loaded' = [loaded EXCEPT ![p] = size[dir["bin"]]]
  /\ at' = [at EXCEPT ![p] = "return"]
  /\ UNCHANGED <<handle, written, dir, size>>

Compile(p) ==
  /\ at[p] = "compile"
  /\ at' = [at EXCEPT ![p] = "open"]
  /\ UNCHANGED <<handle, written, dir, size, loaded>>

Unused == Inodes \ ({dir["bin"], dir["tmp"]} \union {handle[q] : q \in Procs})

\* Definitions named "Mutant..." are defects the properties must notice; no
\* specification uses them.

MutantStaging == "bin"                                 \* no staging file

Staging == "tmp"

\* write_bytes opens with "wb": create, or truncate what is there.
Open(p) ==
  /\ at[p] = "open"
  /\ LET ino == IF dir[Staging] # None THEN dir[Staging]
                ELSE CHOOSE n \in Unused : TRUE
     IN  /\ dir' = [dir EXCEPT ![Staging] = ino]
         /\ size' = [size EXCEPT ![ino] = 0]
         /\ handle' = [handle EXCEPT ![p] = ino]
  /\ written' = [written EXCEPT ![p] = 0]
  /\ at' = [at EXCEPT ![p] = "write"]
  /\ UNCHANGED loaded

Longer(m, n) == IF m > n THEN m ELSE n

Write(p) ==
  /\ at[p] = "write"
  /\ written[p] < Full
  /\ written' = [written EXCEPT ![p] = @ + 1]
  /\ size' = [size EXCEPT ![handle[p]] = Longer(@, written[p] + 1)]
  /\ UNCHANGED <<at, handle, dir, loaded>>

Close(p) ==
  /\ at[p] = "write"
  /\ written[p] = Full
  /\ handle' = [handle EXCEPT ![p] = None]
  /\ at' = [at EXCEPT ![p] = "rename"]
  /\ UNCHANGED <<written, dir, size, loaded>>

\* rename fails with FileNotFoundError when the name is gone.
Rename(p) ==
  /\ at[p] = "rename"
  /\ IF dir["tmp"] # None
     THEN /\ dir' = [dir EXCEPT !["bin"] = dir["tmp"], !["tmp"] = None]
          /\ at' = [at EXCEPT ![p] = "return"]
     ELSE /\ at' = [at EXCEPT ![p] = "error"]
          /\ UNCHANGED dir
  /\ UNCHANGED <<handle, written, size, loaded>>

\* The process ends at any point; what it wrote stays.
Crash(p) ==
  /\ at[p] \notin {"call", "return", "error"}
  /\ handle' = [handle EXCEPT ![p] = None]
  /\ at' = [at EXCEPT ![p] = "error"]
  /\ UNCHANGED <<written, dir, size, loaded>>

CallAgain(p) ==
  /\ at[p] \in {"return", "error"}
  /\ at' = [at EXCEPT ![p] = "call"]
  /\ loaded' = [loaded EXCEPT ![p] = None]
  /\ written' = [written EXCEPT ![p] = 0]
  /\ UNCHANGED <<handle, dir, size>>

Init ==
  /\ at = [p \in Procs |-> "call"]
  /\ handle = [p \in Procs |-> None]
  /\ written = [p \in Procs |-> 0]
  /\ dir = [n \in {"bin", "tmp"} |-> None]
  /\ size = [n \in Inodes |-> 0]
  /\ loaded = [p \in Procs |-> None]

Next == \E p \in Procs :
  \/ Hit(p) \/ Miss(p) \/ Read(p) \/ Compile(p) \/ Open(p) \/ Write(p)
  \/ Close(p) \/ Rename(p) \/ Crash(p) \/ CallAgain(p)

Spec == Init /\ [][Next]_vars

-----------------------------------------------------------------------------

\* No half-written file ever has the name other processes look for, and none is
\* what a hit restores, wherever the process that wrote it was interrupted.
CacheWhole ==
  /\ dir["bin"] # None => size[dir["bin"]] = Full
  /\ \A p \in Procs : loaded[p] \in {Full, None}

=============================================================================
