----------------------------- MODULE AtomicFile -----------------------------
(***************************************************************************)
(* writeFileAtomic0600 (src/gateway/agents.ts and store.ts), system call   *)
(* by system call, and what processes find under the paths afterwards:     *)
(* what AgentStore and SecretStore take as one step.  The process may be   *)
(* killed between any two calls and any call may throw; the machine may    *)
(* lose power.  Contents are safe after an fsync; the directory, which the *)
(* code does not fsync, is brought to stable storage by the system later,  *)
(* its renames in their order.                                             *)
(***************************************************************************)
EXTENDS Naturals, Sequences

CONSTANTS
    Path,          \* the files written this way
    Value,         \* the texts written
    ShortWrites,   \* whether writeSync may write less than it was given
    MaxBehind,     \* bound: renames the stable directory can be behind
    NoFile         \* no file

\* A file: the text meant for it, how much of it is in the file, and whether
\* that is on stable storage.
File == [value  : Value,
         holds  : {"nothing", "beginning", "all"},
         stable : BOOLEAN]

\* A file somebody put there before the process began.
WholeFile == [value : Value, holds : {"all"}, stable : {TRUE}]

Directory == [Path -> File \cup {NoFile}]

ASSUME NoFileAssumption == NoFile \notin File

ASSUME ShortWritesAssumption == ShortWrites \in BOOLEAN

VARIABLES
    pc,     \* the next system call
    path,   \* the argument of the running call
    tmp,    \* its temporary file
    dirs    \* the directory from its version on stable storage up to the one
            \* that processes see

fileVars == <<pc, path, tmp, dirs>>

\* The directory as processes see it.
current == dirs[Len(dirs)]

(***************************************************************************)
(* The shape of every variable.                                            *)
(***************************************************************************)
FileTypeOK == /\ pc \in {"openSync", "writeSync", "fsyncSync", "renameSync"}
              /\ path \in Path
              /\ tmp \in File \cup {NoFile}
              /\ dirs \in Seq(Directory) /\ dirs # <<>>

FileInit == /\ pc = "openSync"
            /\ path \in Path
            /\ tmp = NoFile
            /\ \E dir \in [Path -> WholeFile \cup {NoFile}] : dirs = << dir >>

-----------------------------------------------------------------------------

\* A fresh temporary name every time, so a leftover is never in the way.
Open(p, v) ==
    /\ pc = "openSync"
    /\ tmp' = [value |-> v, holds |-> "nothing", stable |-> FALSE]
    /\ path' = p
    /\ pc' = "writeSync"
    /\ UNCHANGED dirs

\* One writeSync whose result is not looked at.
Write(amount) ==
    /\ pc = "writeSync"
    /\ amount = "beginning" => ShortWrites
    /\ tmp' = [tmp EXCEPT !.holds = amount]
    /\ pc' = "fsyncSync"
    /\ UNCHANGED <<path, dirs>>

\* Mutation: no fsync.
Fsync_Skipped ==
    /\ pc = "fsyncSync"
    /\ pc' = "renameSync"
    /\ UNCHANGED <<path, tmp, dirs>>

Fsync ==
    /\ pc = "fsyncSync"
    /\ tmp' = [tmp EXCEPT !.stable = TRUE]
    /\ pc' = "renameSync"
    /\ UNCHANGED <<path, dirs>>

Rename ==
    /\ pc = "renameSync"
    /\ Len(dirs) <= MaxBehind
    /\ dirs' = Append(dirs, [current EXCEPT ![path] = tmp])
    /\ tmp' = NoFile
    /\ pc' = "openSync"
    /\ UNCHANGED path

\* A call throws, or the process is killed: the temporary file stays behind,
\* under a name nobody uses again.
Abandon ==
    /\ pc # "openSync"
    /\ tmp' = NoFile
    /\ pc' = "openSync"
    /\ UNCHANGED <<path, dirs>>

\* The system brings the next rename to stable storage.
WriteBack ==
    /\ Len(dirs) > 1
    /\ dirs' = Tail(dirs)
    /\ UNCHANGED <<pc, path, tmp>>

\* Some of the renames are lost, the last ones; and the contents of a file
\* that were not on stable storage.
PowerLoss ==
    /\ \E i \in 1..Len(dirs) :
          dirs' = << [p \in Path |->
                        IF dirs[i][p] = NoFile \/ dirs[i][p].stable THEN dirs[i][p]
                        ELSE [dirs[i][p] EXCEPT !.holds = "nothing", !.stable = TRUE]] >>
    /\ tmp' = NoFile
    /\ pc' = "openSync"
    /\ UNCHANGED path

FileNext == \/ \E p \in Path, v \in Value : Open(p, v)
            \/ \E amount \in {"beginning", "all"} : Write(amount)
            \/ Fsync
            \/ Rename
            \/ Abandon
            \/ WriteBack
            \/ PowerLoss

FileSpec == FileInit /\ [][FileNext]_fileVars

-----------------------------------------------------------------------------

(***************************************************************************)
(* "the fsync+rename gives an atomic replace" (store.ts 103): whenever a   *)
(* file is read, by this process or a later one, it holds a whole text,    *)
(* however the writes before were cut short.  The one exception is a       *)
(* writeSync that wrote less than it was given, on a disk that filled up.  *)
(***************************************************************************)
AlwaysWhole ==
    \A p \in Path :
        current[p] # NoFile => \/ current[p].holds = "all"
                               \/ ShortWrites /\ current[p].holds = "beginning"
=============================================================================
