-------------------------- MODULE SecretFilesProofs --------------------------
(***************************************************************************)
(* What EncryptedFileStore makes of writeFileAtomic0600, for any ids,      *)
(* salts, passphrases and tokens, however many versions stable storage is  *)
(* behind.                                                                 *)
(***************************************************************************)
EXTENDS SecretFiles, TLAPS

-----------------------------------------------------------------------------
(***************************************************************************)
(* writeFileAtomic0600 replaces a file as a whole, for any paths and texts *)
(* and however far stable storage is behind.                               *)
(***************************************************************************)

\* All that writeSync was willing to write, and on stable storage.
Written(f) == \/ f.holds = "all"
              \/ ShortWrites /\ f.holds = "beginning"

Solid(f) == f # NoFile => Written(f) /\ f.stable

\* Every version of the directory has solid files only; a temporary file
\* becomes written with the write, and stable with the fsync, that come before
\* the rename.
AtomicInv == /\ FileTypeOK
             /\ pc # "openSync" => tmp # NoFile
             /\ pc \in {"fsyncSync", "renameSync"} => Written(tmp)
             /\ pc = "renameSync" => tmp.stable
             /\ \A i \in 1..Len(dirs) : \A p \in Path : Solid(dirs[i][p])

LEMMA AtomicInit == FileInit => AtomicInv
<1> SUFFICES ASSUME FileInit PROVE AtomicInv
  OBVIOUS
<1>1. PICK dir \in [Path -> WholeFile \cup {NoFile}] : dirs = << dir >>
  BY DEF FileInit
<1>2. \A f \in WholeFile : f \in File /\ Solid(f)
  BY DEF WholeFile, File, Solid, Written
<1>3. dir \in Directory /\ \A p \in Path : Solid(dir[p])
  BY <1>2 DEF Directory, Solid
<1>4. dirs \in Seq(Directory) /\ Len(dirs) = 1 /\ dirs[1] = dir
  BY <1>1, <1>3
<1>. QED
  BY <1>3, <1>4 DEF FileInit, AtomicInv, FileTypeOK

\* The versions that stay are what they were.
LEMMA VersionsKept ==
  ASSUME AtomicInv, dirs' = dirs
  PROVE  /\ dirs' \in Seq(Directory) /\ dirs' # <<>>
         /\ \A i \in 1..Len(dirs') : \A p \in Path : Solid(dirs'[i][p])
  BY DEF AtomicInv, FileTypeOK

LEMMA AtomicStep ==
  ASSUME AtomicInv, [FileNext]_fileVars
  PROVE  AtomicInv'
<1>1. ASSUME NEW p \in Path, NEW v \in Value, Open(p, v) PROVE AtomicInv'
  <2>1. [value |-> v, holds |-> "nothing", stable |-> FALSE] \in File
    BY DEF File
  <2>2. tmp' \in File /\ tmp' # NoFile
    BY <1>1, <2>1, NoFileAssumption DEF Open
  <2>. QED
    BY <1>1, <2>2, VersionsKept DEF Open, AtomicInv, FileTypeOK, Solid
<1>2. ASSUME NEW amount \in {"beginning", "all"}, Write(amount) PROVE AtomicInv'
  <2>1. tmp \in File
    BY <1>2 DEF Write, AtomicInv, FileTypeOK
  <2>2. tmp' \in File /\ tmp'.holds = amount
    BY <1>2, <2>1 DEF Write, File
  <2>3. tmp' # NoFile
    BY <2>2, NoFileAssumption
  <2>4. Written(tmp')
    BY <1>2, <2>2, ShortWritesAssumption DEF Write, Written
  <2>. QED
    BY <1>2, <2>2, <2>3, <2>4, VersionsKept DEF Write, AtomicInv, FileTypeOK, Solid
<1>3. CASE Fsync
  <2>1. tmp \in File /\ Written(tmp)
    BY <1>3 DEF Fsync, AtomicInv, FileTypeOK
  <2>2. tmp' \in File /\ tmp'.stable /\ tmp'.holds = tmp.holds
    BY <1>3, <2>1 DEF Fsync, File
  <2>3. tmp' # NoFile
    BY <2>2, NoFileAssumption
  <2>4. Written(tmp')
    BY <2>1, <2>2 DEF Written
  <2>. QED
    BY <1>3, <2>2, <2>3, <2>4, VersionsKept DEF Fsync, AtomicInv, FileTypeOK, Solid
<1>4. CASE Rename
  <2> DEFINE next == [current EXCEPT ![path] = tmp]
  <2>1. Len(dirs) \in 1..Len(dirs) /\ current \in Directory
    BY DEF AtomicInv, FileTypeOK, current
  <2>2. tmp \in File /\ Solid(tmp)
    BY <1>4 DEF Rename, AtomicInv, FileTypeOK, Solid
  <2>3. next \in Directory
    BY <2>1, <2>2 DEF Directory, AtomicInv, FileTypeOK
  <2>4. \A p \in Path : Solid(next[p])
    <3>1. \A p \in Path : Solid(current[p])
      BY <2>1 DEF AtomicInv, current
    <3>. QED
      BY <2>1, <2>2, <3>1 DEF Directory, AtomicInv, FileTypeOK
  <2>5. dirs' = Append(dirs, next)
    BY <1>4 DEF Rename
  <2>6. /\ dirs' \in Seq(Directory) /\ dirs' # <<>>
        /\ Len(dirs') = Len(dirs) + 1
        /\ \A i \in 1..Len(dirs') : dirs'[i] = IF i <= Len(dirs) THEN dirs[i] ELSE next
    BY <2>3, <2>5 DEF AtomicInv, FileTypeOK
  <2>7. ASSUME NEW i \in 1..Len(dirs'), NEW p \in Path
        PROVE  Solid(dirs'[i][p])
    <3>1. CASE i <= Len(dirs)
      <4>1. i \in 1..Len(dirs)
        BY <3>1
      <4>2. dirs'[i] = dirs[i]
        BY <2>6, <3>1
      <4>. QED
        BY <4>1, <4>2 DEF AtomicInv
    <3>2. CASE ~(i <= Len(dirs))
      BY <2>4, <2>6, <3>2
    <3>. QED
      BY <3>1, <3>2
  <2>. QED
    BY <1>4, <2>6, <2>7 DEF Rename, AtomicInv, FileTypeOK
<1>5. CASE Abandon
  BY <1>5, VersionsKept DEF Abandon, AtomicInv, FileTypeOK
<1>6. CASE WriteBack
  <2>1. /\ dirs' \in Seq(Directory) /\ dirs' # <<>>
        /\ Len(dirs') = Len(dirs) - 1
        /\ \A i \in 1..Len(dirs') : dirs'[i] = dirs[i + 1]
    BY <1>6 DEF WriteBack, AtomicInv, FileTypeOK
  <2>2. \A i \in 1..Len(dirs') : \A p \in Path : Solid(dirs'[i][p])
    BY <2>1 DEF AtomicInv, FileTypeOK
  <2>. QED
    BY <1>6, <2>1, <2>2 DEF WriteBack, AtomicInv, FileTypeOK
<1>7. CASE PowerLoss
  \* Nothing in any version is lost, being stable.
  <2>1. PICK i \in 1..Len(dirs) :
          dirs' = << [p \in Path |->
                        IF dirs[i][p] = NoFile \/ dirs[i][p].stable THEN dirs[i][p]
                        ELSE [dirs[i][p] EXCEPT !.holds = "nothing", !.stable = TRUE]] >>
    BY <1>7 DEF PowerLoss
  <2>2. dirs[i] \in Directory /\ \A p \in Path : Solid(dirs[i][p])
    BY DEF AtomicInv, FileTypeOK
  <2>3. dirs' = << dirs[i] >>
    BY <2>1, <2>2 DEF Directory, Solid
  <2>4. dirs' \in Seq(Directory) /\ Len(dirs') = 1 /\ dirs'[1] = dirs[i]
    BY <2>2, <2>3
  <2>5. \A j \in 1..Len(dirs') : \A p \in Path : Solid(dirs'[j][p])
    BY <2>2, <2>4
  <2>6. dirs' # <<>>
    BY <2>3
  <2>7. /\ pc' = "openSync" /\ path' \in Path
        /\ tmp' \in File \cup {NoFile}
    BY <1>7 DEF PowerLoss, AtomicInv, FileTypeOK
  <2>. QED
    BY <2>4, <2>5, <2>6, <2>7 DEF AtomicInv, FileTypeOK
<1>8. CASE UNCHANGED fileVars
  BY <1>8, VersionsKept DEF fileVars, AtomicInv, FileTypeOK
<1>. QED
  BY <1>1, <1>2, <1>3, <1>4, <1>5, <1>6, <1>7, <1>8 DEF FileNext

(***************************************************************************)
(* Whoever reads a file reads a whole text or, after a short write, the    *)
(* beginning that was written, whatever kill, failing call or power loss   *)
(* came before (store.ts 103: "the fsync+rename gives an atomic replace"). *)
(***************************************************************************)
THEOREM FileAlwaysWhole == FileSpec => []AlwaysWhole
<1>1. AtomicInv /\ [FileNext]_fileVars => AtomicInv'
  BY AtomicStep
<1>2. AtomicInv => AlwaysWhole
  <2>1. AtomicInv => Len(dirs) \in 1..Len(dirs)
    BY DEF AtomicInv, FileTypeOK
  <2>. QED
    BY <2>1 DEF AtomicInv, AlwaysWhole, Solid, Written, current
<1>. QED
  BY AtomicInit, <1>1, <1>2, PTL DEF FileSpec

-----------------------------------------------------------------------------
\* EncryptedFileStore over these files.

\* The map's entries were sealed with the salt of the directory.
SealedIn(map, dir) ==
    \A id \in KeyId : map[id] # Absent =>
        dir[SaltFile] # NoFile /\ map[id].sealedBy[2] = dir[SaltFile].value

\* Each file is of its kind, and the secrets can be opened.
Sound(dir) ==
    /\ dir[SaltFile] # NoFile => dir[SaltFile].value \in Salt
    /\ dir[SecretsFile] # NoFile /\ dir[SecretsFile].value # Blank
          => /\ dir[SecretsFile].value \in SecretMap
             /\ SealedIn(dir[SecretsFile].value, dir)

\* getKey is creating the salt.
SaltPending == /\ path = SaltFile
               /\ tmp.value \in Salt
               /\ current[SaltFile] = NoFile
               /\ aesKey = Absent /\ passphrase \in Passphrase

\* setSecret or deleteSecret is saving the map.
MapPending ==
    /\ path = SecretsFile
    /\ ~Damaged(SecretsFile)
    /\ call \in Calls
    /\ \/ /\ call.method = "setSecret" /\ aesKey \in AesKey
          /\ tmp.value = [secretsStored EXCEPT ![call.id] =
                             [sealedBy |-> aesKey, token |-> call.token]]
       \/ /\ call.method = "deleteSecret"
          /\ tmp.value = [secretsStored EXCEPT ![call.id] = Absent]

FilesInv == /\ AtomicInv
            /\ TypeOK
            /\ \A i \in 1..Len(dirs) : Sound(dirs[i])
            /\ pc # "openSync" => call # Absent /\ (SaltPending \/ MapPending)
            /\ aesKey # Absent => /\ current[SaltFile] # NoFile
                                  /\ aesKey[2] = current[SaltFile].value

-----------------------------------------------------------------------------
\* The versions of the directory.

LEMMA CurrentIsVersion ==
  ASSUME AtomicInv
  PROVE  Len(dirs) \in 1..Len(dirs) /\ current \in Directory
BY DEF AtomicInv, FileTypeOK, current

LEMMA CurrentSound ==
  ASSUME FilesInv
  PROVE  Sound(current)
BY CurrentIsVersion DEF FilesInv, current

\* No step makes a version other than the one seen now.
LEMMA UnchangedVersions ==
  ASSUME AtomicInv, dirs' = dirs
  PROVE  /\ current' = current
         /\ \A i \in 1..Len(dirs') : \E j \in 1..Len(dirs) : dirs'[i] = dirs[j]
BY DEF current

LEMMA RenamedVersions ==
  ASSUME AtomicInv, Rename
  PROVE  /\ current' = [current EXCEPT ![path] = tmp]
         /\ \A i \in 1..Len(dirs') : \/ dirs'[i] = current'
                                     \/ \E j \in 1..Len(dirs) : dirs'[i] = dirs[j]
<1> DEFINE next == [current EXCEPT ![path] = tmp]
<1>1. current \in Directory /\ tmp \in File /\ path \in Path
  BY CurrentIsVersion DEF AtomicInv, FileTypeOK, Rename
<1>2. next \in Directory
  BY <1>1 DEF Directory
<1>3. dirs' = Append(dirs, next)
  BY DEF Rename
<1>4. /\ Len(dirs') = Len(dirs) + 1 /\ Len(dirs) \in Nat
      /\ \A i \in 1..Len(dirs') : dirs'[i] = IF i <= Len(dirs) THEN dirs[i] ELSE next
  BY <1>2, <1>3 DEF AtomicInv, FileTypeOK
<1>5. current' = next
  BY <1>4 DEF current
<1>. QED
  BY <1>4, <1>5

LEMMA WrittenBackVersions ==
  ASSUME AtomicInv, WriteBack
  PROVE  /\ current' = current
         /\ \A i \in 1..Len(dirs') : \E j \in 1..Len(dirs) : dirs'[i] = dirs[j]
<1>1. /\ Len(dirs') = Len(dirs) - 1 /\ Len(dirs) \in Nat /\ Len(dirs) > 1
      /\ \A i \in 1..Len(dirs') : dirs'[i] = dirs[i + 1]
  BY DEF WriteBack, AtomicInv, FileTypeOK
<1>2. current' = current
  BY <1>1 DEF current
<1>3. \A i \in 1..Len(dirs') : i + 1 \in 1..Len(dirs)
  BY <1>1
<1>. QED
  BY <1>1, <1>2, <1>3

\* A power loss leaves a version as it was, its files being on stable storage.
LEMMA LostVersions ==
  ASSUME AtomicInv, PowerLoss
  PROVE  /\ \A i \in 1..Len(dirs') : dirs'[i] = current'
         /\ \E j \in 1..Len(dirs) : current' = dirs[j]
<1>1. PICK j \in 1..Len(dirs) :
        dirs' = << [p \in Path |->
                      IF dirs[j][p] = NoFile \/ dirs[j][p].stable THEN dirs[j][p]
                      ELSE [dirs[j][p] EXCEPT !.holds = "nothing", !.stable = TRUE]] >>
  BY DEF PowerLoss
<1>2. dirs[j] \in Directory /\ \A p \in Path : Solid(dirs[j][p])
  BY DEF AtomicInv, FileTypeOK
<1>3. dirs' = << dirs[j] >>
  BY <1>1, <1>2 DEF Directory, Solid
<1>4. Len(dirs') = 1 /\ dirs'[1] = dirs[j]
  BY <1>3
<1>. QED
  BY <1>4 DEF current

-----------------------------------------------------------------------------
\* The map that is saved.

LEMMA StoredMap ==
  ASSUME FilesInv
  PROVE  secretsStored \in SecretMap /\ SealedIn(secretsStored, current)
<1>1. NoSecrets \in SecretMap /\ SealedIn(NoSecrets, current)
  BY DEF NoSecrets, SecretMap, SealedIn
<1>. QED
  BY <1>1, CurrentSound DEF Sound, secretsStored

\* A file that is taken for empty was never meant to hold anything.
LEMMA LoadedMap ==
  ASSUME FilesInv, NEW map \in SecretMap, loadMap(map)
  PROVE  map = secretsStored /\ ~Damaged(SecretsFile)
<1> DEFINE f == current[SecretsFile]
<1>1. Solid(f)
  BY CurrentIsVersion, PathsAssumption DEF FilesInv, AtomicInv, current, Paths
<1>2. f # NoFile => f.holds # "nothing"
  BY <1>1 DEF Solid, Written
<1>. QED
  BY <1>2 DEF loadMap, Readable, IsBlank, secretsStored, Damaged

LEMMA PendingMap ==
  ASSUME FilesInv, MapPending
  PROVE  tmp.value \in SecretMap /\ SealedIn(tmp.value, current)
<1>1. CASE call.method = "setSecret" /\ aesKey \in AesKey
           /\ tmp.value = [secretsStored EXCEPT ![call.id] =
                              [sealedBy |-> aesKey, token |-> call.token]]
  <2>1. [sealedBy |-> aesKey, token |-> call.token] \in Blob
    BY <1>1 DEF MapPending, Calls, Blob
  <2>2. current[SaltFile] # NoFile /\ aesKey[2] = current[SaltFile].value
    BY <1>1, AbsentAssumption DEF FilesInv
  <2>3. tmp.value \in SecretMap
    BY <1>1, <2>1, StoredMap DEF SecretMap
  <2>4. SealedIn(tmp.value, current)
    BY <1>1, <2>2, StoredMap DEF SecretMap, SealedIn
  <2>. QED
    BY <2>3, <2>4
<1>2. CASE tmp.value = [secretsStored EXCEPT ![call.id] = Absent]
  BY <1>2, StoredMap DEF SecretMap, SealedIn
<1>. QED
  BY <1>1, <1>2 DEF MapPending

\* Every step of the store is one of the files, so these stay whole.
LEMMA FileSteps ==
  ASSUME FilesInv, [Next]_vars
  PROVE  [FileNext]_fileVars
<1>1. SaltFile \in Path /\ SecretsFile \in Path /\ Salt \subseteq Value /\ SecretMap \subseteq Value
  BY PathsAssumption DEF Paths, Texts
<1>2. ASSUME NEW salt \in Salt, CreateSalt(salt) PROVE FileNext
  BY <1>1, <1>2 DEF CreateSalt, FileNext
<1>3. ASSUME NEW map \in SecretMap, saveMap(map) PROVE FileNext
  BY <1>1, <1>3 DEF saveMap, FileNext
<1>4. CASE SetSecret
  <2>1. PICK map \in SecretMap :
          saveMap([map EXCEPT ![call.id] = [sealedBy |-> aesKey, token |-> call.token]])
    BY <1>4 DEF SetSecret
  <2>2. [sealedBy |-> aesKey, token |-> call.token] \in Blob
    BY <1>4 DEF SetSecret, FilesInv, TypeOK, Calls, Blob
  <2>. QED
    BY <1>3, <2>1, <2>2 DEF SecretMap
<1>5. CASE DeleteSecret
  <2>1. PICK map \in SecretMap :
          \/ saveMap([map EXCEPT ![call.id] = Absent])
          \/ Return
    BY <1>5 DEF DeleteSecret
  <2>2. [map EXCEPT ![call.id] = Absent] \in SecretMap
    BY DEF SecretMap
  <2>. QED
    BY <1>3, <2>1, <2>2 DEF Return
<1>6. CASE SystemCall
  BY <1>6 DEF SystemCall, FileNext
<1>7. CASE Throw \/ Restart \/ PowerCut
  BY <1>7 DEF Throw, Restart, PowerCut, FileNext
<1>8. CASE WriteBack
  BY <1>8 DEF FileNext
<1>9. ASSUME NEW c \in Calls, Begin(c) PROVE UNCHANGED fileVars
  BY <1>9 DEF Begin
<1>10. CASE DeriveKey \/ GetSecret \/ UNCHANGED vars
  BY <1>10 DEF DeriveKey, GetSecret, Return, vars
<1>. QED
  BY <1>2, <1>4, <1>5, <1>6, <1>7, <1>8, <1>9, <1>10 DEF Next

-----------------------------------------------------------------------------
\* The invariant.

LEMMA FilesInit == Init => FilesInv
<1> SUFFICES ASSUME Init PROVE FilesInv
  OBVIOUS
<1>1. AtomicInv
  BY AtomicInit DEF Init
<1>2. SaltFile \in Path /\ SecretsFile \in Path
  BY PathsAssumption DEF Paths
<1>3. Len(dirs) = 1 /\ dirs[1] = current
  BY DEF Init, FileInit, current
<1>4. \A i \in 1..Len(dirs) : Sound(dirs[i])
  BY <1>2, <1>3 DEF Init, Sound
<1>. QED
  BY <1>1, <1>4 DEF Init, FileInit, FilesInv, TypeOK, AtomicInv

LEMMA VersionsSound ==
  ASSUME FilesInv,
         \A i \in 1..Len(dirs') : \E j \in 1..Len(dirs) : dirs'[i] = dirs[j]
  PROVE  \A i \in 1..Len(dirs') : Sound(dirs'[i])
BY DEF FilesInv

\* What the salt's rename leaves: no entry was there to lose its salt.
LEMMA SaltRenamed ==
  ASSUME FilesInv, Rename, path = SaltFile
  PROVE  /\ SaltPending
         /\ current' = [current EXCEPT ![SaltFile] = tmp]
         /\ current'[SaltFile] = tmp /\ tmp # NoFile
         /\ current'[SecretsFile] = current[SecretsFile]
         /\ Sound(current')
<1>1. SaltFile \in Path /\ SecretsFile \in Path /\ SaltFile # SecretsFile
  BY PathsAssumption DEF Paths, SaltFile, SecretsFile
<1>2. SaltPending
  BY <1>1 DEF Rename, FilesInv, MapPending
<1>3. /\ current' = [current EXCEPT ![SaltFile] = tmp]
      /\ current \in Directory
      /\ tmp # NoFile
  BY CurrentIsVersion, RenamedVersions DEF FilesInv, AtomicInv, Rename
<1>4. current'[SaltFile] = tmp /\ current'[SecretsFile] = current[SecretsFile]
  BY <1>1, <1>3 DEF Directory
<1>5. Sound(current')
  BY <1>2, <1>4, CurrentSound DEF Sound, SealedIn, SaltPending
<1>. QED
  BY <1>2, <1>3, <1>4, <1>5

\* What the map's rename leaves.
LEMMA MapRenamed ==
  ASSUME FilesInv, Rename, path = SecretsFile
  PROVE  /\ MapPending
         /\ current' = [current EXCEPT ![SecretsFile] = tmp]
         /\ current'[SecretsFile] = tmp /\ tmp # NoFile
         /\ current'[SaltFile] = current[SaltFile]
         /\ Sound(current')
<1>1. SaltFile \in Path /\ SecretsFile \in Path /\ SaltFile # SecretsFile
  BY PathsAssumption DEF Paths, SaltFile, SecretsFile
<1>2. MapPending
  BY <1>1 DEF Rename, FilesInv, SaltPending
<1>3. /\ current' = [current EXCEPT ![SecretsFile] = tmp]
      /\ current \in Directory
      /\ tmp # NoFile
  BY CurrentIsVersion, RenamedVersions DEF FilesInv, AtomicInv, Rename
<1>4. current'[SecretsFile] = tmp /\ current'[SaltFile] = current[SaltFile]
  BY <1>1, <1>3 DEF Directory
<1>5. tmp.value \in SecretMap /\ SealedIn(tmp.value, current)
  BY <1>2, PendingMap
<1>6. Sound(current')
  BY <1>4, <1>5, CurrentSound DEF Sound, SealedIn
<1>. QED
  BY <1>2, <1>3, <1>4, <1>6

\* What processes see is unchanged by every step but a rename and a power loss.
LEMMA SameDirectory ==
  ASSUME FilesInv, UNCHANGED dirs \/ WriteBack
  PROVE  /\ current' = current
         /\ \A i \in 1..Len(dirs') : Sound(dirs'[i])
<1>1. AtomicInv
  BY DEF FilesInv
<1>2. CASE UNCHANGED dirs
  BY <1>1, <1>2, UnchangedVersions, VersionsSound
<1>3. CASE WriteBack
  BY <1>1, <1>3, WrittenBackVersions, VersionsSound
<1>. QED
  BY <1>2, <1>3

\* The key in memory is the one the salt file gives.
KeyFromSalt == aesKey # Absent => /\ current[SaltFile] # NoFile
                                  /\ aesKey[2] = current[SaltFile].value

\* What there is to show for each step, the files being whole after it.
Kept == /\ passphrase \in Passphrase \cup {Absent}
        /\ aesKey \in AesKey \cup {Absent}
        /\ call \in Calls \cup {Absent}
        /\ \A i \in 1..Len(dirs) : Sound(dirs[i])
        /\ pc # "openSync" => call # Absent /\ (SaltPending \/ MapPending)
        /\ KeyFromSalt

LEMMA FilesKept == FilesInv => Kept
BY DEF FilesInv, Kept, TypeOK, KeyFromSalt

\* A step that ends the running call, by an exception or with its process.
LEMMA EndedCall ==
  ASSUME FilesInv, Abandon \/ (pc = "openSync" /\ UNCHANGED fileVars)
  PROVE  pc' = "openSync" /\ UNCHANGED dirs
BY DEF Abandon, fileVars

LEMMA SaveStep ==
  ASSUME FilesInv, NEW map \in SecretMap, loadMap(map), NEW new, saveMap(new),
         call \in Calls,
         \/ /\ call.method = "setSecret" /\ aesKey # Absent
            /\ new = [map EXCEPT ![call.id] = [sealedBy |-> aesKey, token |-> call.token]]
         \/ /\ call.method = "deleteSecret"
            /\ new = [map EXCEPT ![call.id] = Absent],
         call # Absent
  PROVE  Kept'
<1>1. /\ UNCHANGED <<dirs, passphrase, aesKey, call>>
      /\ path' = SecretsFile /\ tmp'.value = new
  BY DEF saveMap, Open
<1>2. /\ current' = current
      /\ \A i \in 1..Len(dirs') : Sound(dirs'[i])
  BY <1>1, SameDirectory
<1>3. map = secretsStored /\ ~Damaged(SecretsFile)
  BY LoadedMap
<1>4. secretsStored' = secretsStored /\ ~Damaged(SecretsFile)'
  BY <1>2, <1>3 DEF secretsStored, Damaged
<1>5. aesKey # Absent => aesKey \in AesKey
  BY DEF FilesInv, TypeOK
<1>6. MapPending'
  BY <1>1, <1>3, <1>4, <1>5 DEF MapPending
<1>. QED
  BY <1>1, <1>2, <1>6 DEF FilesInv, Kept, TypeOK, KeyFromSalt

LEMMA KeptStep ==
  ASSUME FilesInv, [Next]_vars
  PROVE  Kept'
<1>1. CASE UNCHANGED vars
  <2>1. UNCHANGED current /\ UNCHANGED secretsStored
    BY <1>1 DEF vars, fileVars, current, secretsStored
  <2>. QED
    BY <1>1, <2>1, SameDirectory, FilesKept
    DEF vars, fileVars, Kept, KeyFromSalt, SaltPending, MapPending, Damaged
<1>2. ASSUME NEW c \in Calls, Begin(c) PROVE Kept'
  \* No call runs, so no write does.
  <2>1. UNCHANGED <<pc, dirs, passphrase, aesKey>> /\ call' = c /\ pc = "openSync"
    BY <1>2 DEF Begin, fileVars, FilesInv
  <2>. QED
    BY <2>1, SameDirectory, FilesKept DEF Kept, KeyFromSalt
<1>3. CASE DeriveKey
  <2>1. /\ UNCHANGED <<pc, dirs, passphrase, call>> /\ pc = "openSync"
        /\ current[SaltFile] # NoFile
        /\ aesKey' = <<passphrase, current[SaltFile].value>>
        /\ passphrase # Absent
    BY <1>3 DEF DeriveKey, NeedsKey, Readable, fileVars
  <2>2. aesKey' \in AesKey /\ aesKey'[2] = current[SaltFile].value
    BY <2>1, CurrentSound, FilesKept DEF Sound, AesKey, Kept
  <2>. QED
    BY <2>1, <2>2, SameDirectory, FilesKept DEF Kept, KeyFromSalt
<1>4. ASSUME NEW salt \in Salt, CreateSalt(salt) PROVE Kept'
  <2>1. /\ UNCHANGED <<dirs, passphrase, aesKey, call>>
        /\ path' = SaltFile /\ tmp'.value = salt
        /\ current[SaltFile] = NoFile
        /\ aesKey = Absent /\ passphrase # Absent /\ call # Absent
    BY <1>4 DEF CreateSalt, NeedsKey, Open
  <2>2. SaltPending'
    BY <2>1, SameDirectory, FilesKept DEF Kept, SaltPending
  <2>. QED
    BY <2>1, <2>2, SameDirectory, FilesKept DEF Kept, KeyFromSalt
<1>5. CASE SetSecret
  BY <1>5, SaveStep DEF SetSecret, FilesInv, TypeOK
<1>6. CASE Return /\ pc = "openSync"
  BY <1>6, SameDirectory, FilesKept DEF Return, fileVars, Kept, KeyFromSalt
<1>7. CASE GetSecret
  BY <1>6, <1>7 DEF GetSecret
<1>8. CASE DeleteSecret
  BY <1>6, <1>8, SaveStep DEF DeleteSecret, FilesInv, TypeOK
<1>9. CASE SystemCall
  <2>1. ASSUME Fsync \/ \E amount \in {"beginning", "all"} : Write(amount),
               UNCHANGED <<passphrase, aesKey, call>>
        PROVE  Kept'
    <3>1. tmp \in File /\ pc # "openSync" /\ UNCHANGED <<dirs, path>>
      BY <2>1 DEF Fsync, Write, FilesInv, AtomicInv, FileTypeOK
    <3>2. tmp'.value = tmp.value
      BY <2>1, <3>1 DEF Fsync, Write, File
    <3>3. UNCHANGED secretsStored
      BY <3>1, SameDirectory DEF secretsStored
    <3>. QED
      BY <2>1, <3>1, <3>2, <3>3, SameDirectory, FilesKept
      DEF Kept, KeyFromSalt, SaltPending, MapPending, Damaged
  <2>2. ASSUME Rename, path = SaltFile,
               aesKey' = <<passphrase, tmp.value>>, UNCHANGED <<passphrase, call>>
        PROVE  Kept'
    <3>1. /\ current'[SaltFile] = tmp /\ tmp # NoFile
          /\ Sound(current') /\ SaltPending
      BY <2>2, SaltRenamed
    <3>2. aesKey' \in AesKey /\ aesKey'[2] = tmp.value
      BY <2>2, <3>1 DEF SaltPending, AesKey
    <3>3. \A i \in 1..Len(dirs') : Sound(dirs'[i])
      BY <2>2, <3>1, RenamedVersions DEF FilesInv
    <3>. QED
      BY <2>2, <3>1, <3>2, <3>3, FilesKept DEF Kept, KeyFromSalt, Rename
  <2>3. ASSUME Rename, path = SecretsFile,
               call' = Absent, UNCHANGED <<passphrase, aesKey>>
        PROVE  Kept'
    <3>1. current'[SaltFile] = current[SaltFile] /\ Sound(current')
      BY <2>3, MapRenamed
    <3>2. \A i \in 1..Len(dirs') : Sound(dirs'[i])
      BY <2>3, <3>1, RenamedVersions DEF FilesInv
    <3>. QED
      BY <2>3, <3>1, <3>2, FilesKept DEF Kept, KeyFromSalt, Rename
  <2>. QED
    BY <1>9, <2>1, <2>2, <2>3 DEF SystemCall
<1>10. CASE Throw
  BY <1>10, EndedCall, SameDirectory, FilesKept DEF Throw, Kept, KeyFromSalt
<1>11. CASE Restart
  BY <1>11, EndedCall, SameDirectory DEF Restart, NewProcess, Kept, KeyFromSalt
<1>12. CASE PowerCut
  <2>1. AtomicInv /\ PowerLoss /\ pc' = "openSync"
    BY <1>12 DEF FilesInv, PowerCut, PowerLoss
  <2>2. \A i \in 1..Len(dirs') : \E j \in 1..Len(dirs) : dirs'[i] = dirs[j]
    BY <2>1, LostVersions
  <2>. QED
    BY <1>12, <2>1, <2>2, VersionsSound DEF PowerCut, NewProcess, Kept, KeyFromSalt
<1>13. CASE WriteBack /\ UNCHANGED <<passphrase, aesKey, call>>
  <2>1. UNCHANGED <<pc, path, tmp, secretsStored>>
    BY <1>13, SameDirectory DEF WriteBack, secretsStored
  <2>. QED
    BY <1>13, <2>1, SameDirectory, FilesKept
    DEF Kept, KeyFromSalt, SaltPending, MapPending, Damaged
<1>. QED
  BY <1>1, <1>2, <1>3, <1>4, <1>5, <1>7, <1>8, <1>9, <1>10, <1>11, <1>12, <1>13 DEF Next

LEMMA FilesStep ==
  ASSUME FilesInv, [Next]_vars
  PROVE  FilesInv'
<1>1. AtomicInv'
  BY FileSteps, AtomicStep DEF FilesInv
<1>. QED
  BY <1>1, KeptStep DEF FilesInv, Kept, KeyFromSalt, TypeOK, AtomicInv

LEMMA FilesInvariant == Spec => []FilesInv
<1>1. FilesInv /\ [Next]_vars => FilesInv'
  BY FilesStep
<1>. QED
  BY FilesInit, <1>1, PTL DEF Spec

-----------------------------------------------------------------------------

(***************************************************************************)
(* secrets.salt and secrets.enc.json are found whole by every call of the  *)
(* store, whatever the calls before ran into (store.ts 103).               *)
(***************************************************************************)
THEOREM StoreFilesWhole == Spec => []AlwaysWhole
<1>1. FilesInv => AlwaysWhole
  BY CurrentIsVersion DEF FilesInv, AtomicInv, AlwaysWhole, Solid, Written, current
<1>. QED
  BY <1>1, FilesInvariant, PTL

(***************************************************************************)
(* However many renames a loss of power undoes, the salt of every entry    *)
(* left is in the salt file.                                               *)
(***************************************************************************)
THEOREM SaltSurvives == Spec => []SaltOutlastsPower
<1>1. FilesInv => SaltOutlastsPower
  BY StoredMap DEF SaltOutlastsPower, Store!SaltKept, SealedIn, saltStored
<1>. QED
  BY <1>1, FilesInvariant, PTL

(***************************************************************************)
(* A file its reader throws on, holding the beginning of a text only, is   *)
(* never written over, neither by the call that found it nor by one that   *)
(* was under way (store.ts 178, 190).  Not of these is a blank             *)
(* secrets.enc.json, which the code takes for no secrets (store.ts 189):   *)
(* none is left by its own writes (StoreFilesWhole), and one that was      *)
(* there before them holds no secret to lose.                              *)
(***************************************************************************)
THEOREM DamageIsKept == Spec => DamageStays
<1>1. ASSUME FilesInv, [Next]_vars, NEW p \in Paths,
             Damaged(p), ~PowerLoss
      PROVE  current'[p] = current[p]
  <2>1. UNCHANGED dirs \/ WriteBack \/ Rename
    BY <1>1, FileSteps DEF FileNext, fileVars, Open, Write, Fsync, Abandon
  <2>2. CASE UNCHANGED dirs \/ WriteBack
    BY <1>1, <2>2, SameDirectory
  <2>3. CASE Rename /\ path = SaltFile
    BY <1>1, <2>3, SaltRenamed DEF SaltPending, Damaged, Paths
  <2>4. CASE Rename /\ path = SecretsFile
    BY <1>1, <2>4, MapRenamed DEF MapPending, Damaged, Paths
  <2>5. Rename => path \in {SaltFile, SecretsFile}
    BY <1>1 DEF Rename, FilesInv, SaltPending, MapPending
  <2>. QED
    BY <2>1, <2>2, <2>3, <2>4, <2>5
<1>2. FilesInv /\ [Next]_vars =>
        [\A p \in Paths : Damaged(p) /\ ~PowerLoss => current'[p] = current[p]]_vars
  BY <1>1
<1>. QED
  BY <1>2, FilesInvariant, PTL DEF Spec, DamageStays

(***************************************************************************)
(* Seen through what the files were meant to hold, a method killed or      *)
(* failing anywhere has done its step of SecretStore or nothing.           *)
(***************************************************************************)
THEOREM FilesImplementStore == Spec => RefinesSecretStore
<1>1. Init => Store!SecretInit
  <2>. SUFFICES ASSUME Init PROVE Store!SecretInit
    OBVIOUS
  <2>. QED
    BY DEF Init, Store!SecretInit, secretsStored, saltStored, NoSecrets
<1>2. ASSUME FilesInv, [Next]_vars
      PROVE  [Store!SecretNext \/ PowerCut]_(Store!secretVars)
  <2>1. CASE UNCHANGED <<dirs, passphrase, aesKey>>
             \/ (WriteBack /\ UNCHANGED <<passphrase, aesKey>>)
    BY <1>2, <2>1, SameDirectory DEF Store!secretVars, secretsStored, saltStored
  <2>2. CASE DeriveKey
    <3>1. /\ UNCHANGED <<dirs, passphrase>>
          /\ aesKey = Absent /\ passphrase # Absent
          /\ current[SaltFile] # NoFile
          /\ aesKey' = <<passphrase, current[SaltFile].value>>
      BY <2>2 DEF DeriveKey, NeedsKey, Readable, fileVars
    <3>2. UNCHANGED <<secretsStored, saltStored>>
      BY <1>2, <3>1, SameDirectory DEF secretsStored, saltStored
    <3>3. /\ aesKey' \in AesKey
          /\ aesKey'[1] = passphrase /\ aesKey'[2] = saltStored
      BY <1>2, <3>1, CurrentSound DEF Sound, AesKey, FilesInv, TypeOK, saltStored
    <3>4. Store!GetKey(aesKey')
      BY <3>1, <3>2, <3>3 DEF Store!GetKey, Store!LoadOrCreateSalt
    <3>. QED
      BY <3>1, <3>2, <3>3, <3>4 DEF Store!SecretNext, Store!SetSecretThrows, Store!AesKey, AesKey
  <2>3. CASE SystemCall /\ Rename /\ path = SaltFile
    <3>1. /\ SaltPending
          /\ current'[SaltFile] = tmp /\ tmp # NoFile
          /\ current'[SecretsFile] = current[SecretsFile]
      BY <1>2, <2>3, SaltRenamed
    <3>2. aesKey' = <<passphrase, tmp.value>> /\ UNCHANGED passphrase
      BY <2>3 DEF SystemCall, Rename, Fsync, Write, SaltFile, SecretsFile
    <3>3. UNCHANGED secretsStored /\ saltStored = Absent /\ saltStored' = tmp.value
      BY <3>1 DEF SaltPending, secretsStored, saltStored
    <3>4. /\ aesKey' \in AesKey
          /\ aesKey'[1] = passphrase /\ aesKey'[2] = tmp.value
      BY <3>1, <3>2 DEF SaltPending, AesKey
    <3>5. Store!GetKey(aesKey')
      BY <3>1, <3>3, <3>4 DEF SaltPending, Store!GetKey, Store!LoadOrCreateSalt
    <3>. QED
      BY <3>2, <3>3, <3>4, <3>5 DEF Store!SecretNext, Store!SetSecretThrows, Store!AesKey, AesKey
  <2>4. CASE SystemCall /\ Rename /\ path = SecretsFile
    <3>1. /\ MapPending
          /\ current'[SecretsFile] = tmp /\ tmp # NoFile
          /\ current'[SaltFile] = current[SaltFile]
      BY <1>2, <2>4, MapRenamed
    <3>2. UNCHANGED <<passphrase, aesKey>>
      BY <2>4 DEF SystemCall, Rename, Fsync, Write, SaltFile, SecretsFile
    <3>3. UNCHANGED saltStored /\ secretsStored' = tmp.value
      <4>1. tmp.value # Blank
        BY <1>2, <3>1, PendingMap, BlankAssumption
      <4>. QED
        BY <3>1, <4>1 DEF secretsStored, saltStored
    <3>4. CASE call.method = "setSecret" /\ aesKey \in AesKey
               /\ tmp.value = [secretsStored EXCEPT ![call.id] =
                                  [sealedBy |-> aesKey, token |-> call.token]]
      <4>1. Store!GetKey(aesKey)
        BY <3>2, <3>3 DEF Store!GetKey
      <4>2. Store!SetSecret(call.id, call.token)
        BY <3>2, <3>3, <3>4, <4>1 DEF Store!SetSecret, Store!AesKey, AesKey
      <4>3. call.id \in KeyId /\ call.token \in Token
        BY <3>1 DEF MapPending, Calls
      <4>. QED
        BY <4>2, <4>3 DEF Store!SecretNext
    <3>5. CASE tmp.value = [secretsStored EXCEPT ![call.id] = Absent]
      <4>1. Store!DeleteSecret(call.id)
        BY <3>2, <3>3, <3>5 DEF Store!DeleteSecret
      <4>2. call.id \in KeyId
        BY <3>1 DEF MapPending, Calls
      <4>. QED
        BY <4>1, <4>2 DEF Store!SecretNext
    <3>. QED
      BY <3>1, <3>4, <3>5 DEF MapPending
  <2>5. CASE Restart
    <3>1. UNCHANGED dirs /\ passphrase' \in Passphrase \cup {Absent} /\ aesKey' = Absent
      BY <1>2, <2>5, EndedCall DEF Restart, NewProcess
    <3>2. UNCHANGED <<secretsStored, saltStored>>
      BY <1>2, <3>1, SameDirectory DEF secretsStored, saltStored
    <3>. QED
      BY <3>1, <3>2 DEF Store!SecretNext, Store!ReopenSecrets
  <2>6. CASE PowerCut
    BY <2>6
  <2>7. CASE SystemCall
    <3>1. CASE Rename
      BY <2>3, <2>4, <2>7, <3>1 DEF SystemCall, Rename, Fsync, Write
    <3>2. CASE ~Rename
      BY <2>1, <2>7, <3>2 DEF SystemCall, Fsync, Write
    <3>. QED
      BY <3>1, <3>2
  <2>8. CASE Throw
    BY <1>2, <2>1, <2>8, EndedCall DEF Throw
  <2>. QED
    BY <1>2, <2>1, <2>2, <2>5, <2>6, <2>7, <2>8
    DEF Next, vars, fileVars, Begin, CreateSalt, Open, SetSecret, saveMap, GetSecret,
        DeleteSecret, Return
<1>3. FilesInv /\ [Next]_vars => [Store!SecretNext \/ PowerCut]_(Store!secretVars)
  BY <1>2
<1>. QED
  BY <1>1, <1>3, FilesInvariant, PTL DEF Spec, RefinesSecretStore
=============================================================================
