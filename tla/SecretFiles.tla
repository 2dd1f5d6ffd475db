---------------------------- MODULE SecretFiles ----------------------------
(***************************************************************************)
(* EncryptedFileStore (src/gateway/store.ts) down to its system calls: the *)
(* methods over secrets.salt and secrets.enc.json, each file replaced by   *)
(* writeFileAtomic0600.  One process at a time; the bodies hold no await,  *)
(* so calls do not interleave, but a call may throw, the process be killed *)
(* or the power go between any two system calls.                           *)
(***************************************************************************)
EXTENDS GatewayValues, AtomicFile

SaltFile == "secrets.salt"
SecretsFile == "secrets.enc.json"

Paths == {SaltFile, SecretsFile}

SecretMap == [KeyId -> Blob \cup {Absent}]

CONSTANT
    Blank    \* a text of white space only, or no text at all

Texts == Salt \cup SecretMap \cup {Blank}

ASSUME BlankAssumption == Blank \notin Salt \cup SecretMap

ASSUME PathsAssumption == Paths \subseteq Path /\ Texts \subseteq Value

VARIABLES
    passphrase,   \* GATEWAY_MASTER_PASSPHRASE of the running process
    aesKey,       \* EncryptedFileStore.key, Absent until derived
    call          \* the method that runs, or Absent

vars == <<fileVars, passphrase, aesKey, call>>

Calls == [method : {"setSecret", "getSecret", "deleteSecret"},
          id : KeyId, token : Token]

\* What readFileSync finds; only a whole text gets through JSON.parse and the
\* check of the salt's length.
Readable(p) == current[p] # NoFile /\ current[p].holds = "all"

\* raw.trim() leaves nothing of the file.
IsBlank(f) == f.value = Blank \/ f.holds = "nothing"

NoSecrets == [id \in KeyId |-> Absent]

\* Mutation: a file that does not parse is taken for an empty one.
loadMap_Lenient(map) ==
    map = IF Readable(SecretsFile) /\ ~IsBlank(current[SecretsFile])
          THEN current[SecretsFile].value ELSE NoSecrets

\* The map that loadMap returns; it throws where there is none.
loadMap(map) ==
    LET f == current[SecretsFile]
    IN  \/ f = NoFile /\ map = NoSecrets
        \/ f # NoFile /\ IsBlank(f) /\ map = NoSecrets
        \/ Readable(SecretsFile) /\ ~IsBlank(f) /\ map = f.value

TypeOK == /\ FileTypeOK
          /\ passphrase \in Passphrase \cup {Absent}
          /\ aesKey \in AesKey \cup {Absent}
          /\ call \in Calls \cup {Absent}

\* A directory nobody has written to, but where an operator may have made an
\* empty secrets.enc.json.
Init == /\ FileInit
        /\ current[SaltFile] = NoFile
        /\ current[SecretsFile] # NoFile => current[SecretsFile].value = Blank
        /\ passphrase \in Passphrase \cup {Absent}
        /\ aesKey = Absent
        /\ call = Absent

-----------------------------------------------------------------------------

Begin(c) ==
    /\ call = Absent
    /\ call' = c
    /\ UNCHANGED <<fileVars, passphrase, aesKey>>

Return ==
    /\ call' = Absent
    /\ UNCHANGED <<fileVars, passphrase, aesKey>>

\* setSecret asks for the key first, getSecret when there is an entry.
NeedsKey ==
    /\ call # Absent /\ pc = "openSync"
    /\ aesKey = Absent /\ passphrase # Absent
    /\ \/ call.method = "setSecret"
       \/ /\ call.method = "getSecret"
          /\ \E map \in SecretMap : loadMap(map) /\ map[call.id] # Absent

\* getKey with the salt that is there.
DeriveKey ==
    /\ NeedsKey
    /\ Readable(SaltFile)
    /\ aesKey' = <<passphrase, current[SaltFile].value>>
    /\ UNCHANGED <<fileVars, passphrase, call>>

\* Mutation: the key is derived from the salt drawn, which is not written.
CreateSalt_InMemory(salt) ==
    /\ NeedsKey
    /\ current[SaltFile] = NoFile
    /\ aesKey' = <<passphrase, salt>>
    /\ UNCHANGED <<fileVars, passphrase, call>>

CreateSalt(salt) ==
    /\ NeedsKey
    /\ current[SaltFile] = NoFile
    /\ Open(SaltFile, salt)
    /\ UNCHANGED <<passphrase, aesKey, call>>

saveMap(map) ==
    /\ Open(SecretsFile, map)
    /\ UNCHANGED <<passphrase, aesKey, call>>

\* Mutation: the entry is saved without those there.
SetSecret_Alone ==
    /\ call # Absent /\ call.method = "setSecret" /\ aesKey # Absent
    /\ saveMap([NoSecrets EXCEPT ![call.id] = [sealedBy |-> aesKey, token |-> call.token]])

SetSecret ==
    /\ call # Absent /\ call.method = "setSecret" /\ aesKey # Absent
    /\ \E map \in SecretMap :
          /\ loadMap(map)
          /\ saveMap([map EXCEPT ![call.id] = [sealedBy |-> aesKey, token |-> call.token]])

\* Returns undefined for no entry; decrypts, or throws, with the key.
GetSecret ==
    /\ call # Absent /\ call.method = "getSecret"
    /\ pc = "openSync"
    /\ \E map \in SecretMap :
          /\ loadMap(map)
          /\ map[call.id] = Absent \/ aesKey # Absent
    /\ Return

DeleteSecret ==
    /\ call # Absent /\ call.method = "deleteSecret"
    /\ \E map \in SecretMap :
          /\ loadMap(map)
          /\ IF map[call.id] # Absent
             THEN saveMap([map EXCEPT ![call.id] = Absent])
             ELSE pc = "openSync" /\ Return

\* The writes in writeFileAtomic0600, and its end: the salt's is followed by
\* the derivation of the key, the map's by the return of the method.
SystemCall ==
    \/ /\ Fsync \/ \E amount \in {"beginning", "all"} : Write(amount)
       /\ UNCHANGED <<passphrase, aesKey, call>>
    \/ /\ Rename /\ path = SaltFile
       /\ aesKey' = <<passphrase, tmp.value>>
       /\ UNCHANGED <<passphrase, call>>
    \/ /\ Rename /\ path = SecretsFile
       /\ call' = Absent
       /\ UNCHANGED <<passphrase, aesKey>>

\* A system call fails, a file is damaged, or there is no passphrase.
Throw ==
    /\ call # Absent
    /\ Abandon \/ (pc = "openSync" /\ UNCHANGED fileVars)
    /\ call' = Absent
    /\ UNCHANGED <<passphrase, aesKey>>

NewProcess ==
    /\ passphrase' \in Passphrase \cup {Absent}
    /\ aesKey' = Absent
    /\ call' = Absent

Restart == /\ Abandon \/ (pc = "openSync" /\ UNCHANGED fileVars)
           /\ NewProcess

PowerCut == PowerLoss /\ NewProcess

Next == \/ \E c \in Calls : Begin(c)
        \/ DeriveKey
        \/ \E salt \in Salt : CreateSalt(salt)
        \/ SetSecret
        \/ GetSecret
        \/ DeleteSecret
        \/ SystemCall
        \/ Throw
        \/ Restart
        \/ PowerCut
        \/ WriteBack /\ UNCHANGED <<passphrase, aesKey, call>>

Spec == Init /\ [][Next]_vars

-----------------------------------------------------------------------------

\* What the files were meant to hold.
secretsStored == IF current[SecretsFile] = NoFile \/ current[SecretsFile].value = Blank
                 THEN NoSecrets ELSE current[SecretsFile].value
saltStored == IF current[SaltFile] = NoFile THEN Absent
              ELSE current[SaltFile].value

\* A file that its reader throws on.
Damaged(p) == /\ current[p] # NoFile /\ current[p].holds # "all"
              /\ ~(p = SecretsFile /\ IsBlank(current[p]))

Store == INSTANCE SecretStore WITH secrets <- secretsStored, salt <- saltStored

(***************************************************************************)
(* Whatever power losses undo, no entry is left without the salt it was    *)
(* sealed with: the salt is under its path before the first entry is       *)
(* (store.ts 170, 182, 198), and renames reach the disk in their order.    *)
(* What a short write does to the salt file itself is DamageStays.         *)
(***************************************************************************)
SaltOutlastsPower == Store!SaltKept

(***************************************************************************)
(* A damaged file, of which only the beginning was written, stays for the  *)
(* operator to look at: the store refuses to work with it and never writes *)
(* over it, so that a short write costs one file and not, silently, every  *)
(* secret stored before (store.ts 178, 190).  A blank secrets.enc.json is  *)
(* no damage: the code takes it for no secrets (store.ts 189) and writes   *)
(* over it; that its own writes never leave one, which would be to forget  *)
(* every secret, is AlwaysWhole and RefinesSecretStore.                    *)
(***************************************************************************)
DamageStays ==
    [][\A p \in Paths : Damaged(p) /\ ~PowerLoss => current'[p] = current[p]]_vars

(***************************************************************************)
(* The methods, killed or failing at any system call, do what SecretStore  *)
(* says in one step or leave everything as it was; only a loss of power    *)
(* undoes more.                                                            *)
(***************************************************************************)
RefinesSecretStore ==
    Store!SecretInit /\ [][Store!SecretNext \/ PowerCut]_(Store!secretVars)
=============================================================================
