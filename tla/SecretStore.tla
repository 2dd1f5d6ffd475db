---------------------------- MODULE SecretStore ----------------------------
(***************************************************************************)
(* The encrypted-file secret store, class EncryptedFileStore of            *)
(* src/gateway/store.ts: secrets.enc.json, secrets.salt and the memoized   *)
(* AES key.                                                                *)
(*                                                                         *)
(* The bodies of setSecret, getSecret and deleteSecret hold no await, so   *)
(* each is one step.  Every file is replaced atomically or, when the write *)
(* throws, left as it was.  A key is derived from (passphrase, salt) and   *)
(* AES-GCM authenticates: a blob decrypts under the key that sealed it and *)
(* under no other.                                                         *)
(***************************************************************************)
EXTENDS GatewayValues

VARIABLES
    secrets,      \* secrets.enc.json: id |-> blob, Absent when absent
    salt,         \* secrets.salt, Absent before first use
    passphrase,   \* GATEWAY_MASTER_PASSPHRASE of the running process
    aesKey        \* EncryptedFileStore.key, Absent until derived

secretVars == <<secrets, salt, passphrase, aesKey>>

SecretTypeOK == /\ secrets \in [KeyId -> Blob \cup {Absent}]
                /\ salt \in Salt \cup {Absent}
                /\ passphrase \in Passphrase \cup {Absent}
                /\ aesKey \in AesKey \cup {Absent}

SecretInit == /\ secrets = [id \in KeyId |-> Absent]
              /\ salt = Absent
              /\ passphrase \in Passphrase \cup {Absent}
              /\ aesKey = Absent

-----------------------------------------------------------------------------

\* Mutation: a salt is drawn although there is one.
LoadOrCreateSalt_Anew(s) == salt' = s

LoadOrCreateSalt(s) == /\ salt # Absent => s = salt
                       /\ salt' = s

\* getKey returning k: memoized, or derived from the environment and the salt.
GetKey(k) ==
    \/ /\ aesKey = k
       /\ UNCHANGED <<aesKey, salt>>
    \/ /\ aesKey = Absent
       /\ passphrase = k[1]
       /\ LoadOrCreateSalt(k[2])
       /\ aesKey' = k

\* getKey throwing: no passphrase, or the salt file cannot be written.
GetKeyThrows ==
    /\ aesKey = Absent
    /\ passphrase = Absent \/ salt = Absent
    /\ UNCHANGED <<aesKey, salt>>

SetSecret(id, token) ==
    /\ \E k \in AesKey :
          /\ GetKey(k)
          /\ secrets' = [secrets EXCEPT ![id] = [sealedBy |-> k, token |-> token]]
    /\ UNCHANGED passphrase

\* No key, or saveMap cannot write.
SetSecretThrows ==
    /\ GetKeyThrows \/ \E k \in AesKey : GetKey(k)
    /\ UNCHANGED <<secrets, passphrase>>

\* getSecret returning token.
GetSecret(id, token) ==
    /\ secrets[id] # Absent
    /\ GetKey(secrets[id].sealedBy)
    /\ token = secrets[id].token
    /\ UNCHANGED <<secrets, passphrase>>

\* getSecret returning undefined.
GetSecretMissing(id) ==
    /\ secrets[id] = Absent
    /\ UNCHANGED secretVars

\* getSecret throwing: no key, or not the key that sealed the entry.
GetSecretThrows(id) ==
    /\ secrets[id] # Absent
    /\ \/ GetKeyThrows
       \/ \E k \in AesKey \ {secrets[id].sealedBy} : GetKey(k)
    /\ UNCHANGED <<secrets, passphrase>>

\* An absent entry is not an error and is not written back.
DeleteSecret(id) ==
    /\ secrets' = [secrets EXCEPT ![id] = Absent]
    /\ UNCHANGED <<salt, passphrase, aesKey>>

\* A new process, started with passphrase p; the files stay.
ReopenSecrets(p) ==
    /\ passphrase' = p
    /\ aesKey' = Absent
    /\ UNCHANGED <<secrets, salt>>

SecretNext ==
    \/ SetSecretThrows
    \/ \E id \in KeyId :
        \/ \E t \in Token : SetSecret(id, t) \/ GetSecret(id, t)
        \/ GetSecretThrows(id)
        \/ DeleteSecret(id)
    \/ \E p \in Passphrase \cup {Absent} : ReopenSecrets(p)

SecretSpec == SecretInit /\ [][SecretNext]_secretVars

-----------------------------------------------------------------------------

(***************************************************************************)
(* Whatever is on disk can be decrypted again by restarting with the       *)
(* passphrase it was stored under: the salt every entry was sealed with is *)
(* the salt in the file.                                                   *)
(***************************************************************************)
SaltKept == \A id \in KeyId :
               secrets[id] # Absent => secrets[id].sealedBy[2] = salt
=============================================================================
