------------------------------ MODULE KeyRegistry ------------------------------
(***************************************************************************)
(* key_registry.go: the data keys that encrypt tables and logs, the        *)
(* KEYREGISTRY file they are kept in, rotation by age, and what Open finds *)
(* after a write was cut short by an error or a crash.  A key is its id    *)
(* and the number of its creation (its random bytes).                      *)
(***************************************************************************)
EXTENDS Integers, Sequences, SequencesExt, FiniteSetsExt

CONSTANTS
  KeyCallers,        \* builders of tables and logs, which ask for the latest key
  RotationDuration,  \* EncryptionKeyRotationDuration
  RegMaxTime,        \* bound: the clock
  RegMaxKeys,        \* bound: keys generated
  RegMaxDown         \* bound: crashes and closes

ASSUME KeyRegistryAssumption == {RotationDuration, RegMaxTime, RegMaxKeys, RegMaxDown} \subseteq Nat

VARIABLES
  regFile,       \* the records after the sanity text
  dataKeys,      \* id -> key
  nextKeyID, lastCreated,
  regClock,
  regStatus,     \* "up", "down", or "failed": Open returned an error
  keyCaller,     \* caller -> where it is in LatestDataKey
  given,         \* history: keys LatestDataKey returned
  nMade, nDown   \* history: keys generated; crashes and closes

registryVars == <<regFile, dataKeys, nextKeyID, lastCreated, regClock, regStatus, keyCaller, given, nMade, nDown>>

NoKeys == [i \in {} |-> 0]

(* WriteKeyRegistry of an empty registry (a temporary file, renamed).  The *)
(* clock starts long after the epoch.                                      *)
RegistryInit ==
  /\ regFile = <<>> /\ dataKeys = NoKeys /\ nextKeyID = 0 /\ lastCreated = 0
  /\ regClock = RotationDuration /\ regStatus = "up"
  /\ keyCaller = [c \in KeyCallers |-> "idle"]
  /\ given = {} /\ nMade = 0 /\ nDown = 0

validKey == regClock - lastCreated < RotationDuration

returnLatest(c) ==
  /\ keyCaller' = [keyCaller EXCEPT ![c] = "idle"]
  /\ given' = given \cup {IF nextKeyID \in DOMAIN dataKeys THEN dataKeys[nextKeyID] ELSE [id |-> 0, made |-> 0]}

(* LatestDataKey: a first look under the read lock ...                     *)
LatestDataKey(c) ==
  /\ regStatus = "up" /\ keyCaller[c] = "idle"
  /\ \/ validKey /\ returnLatest(c)
     \/ ~ validKey /\ keyCaller' = [keyCaller EXCEPT ![c] = "lock"] /\ UNCHANGED given
  /\ UNCHANGED <<regFile, dataKeys, nextKeyID, lastCreated, regClock, regStatus, nMade, nDown>>

(* ... and a second one under the lock, where another caller may have made *)
(* the key.                                                                *)
validNow(c) ==
  /\ keyCaller[c] = "lock" /\ validKey /\ returnLatest(c)
  /\ UNCHANGED <<regFile, dataKeys, nextKeyID, lastCreated, regClock, regStatus, nMade, nDown>>

newKey == [id |-> nextKeyID + 1, made |-> nMade + 1]
record(tear) == [id |-> newKey.id, made |-> newKey.made, at |-> regClock, tear |-> tear]

(* A new key is written to the file before it is returned.                 *)
writeKey(c) ==
  /\ keyCaller[c] = "lock" /\ ~ validKey /\ nMade < RegMaxKeys
  /\ nextKeyID' = nextKeyID + 1 /\ nMade' = nMade + 1
  /\ regFile' = Append(regFile, record("no"))
  /\ dataKeys' = [i \in DOMAIN dataKeys \cup {newKey.id} |-> IF i = newKey.id THEN newKey ELSE dataKeys[i]]
  /\ lastCreated' = regClock
  /\ given' = given \cup {newKey} /\ keyCaller' = [keyCaller EXCEPT ![c] = "idle"]
  /\ UNCHANGED <<regClock, regStatus, nDown>>

(* What a write that did not finish leaves: nothing, part of the eight     *)
(* bytes of length and checksum, or these and part of the key.             *)
tornFiles == {regFile} \cup {Append(regFile, record(t)) : t \in {"header", "body"}}

(* The write fails: the id is used up, the key is not.                     *)
writeKeyError(c) ==
  /\ keyCaller[c] = "lock" /\ ~ validKey /\ nMade < RegMaxKeys
  /\ nextKeyID' = nextKeyID + 1 /\ nMade' = nMade + 1
  /\ regFile' \in tornFiles
  /\ keyCaller' = [keyCaller EXCEPT ![c] = "idle"]
  /\ UNCHANGED <<dataKeys, lastCreated, regClock, regStatus, given, nDown>>

regTick ==
  /\ regClock < RegMaxTime /\ regClock' = regClock + 1
  /\ UNCHANGED <<regFile, dataKeys, nextKeyID, lastCreated, regStatus, keyCaller, given, nMade, nDown>>

(* Close, or a crash, which may find a caller in the middle of its write.  *)
regDown ==
  /\ regStatus = "up" /\ nDown < RegMaxDown /\ nDown' = nDown + 1 /\ regStatus' = "down"
  /\ \/ UNCHANGED <<regFile, nMade>>
     \/ /\ \E c \in KeyCallers : keyCaller[c] = "lock" /\ ~ validKey
        /\ nMade < RegMaxKeys /\ nMade' = nMade + 1 /\ regFile' \in tornFiles
  /\ dataKeys' = NoKeys /\ nextKeyID' = 0 /\ lastCreated' = 0
  /\ keyCaller' = [c \in KeyCallers |-> "idle"]
  /\ UNCHANGED <<regClock, given>>

(* keyRegistryIterator.next: a length that cannot be read ends the file,   *)
(* as the end of it does; a key that is cut short, or anything after an    *)
(* incomplete record, has the wrong checksum.                              *)
registryReadable ==
  \A i \in DOMAIN regFile :
    regFile[i].tear = "no" \/ (regFile[i].tear = "header" /\ i = Len(regFile))

complete == {r \in ToSet(regFile) : r.tear = "no"}

maxKeyID_zero == 0
maxKeyID == Max({0} \cup {r.id : r \in complete})

(* OpenKeyRegistry and readKeyRegistry: of two records with one id the     *)
(* later one counts.                                                       *)
lastWith(i) == CHOOSE r \in complete : r.id = i /\ \A q \in complete : q.id = i => q.made <= r.made

OpenKeyRegistry ==
  /\ regStatus = "down"
  /\ \/ /\ registryReadable /\ regStatus' = "up"
        /\ dataKeys' = [i \in {r.id : r \in complete} |-> [id |-> i, made |-> lastWith(i).made]]
        /\ nextKeyID' = maxKeyID /\ lastCreated' = Max({0} \cup {r.at : r \in complete})
     \/ ~ registryReadable /\ regStatus' = "failed" /\ UNCHANGED <<dataKeys, nextKeyID, lastCreated>>
  /\ UNCHANGED <<regFile, regClock, keyCaller, given, nMade, nDown>>

RegistryNext ==
  \/ \E c \in KeyCallers : LatestDataKey(c) \/ validNow(c) \/ writeKey(c) \/ writeKeyError(c)
  \/ regTick \/ regDown \/ OpenKeyRegistry

RegistrySpec == RegistryInit /\ [][RegistryNext]_registryVars

-----------------------------------------------------------------------------
(* While the registry is open it has every key that LatestDataKey ever     *)
(* returned, under its id, in this life of the process or an earlier one:  *)
(* a table written with a key can be decrypted.  Failed writes use up ids, *)
(* and a torn record may be followed by others.                            *)
KeysSurvive ==
  regStatus = "up" => \A k \in given : k.id \in DOMAIN dataKeys /\ dataKeys[k.id] = k

(* A registry that was written by this code can be opened again.  It does  *)
(* not hold: a record behind a torn one is read as part of it.             *)
RegistryOpens == regStatus # "failed"

-----------------------------------------------------------------------------
(* Why: the inductive invariant behind KeysSurvive.                        *)
Records == [id : Nat, made : Nat, at : 0 .. regClock, tear : {"no", "header", "body"}]

RegistryType ==
  /\ regFile \in Seq(Records) /\ regStatus \in {"up", "down", "failed"}
  /\ {nextKeyID, lastCreated, nMade, nDown} \subseteq Nat
  /\ regClock \in Nat /\ regClock >= RotationDuration
  /\ keyCaller \in [KeyCallers -> {"idle", "lock"}]
  /\ \A c \in KeyCallers : keyCaller[c] = "lock" => regStatus = "up"

(* The file has every key that was returned, and one key with an id.       *)
FileHasKeys ==
  /\ \A k \in given : \E r \in complete : r.id = k.id /\ k = [id |-> r.id, made |-> r.made]
  /\ \A r, q \in complete : r.id = q.id => r = q
  /\ \A r \in complete : 0 < r.id /\ r.id <= nMade

(* The open registry has the keys of the file, and makes new ids.  As long *)
(* as the latest key is valid, it is there.                                *)
MapHasFile ==
  regStatus = "up" =>
    /\ DOMAIN dataKeys = {r.id : r \in complete}
    /\ \A r \in complete : dataKeys[r.id] = [id |-> r.id, made |-> r.made] /\ r.id <= nextKeyID
    /\ nextKeyID <= nMade
    /\ validKey => nextKeyID \in DOMAIN dataKeys

RegistryInv == RegistryType /\ FileHasKeys /\ MapHasFile
=============================================================================
