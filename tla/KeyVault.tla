------------------------------ MODULE KeyVault ------------------------------
(***************************************************************************)
(* The encrypted SSH key vault of key_vault.go, with the three kinds of    *)
(* process that touch it at the same time:                                 *)
(*                                                                         *)
(*   - writers: provisioning pipelines inside StorePrivateKey;             *)
(*   - readers: backend requests (key downloads and the VM list), which    *)
(*     take a record under the mutex and open its file after releasing it; *)
(*   - bridge readers: the SSH bridge, another process, which reads        *)
(*     index.json and the key file with no lock at all.                    *)
(*                                                                         *)
(* The backend may crash between any two steps and be started again.  A    *)
(* key is identified with the fresh file name it is stored under, so       *)
(* "which key" is "which file".                                            *)
(***************************************************************************)
EXTENDS Naturals, FiniteSets

CONSTANTS VMID,          \* VMIDs, positive as StorePrivateKey requires
          DownloadName,  \* results of sanitizeKeyName
          CipherFile,    \* random names of encrypted key files
          Writer, Reader, BridgeReader,
          MaxCrashes     \* bound on crashes of the backend

ASSUME VMIDAssumption == VMID \subseteq Nat \ {0}
ASSUME NameAssumption == "" \notin DownloadName /\ "" \notin CipherFile
ASSUME ProcessAssumption == Reader \cap BridgeReader = {}
ASSUME CrashAssumption == MaxCrashes \in Nat

VARIABLES
  up,          \* is the backend process running?
  crashes,     \* how often it has crashed
  mu,          \* writers inside the critical section of v.mu, at most one
  records,     \* v.records, NoRecord where the map has no entry
  nameToVMID,  \* v.nameToVMID, 0 where the map has no entry
  sealed,      \* what each key file was sealed for (its additional data)
  disk,        \* key files that exist in the vault directory
  index,       \* contents of index.json
  call,        \* one StorePrivateKey call per writer
  req,         \* one lookup per reader
  lost,        \* history: VMIDs whose store a crash cut short
  acked        \* history: the key whose store returned no error, per VMID

backend == <<records, nameToVMID>>
vars == <<up, crashes, mu, records, nameToVMID, sealed, disk, index,
          call, req, lost, acked>>

Readers == Reader \cup BridgeReader

\* The zero value of sshKeyRecord, which a Go map yields for a missing key.
NoRecord == [VMID |-> 0, DownloadName |-> "", CipherFile |-> ""]
sshKeyRecord == [VMID : VMID, DownloadName : DownloadName,
                 CipherFile : CipherFile]

AAD == [VMID : VMID, DownloadName : DownloadName]
NotSealed == [VMID |-> 0, DownloadName |-> ""]
Aad(rec) == [VMID |-> rec.VMID, DownloadName |-> rec.DownloadName]

NoCall == [pc |-> "idle", rec |-> NoRecord]
NoRequest == [pc |-> "idle", asked |-> 0, rec |-> NoRecord, outcome |-> ""]

TypeOK ==
  /\ up \in BOOLEAN
  /\ crashes \in 0 .. MaxCrashes
  /\ mu \subseteq Writer
  /\ \A w1, w2 \in mu : w1 = w2
  /\ records \in [VMID -> sshKeyRecord \cup {NoRecord}]
  /\ nameToVMID \in [DownloadName -> VMID \cup {0}]
  /\ sealed \in [CipherFile -> AAD \cup {NotSealed}]
  /\ disk \subseteq CipherFile
  /\ index \in [VMID -> sshKeyRecord \cup {NoRecord}]
  /\ call \in [Writer -> [pc : {"idle", "sealed", "locked", "replaced"},
                          rec : sshKeyRecord \cup {NoRecord}]]
  /\ req \in [Readers -> [pc : {"idle", "found", "listed", "done"},
                          asked : VMID \cup DownloadName \cup {0},
                          rec : sshKeyRecord \cup {NoRecord},
                          outcome : {"", "ok", "not found", "error"}]]
  /\ lost \subseteq VMID
  /\ acked \in [VMID -> CipherFile \cup {""}]

Init ==
  /\ up = TRUE
  /\ crashes = 0
  /\ mu = {}
  /\ records = [v \in VMID |-> NoRecord]
  /\ nameToVMID = [d \in DownloadName |-> 0]
  /\ sealed = [f \in CipherFile |-> NotSealed]
  /\ disk = {}
  /\ index = [v \in VMID |-> NoRecord]
  /\ call = [w \in Writer |-> NoCall]
  /\ req = [r \in Readers |-> NoRequest]
  /\ lost = {}
  /\ acked = [v \in VMID |-> ""]

-----------------------------------------------------------------------------
(* StorePrivateKey                                                         *)

\* Seal the key under a fresh file name and write the file, before the lock.
WriteCipherFile(w, v, d, f) ==
  /\ up
  /\ call[w].pc = "idle"
  /\ sealed[f] = NotSealed
  /\ sealed' = [sealed EXCEPT ![f] = [VMID |-> v, DownloadName |-> d]]
  /\ disk' = disk \cup {f}
  /\ call' = [call EXCEPT ![w] =
                [pc |-> "sealed",
                 rec |-> [VMID |-> v, DownloadName |-> d, CipherFile |-> f]]]
  /\ UNCHANGED <<up, crashes, mu, backend, index, req, lost, acked>>

\* Mutant: the maps are used without v.mu.
Lock_Unguarded(w) ==
  /\ call[w].pc = "sealed"
  /\ mu' = mu \cup {w}
  /\ call' = [call EXCEPT ![w].pc = "locked"]
  /\ UNCHANGED <<up, crashes, backend, sealed, disk, index, req, lost, acked>>

Lock(w) ==
  /\ call[w].pc = "sealed"
  /\ mu = {}
  /\ mu' = {w}
  /\ call' = [call EXCEPT ![w].pc = "locked"]
  /\ UNCHANGED <<up, crashes, backend, sealed, disk, index, req, lost, acked>>

\* Mutant: the previous name is not deleted.
Renamed_KeepsOldName(names, prev, rec) ==
  [names EXCEPT ![rec.DownloadName] = rec.VMID]

\* The map entries after the previous record's name is deleted and the new
\* one's is set, in this order.
Renamed(names, prev, rec) ==
  [d \in DownloadName |->
     IF d = rec.DownloadName THEN rec.VMID
     ELSE IF prev # NoRecord /\ d = prev.DownloadName THEN 0
     ELSE names[d]]

\* Mutant: every key file stored under the new name is taken for an old one.
OldFiles_SameName(rec, prev) ==
  {prev.CipherFile}
    \cup {records[v].CipherFile :
             v \in {u \in VMID : records[u].DownloadName = rec.DownloadName}}

\* The key file that a store of rec makes obsolete.
OldFiles(rec, prev) == {prev.CipherFile}

\* Remove the previous key file (an error of os.Remove is ignored) and
\* point both maps at the new record.
Replace(w) ==
  LET rec  == call[w].rec
      prev == records[rec.VMID]
  IN  /\ call[w].pc = "locked"
      /\ \E removed \in SUBSET (OldFiles(rec, prev) \cap disk) :
            disk' = disk \ removed
      /\ records' = [records EXCEPT ![rec.VMID] = rec]
      /\ nameToVMID' = Renamed(nameToVMID, prev, rec)
      /\ call' = [call EXCEPT ![w].pc = "replaced"]
      /\ lost' = lost \ {rec.VMID}
      /\ acked' = [acked EXCEPT ![rec.VMID] = ""]
      /\ UNCHANGED <<up, crashes, mu, sealed, index, req>>

\* Mutant: the index is marshalled before the new record is in the map.
SaveIndex_Stale(w) ==
  LET v == call[w].rec.VMID
  IN  /\ call[w].pc = "replaced"
      /\ index' = [records EXCEPT ![v] = index[v]]
      /\ mu' = mu \ {w}
      /\ call' = [call EXCEPT ![w] = NoCall]
      /\ acked' = [acked EXCEPT ![v] = call[w].rec.CipherFile]
      /\ UNCHANGED <<up, crashes, backend, sealed, disk, req, lost>>

\* saveIndexLocked renames the temporary file over index.json; unlock.
SaveIndex(w) ==
  /\ call[w].pc = "replaced"
  /\ index' = records
  /\ mu' = mu \ {w}
  /\ call' = [call EXCEPT ![w] = NoCall]
  /\ acked' = [acked EXCEPT ![call[w].rec.VMID] = call[w].rec.CipherFile]
  /\ UNCHANGED <<up, crashes, backend, sealed, disk, req, lost>>

\* Mutant: the new key file is cleaned up, the map still refers to it.
SaveIndexFails_RemovesFile(w) ==
  /\ call[w].pc = "replaced"
  /\ mu' = mu \ {w}
  /\ disk' = disk \ {call[w].rec.CipherFile}
  /\ call' = [call EXCEPT ![w] = NoCall]
  /\ UNCHANGED <<up, crashes, backend, sealed, index, req, lost, acked>>

\* Writing or renaming the index fails: an error is returned, the maps keep
\* the new record.
SaveIndexFails(w) ==
  /\ call[w].pc = "replaced"
  /\ mu' = mu \ {w}
  /\ call' = [call EXCEPT ![w] = NoCall]
  /\ UNCHANGED <<up, crashes, backend, sealed, disk, index, req, lost, acked>>

-----------------------------------------------------------------------------
(* Lookups of the backend                                                  *)

Answer(r, asked, rec) ==
  req' = [req EXCEPT ![r] =
            IF rec = NoRecord
            THEN [pc |-> "done", asked |-> asked, rec |-> rec,
                  outcome |-> "not found"]
            ELSE [pc |-> "found", asked |-> asked, rec |-> rec,
                  outcome |-> ""]]

GetPrivateKeyByVMID(r, v) ==
  /\ up /\ mu = {}
  /\ req[r].pc = "idle"
  /\ Answer(r, v, records[v])
  /\ UNCHANGED <<up, crashes, mu, backend, sealed, disk, index, call, lost, acked>>

GetPrivateKeyByFilename(r, d) ==
  /\ up /\ mu = {}
  /\ req[r].pc = "idle"
  /\ Answer(r, d, IF nameToVMID[d] = 0 THEN NoRecord ELSE records[nameToVMID[d]])
  /\ UNCHANGED <<up, crashes, mu, backend, sealed, disk, index, call, lost, acked>>

\* Open the key file after the lock is released, and decrypt it.
decryptRecord(r) ==
  /\ req[r].pc = "found"
  /\ req' = [req EXCEPT ![r].pc = "done",
                        ![r].outcome =
                            IF req[r].rec.CipherFile \notin disk THEN "not found"
                            ELSE IF sealed[req[r].rec.CipherFile] = Aad(req[r].rec)
                                 THEN "ok" ELSE "error"]
  /\ UNCHANGED <<up, crashes, mu, backend, sealed, disk, index, call, lost, acked>>

\* The VM list asks HasKeyForVM and, in a second critical section,
\* KeyFileNameForVM.
HasKeyForVM(r, v) ==
  /\ up /\ mu = {}
  /\ req[r].pc = "idle"
  /\ req' = [req EXCEPT ![r] =
               [pc |-> IF records[v] = NoRecord THEN "done" ELSE "listed",
                asked |-> v, rec |-> NoRecord, outcome |-> "not found"]]
  /\ UNCHANGED <<up, crashes, mu, backend, sealed, disk, index, call, lost, acked>>

KeyFileNameForVM(r) ==
  /\ mu = {}
  /\ req[r].pc = "listed"
  /\ req' = [req EXCEPT ![r] =
               [pc |-> "done", asked |-> req[r].asked,
                rec |-> records[req[r].asked],
                outcome |-> IF records[req[r].asked] = NoRecord
                            THEN "error" ELSE "ok"]]
  /\ UNCHANGED <<up, crashes, mu, backend, sealed, disk, index, call, lost, acked>>

\* The bridge's loadPrivateKeyForVM: find the record in index.json, whether
\* the backend runs or not; decryptRecord models its second half as well.
BridgeReadIndex(r, v) ==
  /\ req[r].pc = "idle"
  /\ Answer(r, v, index[v])
  /\ UNCHANGED <<up, crashes, mu, backend, sealed, disk, index, call, lost, acked>>

Respond(r) ==
  /\ req[r].pc = "done"
  /\ req' = [req EXCEPT ![r] = NoRequest]
  /\ UNCHANGED <<up, crashes, mu, backend, sealed, disk, index, call, lost, acked>>

-----------------------------------------------------------------------------
(* Crash and restart of the backend                                        *)

\* VMIDs of whom memory and index.json tell different stories.
Unsaved == {v \in VMID : records[v] # index[v]}

Crash ==
  /\ up
  /\ crashes < MaxCrashes
  /\ up' = FALSE
  /\ crashes' = crashes + 1
  /\ mu' = {}
  /\ records' = [v \in VMID |-> NoRecord]
  /\ nameToVMID' = [d \in DownloadName |-> 0]
  /\ call' = [w \in Writer |-> NoCall]
  /\ req' = [r \in Readers |-> IF r \in Reader THEN NoRequest ELSE req[r]]
  /\ lost' = lost \cup Unsaved
  /\ UNCHANGED <<sealed, disk, index, acked>>

\* VMIDs whose record in the index has download name d.
Named(d) == {v \in VMID : index[v].DownloadName = d}

\* newSSHKeyVault: among records of one name, the last in the file wins, and
\* the file's order is that of a map iteration.
loadIndex ==
  /\ ~up
  /\ up' = TRUE
  /\ records' = index
  /\ nameToVMID' \in [DownloadName -> VMID \cup {0}]
  /\ \A d \in DownloadName :
        IF Named(d) = {} THEN nameToVMID'[d] = 0
                         ELSE nameToVMID'[d] \in Named(d)
  /\ UNCHANGED <<crashes, mu, sealed, disk, index, call, req, lost, acked>>

-----------------------------------------------------------------------------
StorePrivateKey(w) ==
  \/ \E v \in VMID, d \in DownloadName, f \in CipherFile :
        WriteCipherFile(w, v, d, f)
  \/ Lock(w)
  \/ Replace(w)
  \/ SaveIndex(w)
  \/ SaveIndexFails(w)

Download(r) ==
  \/ \E v \in VMID : GetPrivateKeyByVMID(r, v) \/ HasKeyForVM(r, v)
  \/ \E d \in DownloadName : GetPrivateKeyByFilename(r, d)
  \/ KeyFileNameForVM(r)

BridgeLoad(r) == \E v \in VMID : BridgeReadIndex(r, v)

Next ==
  \/ \E w \in Writer : StorePrivateKey(w)
  \/ \E r \in Reader : Download(r)
  \/ \E r \in BridgeReader : BridgeLoad(r)
  \/ \E r \in Readers : decryptRecord(r) \/ Respond(r)
  \/ Crash
  \/ loadIndex

Spec == Init /\ [][Next]_vars
-----------------------------------------------------------------------------
(* Properties                                                              *)

\* The filename route and the VMID route agree: a name in v.nameToVMID leads
\* to a record that carries this very name (lookups by filename serve the
\* record of whatever VMID the map holds, GetPrivateKeyByFilename).
NameMapSound ==
  \A d \in DownloadName :
     nameToVMID[d] # 0 => /\ records[nameToVMID[d]] # NoRecord
                          /\ records[nameToVMID[d]].DownloadName = d

\* Whatever stores, crashes and restarts happen between looking a record up
\* and opening its file, a lookup never decrypts a key sealed for another VM
\* or another name than the one asked for, never opens a file that was sealed
\* differently (decryptRecord's additional data), and the VM list never finds
\* a key it has just reported gone.
ReadsRightKey ==
  \A r \in Readers :
     /\ req[r].outcome # "error"
     /\ req[r].outcome = "ok" =>
           req[r].asked \in {req[r].rec.VMID, req[r].rec.DownloadName}

\* The records a download starts from: the map of the running backend, or
\* the index it will load when it is started again.
Serving == IF up THEN records ELSE index

\* rec is no longer what its VM's download starts from, or a crash cut a
\* store for this VM short.
Superseded(rec) == \/ Serving[rec.VMID].CipherFile # rec.CipherFile
                   \/ rec.VMID \in lost

MissesFileOnlyIfSuperseded(rec) ==
  rec # NoRecord /\ rec.CipherFile \notin disk => Superseded(rec)

\* StorePrivateKey removes the old key file before the new index is in
\* place.  Even so, a record in memory, in index.json or in the hands of a
\* reader misses its file only if a newer store for the same VM replaced it:
\* no VM's key disappears because of a store for another VM.
FileGoneOnlyIfReplaced ==
  /\ \A v \in VMID : /\ MissesFileOnlyIfSuperseded(records[v])
                     /\ MissesFileOnlyIfSuperseded(index[v])
  /\ \A r \in Readers : MissesFileOnlyIfSuperseded(req[r].rec)

\* Once StorePrivateKey has returned a key's name, the key survives every
\* crash, failed save and store for other VMs, until the next store for its
\* own VM starts to replace it.
AcknowledgedKeyIsDurable ==
  \A v \in VMID :
     acked[v] # "" => /\ index[v].CipherFile = acked[v]
                      /\ Serving[v] = index[v]
                      /\ acked[v] \in disk

\* What a download by VMID returns, and what it would return after a crash.
KeyIn(recs, v) == IF recs[v].CipherFile \in disk
                  THEN recs[v].CipherFile ELSE ""

Store == INSTANCE KeyStore
           WITH VM <- VMID, Key <- CipherFile, NoKey <- "",
                current <- [v \in VMID |-> KeyIn(Serving, v)],
                durable <- [v \in VMID |-> KeyIn(index, v)]

\* The vault implements the key store: every step changes at most one VM's
\* downloadable key, and a crash falls back to the last saved index.
ImplementsKeyStore == Store!Spec
=============================================================================
