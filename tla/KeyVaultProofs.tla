--------------------------- MODULE KeyVaultProofs ---------------------------
(***************************************************************************)
(* Theorems about KeyVault, for any sets of VMs, names, files, writers,    *)
(* readers and any bound on crashes.                                       *)
(***************************************************************************)
EXTENDS KeyVault, TLAPS

Records == sshKeyRecord \cup {NoRecord}

\* A record describes the file it names.
WellSealed(rec) == rec # NoRecord => /\ rec \in sshKeyRecord
                                     /\ sealed[rec.CipherFile] = Aad(rec)

\* The maps, the index and every request carry well sealed records, stored
\* under their own VMID.
RecordInv ==
  /\ \A v \in VMID : WellSealed(records[v]) /\ WellSealed(index[v])
  /\ \A v \in VMID : records[v] # NoRecord => records[v].VMID = v
  /\ \A v \in VMID : index[v] # NoRecord => index[v].VMID = v
  /\ \A r \in Readers : WellSealed(req[r].rec)

\* Nothing refers to file f yet, or not any more.
Unreferenced(f) ==
  /\ \A v \in VMID : records[v].CipherFile # f /\ index[v].CipherFile # f
  /\ \A r \in Readers : req[r].rec.CipherFile # f

\* Before Replace a writer's file is its own secret; after it the record is
\* the one in the map.  Only the writer in mu is past Lock.
CallInv ==
  \A w \in Writer :
     /\ call[w].pc = "idle" <=> call[w].rec = NoRecord
     /\ WellSealed(call[w].rec)
     /\ call[w].pc # "idle" => up /\ call[w].rec.CipherFile \in disk
     /\ call[w].pc \in {"locked", "replaced"} <=> w \in mu
     /\ call[w].pc \in {"sealed", "locked"} =>
           /\ Unreferenced(call[w].rec.CipherFile)
           /\ \A u \in Writer :
                 u # w => call[u].rec.CipherFile # call[w].rec.CipherFile
     /\ call[w].pc = "replaced" =>
           records[call[w].rec.VMID] = call[w].rec

RequestInv ==
  \A r \in Readers :
     /\ req[r].pc = "found" =>
           /\ req[r].rec # NoRecord
           /\ req[r].outcome = ""
           /\ req[r].asked \in {req[r].rec.VMID, req[r].rec.DownloadName}
     /\ req[r].pc = "listed" =>
           /\ up /\ r \in Reader
           /\ req[r].outcome = "not found"
           /\ req[r].asked \in VMID
           /\ records[req[r].asked] # NoRecord
     /\ r \in Reader /\ req[r].pc # "idle" => up

\* While the backend is down its maps are gone.
DownInv == ~up => /\ mu = {}
                  /\ \A v \in VMID : records[v] = NoRecord
                  /\ \A d \in DownloadName : nameToVMID[d] = 0

\* A file is on disk only if it was written.
DiskInv == \A f \in disk : sealed[f] # NotSealed

IInv == /\ TypeOK
        /\ RecordInv
        /\ CallInv
        /\ RequestInv
        /\ DownInv
        /\ DiskInv
        /\ NameMapSound
        /\ ReadsRightKey
        /\ FileGoneOnlyIfReplaced
        /\ AcknowledgedKeyIsDurable

-----------------------------------------------------------------------------
LEMMA NoRecordFacts == /\ NoRecord \notin sshKeyRecord
                       /\ NoRecord.CipherFile = ""
                       /\ "" \notin CipherFile
                       /\ NoRecord.DownloadName = ""
                       /\ "" \notin DownloadName
                       /\ \A rec \in sshKeyRecord : rec.CipherFile \in CipherFile
                       /\ \A v \in VMID : v # 0
                       /\ NotSealed \notin AAD
                       /\ \A rec \in sshKeyRecord : Aad(rec) \in AAD
BY VMIDAssumption, NameAssumption
   DEF NoRecord, sshKeyRecord, NotSealed, AAD, Aad

\* A writer that has written a file has a file name.
LEMMA CallFiles ==
  ASSUME CallInv
  PROVE  \A u \in Writer : call[u].pc \in {"sealed", "locked"} =>
            call[u].rec.CipherFile # NoRecord.CipherFile
<1> SUFFICES ASSUME NEW u \in Writer, call[u].pc \in {"sealed", "locked"}
             PROVE  call[u].rec.CipherFile # NoRecord.CipherFile
  OBVIOUS
<1>1. call[u].rec # NoRecord /\ WellSealed(call[u].rec)
  BY DEF CallInv
<1>2. call[u].rec \in sshKeyRecord
  BY <1>1 DEF WellSealed
<1> QED
  BY <1>2, NoRecordFacts

LEMMA InitIInv == Init => IInv
<1> SUFFICES ASSUME Init PROVE IInv
  OBVIOUS
<1>1. TypeOK
  <2>1. crashes \in 0 .. MaxCrashes
    <3>1. crashes = 0
      BY DEF Init
    <3>2. MaxCrashes \in Nat
      BY CrashAssumption
    <3>3. QED
      BY <3>1, <3>2
  <2>2. /\ call \in [Writer -> [pc : {"idle", "sealed", "locked", "replaced"},
                                rec : sshKeyRecord \cup {NoRecord}]]
        /\ req \in [Readers -> [pc : {"idle", "found", "listed", "done"},
                                asked : VMID \cup DownloadName \cup {0},
                                rec : sshKeyRecord \cup {NoRecord},
                                outcome : {"", "ok", "not found", "error"}]]
    BY DEF Init, NoCall, NoRequest
  <2> QED
    BY <2>1, <2>2 DEF Init, TypeOK
<1>2. RecordInv
  BY DEF Init, RecordInv, WellSealed, NoRequest
<1>3. CallInv
  BY DEF Init, CallInv, WellSealed, NoCall
<1>4. RequestInv
  BY DEF Init, RequestInv, NoRequest
<1>5. DownInv /\ DiskInv
  BY DEF Init, DownInv, DiskInv
<1>6. NameMapSound
  BY DEF Init, NameMapSound
<1>7. ReadsRightKey
  BY DEF Init, ReadsRightKey, NoRequest
<1>8. FileGoneOnlyIfReplaced
  BY DEF Init, FileGoneOnlyIfReplaced, MissesFileOnlyIfSuperseded,
         NoRequest
<1>9. AcknowledgedKeyIsDurable
  BY DEF Init, AcknowledgedKeyIsDurable
<1> QED
  BY <1>1, <1>2, <1>3, <1>4, <1>5, <1>6, <1>7, <1>8, <1>9 DEF IInv

-----------------------------------------------------------------------------
(* One lemma per action.                                                   *)

LEMMA WriteCipherFileStep ==
  ASSUME IInv,
         NEW w \in Writer, NEW v \in VMID, NEW d \in DownloadName,
         NEW f \in CipherFile, WriteCipherFile(w, v, d, f)
  PROVE  IInv'
<1> USE DEF IInv
<1> DEFINE rec == [VMID |-> v, DownloadName |-> d, CipherFile |-> f]
<1>1. rec \in sshKeyRecord /\ rec # NoRecord
  BY NoRecordFacts DEF sshKeyRecord
<1>2. TypeOK'
  BY <1>1 DEF TypeOK, WriteCipherFile, backend, AAD
<1>3. \A u \in Writer :
         call'[u] = IF u = w THEN [pc |-> "sealed", rec |-> rec] ELSE call[u]
  BY DEF WriteCipherFile, TypeOK
<1>4. \A g \in CipherFile : sealed[g] # NotSealed => sealed'[g] = sealed[g]
  BY DEF WriteCipherFile, TypeOK
<1>5. \A x : WellSealed(x) => x.CipherFile # f
  <2> SUFFICES ASSUME NEW x, WellSealed(x), x.CipherFile = f PROVE FALSE
    OBVIOUS
  <2>1. CASE x = NoRecord
    BY <2>1, NameAssumption DEF NoRecord
  <2>2. CASE x # NoRecord
    BY <2>2, NoRecordFacts DEF WellSealed, WriteCipherFile
  <2> QED
    BY <2>1, <2>2
<1>6. \A x : WellSealed(x) => WellSealed(x)'
  BY <1>4, NoRecordFacts DEF WellSealed, sshKeyRecord
<1>7. RecordInv'
  BY <1>6 DEF RecordInv, WriteCipherFile, backend
<1>8. WellSealed(rec)'
  BY <1>1 DEF WellSealed, WriteCipherFile, TypeOK, Aad
<1>9. CallInv'
  <2> SUFFICES ASSUME NEW u \in Writer
               PROVE  /\ call'[u].pc = "idle" <=> call'[u].rec = NoRecord
                      /\ WellSealed(call[u].rec)'
                      /\ call'[u].pc # "idle" =>
                            up' /\ call'[u].rec.CipherFile \in disk'
                      /\ call'[u].pc \in {"locked", "replaced"} <=> u \in mu'
                      /\ call'[u].pc \in {"sealed", "locked"} =>
                            /\ Unreferenced(call[u].rec.CipherFile)'
                            /\ \A t \in Writer :
                                  t # u => call'[t].rec.CipherFile
                                             # call'[u].rec.CipherFile
                      /\ call'[u].pc = "replaced" =>
                            records'[call'[u].rec.VMID] = call'[u].rec
    BY DEF CallInv
  <2>1. UNCHANGED <<records, index, req, mu, up>> /\ disk' = disk \cup {f} /\ up
    BY DEF WriteCipherFile, backend
  <2>2. call[w].pc = "idle"
    BY DEF WriteCipherFile
  <2>3. Unreferenced(f)
    BY <1>5 DEF Unreferenced, RecordInv
  <2>4. \A t \in Writer : call[t].rec.CipherFile # f
    BY <1>5 DEF CallInv
  <2>5. CASE u = w
    BY <1>1, <1>3, <1>8, <2>1, <2>2, <2>3, <2>4, <2>5 DEF CallInv, Unreferenced
  <2>6. CASE u # w
    BY <1>3, <1>6, <2>1, <2>4, <2>6 DEF CallInv, Unreferenced
  <2> QED
    BY <2>5, <2>6
<1>10. RequestInv' /\ DownInv'
  BY DEF RequestInv, DownInv, WriteCipherFile, backend
<1>11. DiskInv'
  <2>1. sealed'[f] = Aad(rec) /\ Aad(rec) # NotSealed
    <3>1. sealed \in [CipherFile -> AAD \cup {NotSealed}]
      BY DEF TypeOK
    <3>2. Aad(rec) = [VMID |-> v, DownloadName |-> d] /\ Aad(rec) # NotSealed
      BY <1>1, NoRecordFacts DEF Aad
    <3>3. sealed' = [sealed EXCEPT ![f] = Aad(rec)]
      BY <3>2 DEF WriteCipherFile
    <3> HIDE DEF IInv, rec
    <3> QED
      BY <3>1, <3>2, <3>3
  <2>2. disk' = disk \cup {f}
    BY DEF WriteCipherFile
  <2> QED
    BY <1>4, <2>1, <2>2 DEF DiskInv, TypeOK
<1>12. NameMapSound' /\ ReadsRightKey'
  BY DEF NameMapSound, ReadsRightKey, WriteCipherFile, backend
<1>13. FileGoneOnlyIfReplaced'
  BY DEF FileGoneOnlyIfReplaced, MissesFileOnlyIfSuperseded, Superseded, Serving,
         WriteCipherFile, backend
<1>14. AcknowledgedKeyIsDurable'
  BY DEF AcknowledgedKeyIsDurable, Serving, WriteCipherFile, backend
<1> QED
  BY <1>2, <1>7, <1>9, <1>10, <1>11, <1>12, <1>13, <1>14

LEMMA LockStep ==
  ASSUME IInv, NEW w \in Writer, Lock(w)
  PROVE  IInv'
<1> USE DEF IInv
<1>1. UNCHANGED <<up, crashes, records, nameToVMID, sealed, disk, index, req,
                  lost, acked>> /\ mu = {} /\ mu' = {w}
  BY DEF Lock, backend
<1>2. TypeOK'
  BY DEF TypeOK, Lock, backend
<1>3. \A u \in Writer :
         /\ call'[u].rec = call[u].rec
         /\ call'[u].pc = IF u = w THEN "locked" ELSE call[u].pc
  BY DEF Lock, TypeOK
<1>4. \A x : WellSealed(x) => WellSealed(x)'
  BY <1>1 DEF WellSealed
<1>5. RecordInv' /\ DiskInv' /\ NameMapSound' /\ ReadsRightKey' /\ RequestInv'
  BY <1>1, <1>4 DEF RecordInv, DiskInv, NameMapSound, ReadsRightKey, RequestInv
<1>6. CallInv'
  BY <1>1, <1>3, <1>4 DEF CallInv, Lock, Unreferenced
<1>7. DownInv'
  BY <1>1 DEF DownInv, CallInv, Lock
<1>8. FileGoneOnlyIfReplaced' /\ AcknowledgedKeyIsDurable'
  BY <1>1 DEF FileGoneOnlyIfReplaced, MissesFileOnlyIfSuperseded, Superseded, Serving,
              AcknowledgedKeyIsDurable
<1> QED
  BY <1>2, <1>5, <1>6, <1>7, <1>8

LEMMA ReplaceStep ==
  ASSUME IInv, NEW w \in Writer, Replace(w)
  PROVE  IInv'
<1> USE DEF IInv
<1> DEFINE rec == call[w].rec
           v == rec.VMID
           prev == records[v]
<1>1. /\ UNCHANGED <<up, crashes, mu, sealed, index, req>>
      /\ call[w].pc = "locked" /\ up /\ w \in mu
      /\ rec # NoRecord /\ rec \in sshKeyRecord /\ rec.CipherFile \in disk
      /\ v \in VMID /\ v # 0 /\ rec.DownloadName \in DownloadName
  BY NoRecordFacts DEF Replace, CallInv, WellSealed, sshKeyRecord
<1>2. PICK removed \in SUBSET ({prev.CipherFile} \cap disk) :
         disk' = disk \ removed
  BY DEF Replace, OldFiles
<1>3. /\ records' = [records EXCEPT ![v] = rec]
      /\ nameToVMID' = Renamed(nameToVMID, prev, rec)
      /\ call' = [call EXCEPT ![w].pc = "replaced"]
      /\ lost' = lost \ {v}
      /\ acked' = [acked EXCEPT ![v] = ""]
  BY DEF Replace
<1>4. TypeOK'
  <2>1. nameToVMID' \in [DownloadName -> VMID \cup {0}]
    BY <1>1, <1>3 DEF TypeOK, Renamed
  <2>2. /\ records' \in [VMID -> sshKeyRecord \cup {NoRecord}]
        /\ disk' \subseteq CipherFile
        /\ lost' \subseteq VMID
        /\ acked' \in [VMID -> CipherFile \cup {""}]
    BY <1>1, <1>2, <1>3 DEF TypeOK
  <2>3. call' \in [Writer -> [pc : {"idle", "sealed", "locked", "replaced"},
                              rec : sshKeyRecord \cup {NoRecord}]]
    <3>1. call \in [Writer -> [pc : {"idle", "sealed", "locked", "replaced"},
                              rec : sshKeyRecord \cup {NoRecord}]]
      BY DEF TypeOK
    <3> HIDE DEF IInv
    <3> QED
      BY <1>3, <3>1
  <2> QED
    BY <1>1, <2>1, <2>2, <2>3 DEF TypeOK
<1>5. /\ \A u \in VMID : records'[u] = IF u = v THEN rec ELSE records[u]
      /\ \A u \in VMID : acked'[u] = IF u = v THEN "" ELSE acked[u]
      /\ \A u \in Writer :
            /\ call'[u].rec = call[u].rec
            /\ call'[u].pc = IF u = w THEN "replaced" ELSE call[u].pc
  <2>1. \A u \in VMID : records'[u] = IF u = v THEN rec ELSE records[u]
    BY <1>3 DEF TypeOK
  <2>2. \A u \in VMID : acked'[u] = IF u = v THEN "" ELSE acked[u]
    BY <1>3 DEF TypeOK
  <2>3. \A u \in Writer :
            /\ call'[u].rec = call[u].rec
            /\ call'[u].pc = IF u = w THEN "replaced" ELSE call[u].pc
    <3>1. call' = [call EXCEPT ![w].pc = "replaced"]
      BY <1>3
    <3>2. call \in [Writer -> [pc : {"idle", "sealed", "locked", "replaced"},
                              rec : sshKeyRecord \cup {NoRecord}]]
      BY DEF TypeOK
    <3> HIDE DEF IInv
    <3> QED
      BY <3>1, <3>2
  <2> QED
    BY <2>1, <2>2, <2>3
<1>6. \A x : WellSealed(x) => WellSealed(x)'
  BY <1>1 DEF WellSealed
<1>7. WellSealed(rec) /\ WellSealed(prev) /\ (prev # NoRecord => prev.VMID = v)
  BY <1>1 DEF CallInv, RecordInv
<1>8. RecordInv'
  <2>1. RecordInv
    OBVIOUS
  <2> HIDE DEF IInv
  <2>2. ASSUME NEW u \in VMID
        PROVE  /\ WellSealed(records[u])' /\ (records'[u] # NoRecord => records'[u].VMID = u)
               /\ WellSealed(index[u])' /\ (index'[u] # NoRecord => index'[u].VMID = u)
    <3>1. CASE u = v
      <4>1. records'[u] = rec /\ index'[u] = index[u]
        BY <1>1, <1>5, <3>1
      <4> QED
        BY <1>6, <1>7, <2>1, <3>1, <4>1 DEF RecordInv
    <3>2. CASE u # v
      <4>1. records'[u] = records[u] /\ index'[u] = index[u]
        BY <1>1, <1>5, <3>2
      <4> QED
        BY <1>6, <2>1, <4>1 DEF RecordInv
    <3> QED
      BY <3>1, <3>2
  <2>3. \A r \in Readers : WellSealed(req[r].rec)'
    BY <1>1, <1>6, <2>1 DEF RecordInv
  <2> QED
    BY <2>2, <2>3 DEF RecordInv
\* No file other than the previous one of v is removed.
<1>9. \A x : /\ WellSealed(x)
             /\ x # NoRecord
             /\ x.VMID # v
             /\ x.CipherFile \in disk
            => x.CipherFile \in disk'
  <2> SUFFICES ASSUME NEW x, WellSealed(x), x # NoRecord, x.VMID # v,
                      x.CipherFile \in disk, x.CipherFile = prev.CipherFile
               PROVE  FALSE
    BY <1>2
  <2>1. prev # NoRecord
    BY NoRecordFacts DEF TypeOK
  <2>2. Aad(x) = Aad(prev)
    BY <1>7, <2>1 DEF WellSealed
  <2>3. x.VMID = prev.VMID
    BY <2>2 DEF Aad
  <2> QED
    BY <1>7, <2>1, <2>3
<1>10. rec.CipherFile # prev.CipherFile /\ Unreferenced(rec.CipherFile)
  BY <1>1 DEF CallInv, Unreferenced
<1>11. CallInv'
  <2>1. \A u \in Writer : u # w => call[u].pc \notin {"locked", "replaced"}
    BY <1>1 DEF CallInv, TypeOK
  <2>2. \A u \in Writer : u # w => call[u].rec.CipherFile # rec.CipherFile
    BY <1>1 DEF CallInv
  <2>3. ASSUME NEW u \in Writer, u # w, call[u].pc = "sealed"
        PROVE  call[u].rec.CipherFile \in disk'
    BY <1>1, <1>2, <2>3 DEF CallInv, Unreferenced
  <2>4. \A f : Unreferenced(f) /\ f # rec.CipherFile => Unreferenced(f)'
    BY <1>1, <1>5 DEF Unreferenced
  <2>5. rec.CipherFile \in disk'
    BY <1>1, <1>2, <1>10
  <2> SUFFICES ASSUME NEW u \in Writer
               PROVE  /\ call'[u].pc = "idle" <=> call'[u].rec = NoRecord
                      /\ WellSealed(call[u].rec)'
                      /\ call'[u].pc # "idle" =>
                            up' /\ call'[u].rec.CipherFile \in disk'
                      /\ call'[u].pc \in {"locked", "replaced"} <=> u \in mu'
                      /\ call'[u].pc \in {"sealed", "locked"} =>
                            /\ Unreferenced(call[u].rec.CipherFile)'
                            /\ \A t \in Writer :
                                  t # u => call'[t].rec.CipherFile
                                             # call'[u].rec.CipherFile
                      /\ call'[u].pc = "replaced" =>
                            records'[call'[u].rec.VMID] = call'[u].rec
    BY DEF CallInv
  <2>6. CASE u = w
    <3>1. call'[u].rec = rec /\ call'[u].pc = "replaced"
      BY <1>5, <2>6
    <3>2. records'[v] = rec
      BY <1>1, <1>5
    <3>3. WellSealed(call[u].rec)'
      BY <1>6, <1>7, <3>1
    <3> QED
      BY <1>1, <2>5, <2>6, <3>1, <3>2, <3>3
  <2>7. CASE u # w
    <3>1. call'[u] .rec = call[u].rec /\ call'[u].pc = call[u].pc
      BY <1>5, <2>7
    <3>2. call[u].pc \in {"idle", "sealed"}
      BY <2>1, <2>7 DEF TypeOK
    <3>3. WellSealed(call[u].rec)'
      BY <1>6, <3>1 DEF CallInv
    <3>4. CASE call[u].pc = "idle"
      BY <1>1, <2>7, <3>1, <3>3, <3>4 DEF CallInv
    <3>5. CASE call[u].pc = "sealed"
      <4>1. /\ Unreferenced(call[u].rec.CipherFile)
            /\ \A t \in Writer : t # u => call[t].rec.CipherFile
                                            # call[u].rec.CipherFile
            /\ call[u].rec # NoRecord /\ u \notin mu
        BY <3>5 DEF CallInv
      <4>2. Unreferenced(call[u].rec.CipherFile)'
        BY <2>2, <2>4, <2>7, <3>1, <4>1
      <4>3. \A t \in Writer : t # u => call'[t].rec.CipherFile
                                            # call'[u].rec.CipherFile
        BY <1>5, <4>1
      <4> QED
        BY <1>1, <2>3, <2>7, <3>1, <3>3, <3>5, <4>1, <4>2, <4>3
    <3> QED
      BY <3>2, <3>4, <3>5
  <2> QED
    BY <2>6, <2>7
<1>12. DownInv' /\ DiskInv' /\ ReadsRightKey'
  BY <1>1, <1>2 DEF DownInv, DiskInv, ReadsRightKey
<1>16. RequestInv'
  <2>1. \A u \in VMID : records[u] # NoRecord => records'[u] # NoRecord
    BY <1>1, <1>5
  <2> SUFFICES ASSUME NEW r \in Readers
               PROVE  /\ req'[r].pc = "listed" =>
                            req'[r].asked \in VMID /\ records'[req'[r].asked] # NoRecord
    BY <1>1 DEF RequestInv
  <2> QED
    BY <1>1, <2>1 DEF RequestInv
<1>13. NameMapSound'
  <2> SUFFICES ASSUME NEW d \in DownloadName, nameToVMID'[d] # 0
               PROVE  /\ records'[nameToVMID'[d]] # NoRecord
                      /\ records'[nameToVMID'[d]].DownloadName = d
    BY DEF NameMapSound
  <2>1. nameToVMID'[d] = IF d = rec.DownloadName THEN v
                         ELSE IF prev # NoRecord /\ d = prev.DownloadName THEN 0
                         ELSE nameToVMID[d]
    BY <1>3 DEF Renamed
  <2>2. CASE d = rec.DownloadName
    BY <1>1, <1>5, <2>1, <2>2
  <2>3. CASE d # rec.DownloadName
    <3>1. /\ nameToVMID'[d] = nameToVMID[d]
          /\ prev = NoRecord \/ d # prev.DownloadName
      BY <2>1, <2>3
    <3>2. /\ nameToVMID[d] \in VMID
          /\ records[nameToVMID[d]] # NoRecord
          /\ records[nameToVMID[d]].DownloadName = d
      <4>1. nameToVMID[d] \in VMID \cup {0} /\ nameToVMID[d] # 0
        BY <3>1 DEF TypeOK
      <4> QED
        BY <4>1 DEF NameMapSound
    <3>3. nameToVMID[d] # v
      BY <3>1, <3>2
    <3> QED
      BY <1>5, <3>1, <3>2, <3>3
  <2> QED
    BY <2>2, <2>3
<1>14. FileGoneOnlyIfReplaced'
  <2>1. rec.CipherFile \in disk'
    BY <1>1, <1>2, <1>10
  <2>2. ASSUME NEW x, WellSealed(x), x.CipherFile # rec.CipherFile,
               MissesFileOnlyIfSuperseded(x)
        PROVE  MissesFileOnlyIfSuperseded(x)'
    <3> SUFFICES ASSUME x # NoRecord, x.CipherFile \notin disk'
                 PROVE  Superseded(x)'
      BY DEF MissesFileOnlyIfSuperseded
    <3>1. CASE x.VMID = v
      <4>1. Serving'[v] = rec
        BY <1>1, <1>5 DEF Serving
      <4> QED
        BY <2>2, <3>1, <4>1 DEF Superseded
    <3>2. CASE x.VMID # v
      <4>1. Superseded(x) /\ x.VMID \in VMID
        BY <1>9, <2>2, <3>2
           DEF MissesFileOnlyIfSuperseded, WellSealed, sshKeyRecord
      <4>2. Serving'[x.VMID] = Serving[x.VMID]
        BY <1>1, <1>5, <3>2, <4>1 DEF Serving
      <4> QED
        BY <1>3, <3>2, <4>1, <4>2 DEF Superseded
    <3> QED
      BY <3>1, <3>2
  <2> QED
    BY <1>1, <1>5, <1>10, <2>1, <2>2
       DEF FileGoneOnlyIfReplaced, MissesFileOnlyIfSuperseded, RecordInv,
           Unreferenced
<1>15. AcknowledgedKeyIsDurable'
  <2> SUFFICES ASSUME NEW u \in VMID, acked'[u] # ""
               PROVE  /\ index'[u].CipherFile = acked'[u]
                      /\ Serving'[u] = index'[u]
                      /\ acked'[u] \in disk'
    BY DEF AcknowledgedKeyIsDurable
  <2>1. u # v /\ acked'[u] = acked[u]
    BY <1>5
  <2>2. /\ index[u].CipherFile = acked[u]
        /\ records[u] = index[u]
        /\ acked[u] \in disk
    BY <1>1, <2>1 DEF AcknowledgedKeyIsDurable, Serving
  <2>3. index[u] # NoRecord
    BY <2>1, <2>2, NoRecordFacts
  <2>4. acked[u] \in disk'
    BY <1>9, <2>1, <2>2, <2>3 DEF RecordInv
  <2> QED
    BY <1>1, <1>5, <2>1, <2>2, <2>4 DEF Serving
<1> QED
  BY <1>4, <1>8, <1>11, <1>12, <1>13, <1>14, <1>15, <1>16

LEMMA SaveIndexStep ==
  ASSUME IInv, NEW w \in Writer, SaveIndex(w)
  PROVE  IInv'
<1> USE DEF IInv
<1> DEFINE rec == call[w].rec
<1>1. /\ UNCHANGED <<up, crashes, records, nameToVMID, sealed, disk, req, lost>>
      /\ call[w].pc = "replaced" /\ up /\ mu' = mu \ {w}
      /\ index' = records
      /\ rec # NoRecord /\ rec \in sshKeyRecord /\ rec.CipherFile \in disk
      /\ rec.VMID \in VMID /\ records[rec.VMID] = rec
  BY NoRecordFacts DEF SaveIndex, CallInv, WellSealed, sshKeyRecord, backend
<1>2. /\ \A u \in VMID : acked'[u] = IF u = rec.VMID THEN rec.CipherFile ELSE acked[u]
      /\ acked' \in [VMID -> CipherFile \cup {""}]
  BY <1>1 DEF SaveIndex, TypeOK, sshKeyRecord
<1>3. \A u \in Writer : call'[u] = IF u = w THEN NoCall ELSE call[u]
  BY DEF SaveIndex, TypeOK
<1>4. TypeOK'
  <2>1. call' \in [Writer -> [pc : {"idle", "sealed", "locked", "replaced"},
                              rec : sshKeyRecord \cup {NoRecord}]]
    BY DEF SaveIndex, TypeOK, NoCall
  <2> QED
    BY <1>1, <1>2, <2>1 DEF TypeOK
<1>5. \A x : WellSealed(x) => WellSealed(x)'
  BY <1>1 DEF WellSealed
<1>6. RecordInv'
  BY <1>1, <1>5 DEF RecordInv
<1>7. CallInv'
  <2>1. WellSealed(NoRecord)'
    BY DEF WellSealed
  <2>2. \A f : Unreferenced(f) => Unreferenced(f)'
    BY <1>1 DEF Unreferenced
  <2>3. \A u \in Writer : call[u].pc \in {"sealed", "locked"} =>
             call[u].rec.CipherFile # NoRecord.CipherFile
    BY CallFiles
  <2> QED
    BY <1>1, <1>3, <1>5, <2>1, <2>2, <2>3 DEF CallInv, NoCall
<1>8. RequestInv' /\ DownInv' /\ DiskInv' /\ NameMapSound' /\ ReadsRightKey'
  BY <1>1 DEF RequestInv, DownInv, DiskInv, NameMapSound, ReadsRightKey
<1>9. FileGoneOnlyIfReplaced'
  BY <1>1 DEF FileGoneOnlyIfReplaced, MissesFileOnlyIfSuperseded, Superseded, Serving
<1>10. AcknowledgedKeyIsDurable'
  BY <1>1, <1>2 DEF AcknowledgedKeyIsDurable, Serving
<1> QED
  BY <1>4, <1>6, <1>7, <1>8, <1>9, <1>10

LEMMA SaveIndexFailsStep ==
  ASSUME IInv, NEW w \in Writer, SaveIndexFails(w)
  PROVE  IInv'
<1> USE DEF IInv
<1>1. /\ UNCHANGED <<up, crashes, records, nameToVMID, sealed, disk, index, req,
                     lost, acked>>
      /\ call[w].pc = "replaced" /\ up /\ mu' = mu \ {w}
  BY DEF SaveIndexFails, CallInv, backend
<1>2. \A u \in Writer : call'[u] = IF u = w THEN NoCall ELSE call[u]
  BY DEF SaveIndexFails, TypeOK
<1>3. TypeOK'
  <2>1. call' \in [Writer -> [pc : {"idle", "sealed", "locked", "replaced"},
                              rec : sshKeyRecord \cup {NoRecord}]]
    BY DEF SaveIndexFails, TypeOK, NoCall
  <2> QED
    BY <1>1, <2>1 DEF TypeOK
<1>4. \A x : WellSealed(x) => WellSealed(x)'
  BY <1>1 DEF WellSealed
<1>5. CallInv'
  <2>1. WellSealed(NoRecord)'
    BY DEF WellSealed
  <2>2. \A f : Unreferenced(f) => Unreferenced(f)'
    BY <1>1 DEF Unreferenced
  <2>3. \A u \in Writer : call[u].pc \in {"sealed", "locked"} =>
             call[u].rec.CipherFile # NoRecord.CipherFile
    BY CallFiles
  <2> QED
    BY <1>1, <1>2, <1>4, <2>1, <2>2, <2>3 DEF CallInv, NoCall
<1>6. RecordInv' /\ RequestInv' /\ DownInv' /\ DiskInv' /\ NameMapSound' /\ ReadsRightKey'
  BY <1>1, <1>4 DEF RecordInv, RequestInv, DownInv, DiskInv, NameMapSound, ReadsRightKey
<1>7. FileGoneOnlyIfReplaced' /\ AcknowledgedKeyIsDurable'
  BY <1>1 DEF FileGoneOnlyIfReplaced, MissesFileOnlyIfSuperseded, Superseded, Serving,
              AcknowledgedKeyIsDurable
<1> QED
  BY <1>3, <1>5, <1>6, <1>7
-----------------------------------------------------------------------------
(* Lookups change one request and nothing else.                            *)

Request == [pc : {"idle", "found", "listed", "done"},
            asked : VMID \cup DownloadName \cup {0},
            rec : Records,
            outcome : {"", "ok", "not found", "error"}]

\* rec is a record that a request may carry.
Carried(rec) ==
  /\ rec \in Records
  /\ WellSealed(rec)
  /\ MissesFileOnlyIfSuperseded(rec)
  /\ \A w \in Writer : call[w].pc \in {"sealed", "locked"} =>
                         call[w].rec.CipherFile # rec.CipherFile

GoodRequest(r, q) ==
  /\ q \in Request
  /\ Carried(q.rec)
  /\ q.pc = "found" =>
        /\ q.rec # NoRecord
        /\ q.outcome = ""
        /\ q.asked \in {q.rec.VMID, q.rec.DownloadName}
  /\ q.pc = "listed" =>
        /\ up /\ r \in Reader
        /\ q.outcome = "not found"
        /\ q.asked \in VMID
        /\ records[q.asked] # NoRecord
  /\ r \in Reader /\ q.pc # "idle" => up
  /\ q.outcome # "error"
  /\ q.outcome = "ok" => q.asked \in {q.rec.VMID, q.rec.DownloadName}

LEMMA RequestStep ==
  ASSUME IInv, NEW r \in Readers, NEW q, GoodRequest(r, q),
         req' = [req EXCEPT ![r] = q],
         UNCHANGED <<up, crashes, mu, backend, sealed, disk, index, call, lost,
                     acked>>
  PROVE  IInv'
<1> USE DEF IInv
<1>1. \A s \in Readers : req'[s] = IF s = r THEN q ELSE req[s]
  BY DEF TypeOK
<1>2. UNCHANGED <<up, crashes, mu, records, nameToVMID, sealed, disk, index, call,
                  lost, acked>>
  BY DEF backend
<1>10. (up' <=> up) /\ Serving' = Serving
  BY <1>2 DEF Serving
<1>3. TypeOK'
  <2>1. req' \in [Readers -> [pc : {"idle", "found", "listed", "done"},
                             asked : VMID \cup DownloadName \cup {0},
                             rec : sshKeyRecord \cup {NoRecord},
                             outcome : {"", "ok", "not found", "error"}]]
    BY DEF TypeOK, GoodRequest, Request, Records
  <2> QED
    BY <1>2, <2>1 DEF TypeOK
<1>4. \A x : WellSealed(x) <=> WellSealed(x)'
  BY <1>2 DEF WellSealed
<1>5. RecordInv'
  BY <1>1, <1>2, <1>4 DEF RecordInv, GoodRequest, Carried
<1>6. CallInv'
  <2>1. ASSUME NEW w \in Writer, call[w].pc \in {"sealed", "locked"}
        PROVE  Unreferenced(call[w].rec.CipherFile)'
    <3>1. /\ Unreferenced(call[w].rec.CipherFile)
          /\ call[w].rec.CipherFile # q.rec.CipherFile
      BY <2>1 DEF CallInv, GoodRequest, Carried
    <3>2. call'[w] = call[w] /\ records' = records /\ index' = index
      BY <1>2
    <3> QED
      BY <1>1, <3>1, <3>2 DEF Unreferenced
  <2>2. \A w \in Writer : WellSealed(call[w].rec)'
    BY <1>2 DEF CallInv, WellSealed
  <2> QED
    BY <1>2, <2>1, <2>2 DEF CallInv
<1>7. RequestInv'
  <2> SUFFICES ASSUME NEW s \in Readers
               PROVE  /\ req'[s].pc = "found" =>
                            /\ req'[s].rec # NoRecord
                            /\ req'[s].outcome = ""
                            /\ req'[s].asked \in {req'[s].rec.VMID,
                                                  req'[s].rec.DownloadName}
                      /\ req'[s].pc = "listed" =>
                            /\ up' /\ s \in Reader
                            /\ req'[s].outcome = "not found"
                            /\ req'[s].asked \in VMID
                            /\ records'[req'[s].asked] # NoRecord
                      /\ s \in Reader /\ req'[s].pc # "idle" => up'
    BY DEF RequestInv
  <2>1. CASE s = r
    BY <1>1, <1>2, <1>10, <2>1 DEF GoodRequest
  <2>2. CASE s # r
    <3>1. req'[s] = req[s] /\ records' = records
      BY <1>1, <1>2, <2>2
    <3>2. req[s].pc = "listed" => /\ up /\ s \in Reader
                                  /\ req[s].outcome = "not found"
                                  /\ req[s].asked \in VMID
                                  /\ records[req[s].asked] # NoRecord
      BY DEF RequestInv
    <3>3. req[s].pc = "found" => /\ req[s].rec # NoRecord
                                 /\ req[s].outcome = ""
                                 /\ req[s].asked \in {req[s].rec.VMID,
                                                      req[s].rec.DownloadName}
      BY DEF RequestInv
    <3>4. s \in Reader /\ req[s].pc # "idle" => up
      BY DEF RequestInv
    <3> QED
      BY <1>10, <3>1, <3>2, <3>3, <3>4
  <2> QED
    BY <2>1, <2>2
<1>8. /\ DownInv'
      /\ DiskInv'
      /\ NameMapSound'
      /\ AcknowledgedKeyIsDurable'
      /\ ReadsRightKey'
  <2>1. DownInv' /\ DiskInv'
    BY <1>2 DEF DownInv, DiskInv
  <2>2. NameMapSound'
    BY <1>2 DEF NameMapSound
  <2>3. AcknowledgedKeyIsDurable'
    BY <1>2, <1>10 DEF AcknowledgedKeyIsDurable
  <2>4. ReadsRightKey'
    BY <1>1 DEF ReadsRightKey, GoodRequest
  <2> QED
    BY <2>1, <2>2, <2>3, <2>4
<1>9. FileGoneOnlyIfReplaced'
  <2>1. \A x : MissesFileOnlyIfSuperseded(x) => MissesFileOnlyIfSuperseded(x)'
    BY <1>2, <1>10 DEF MissesFileOnlyIfSuperseded, Superseded
  <2>2. FileGoneOnlyIfReplaced /\ MissesFileOnlyIfSuperseded(q.rec)
    BY DEF GoodRequest, Carried
  <2> HIDE DEF IInv
  <2>3. ASSUME NEW s \in Readers PROVE MissesFileOnlyIfSuperseded(req[s].rec)'
    <3>1. req'[s].rec = req[s].rec \/ req'[s].rec = q.rec
      BY <1>1
    <3> QED
      BY <2>1, <2>2, <3>1 DEF FileGoneOnlyIfReplaced
  <2> QED
    BY <1>2, <2>1, <2>2, <2>3 DEF FileGoneOnlyIfReplaced
<1> QED
  BY <1>3, <1>5, <1>6, <1>7, <1>8, <1>9

\* What the maps and the index hold may be carried.
LEMMA StoredIsCarried ==
  ASSUME IInv
  PROVE  /\ \A v \in VMID : Carried(records[v]) /\ Carried(index[v])
         /\ \A r \in Readers : Carried(req[r].rec)
         /\ Carried(NoRecord)
<1> USE DEF IInv
<1>1. /\ \A v \in VMID : records[v] \in Records /\ index[v] \in Records
      /\ \A r \in Readers : req[r].rec \in Records
      /\ NoRecord \in Records
  BY DEF TypeOK, Records
<1>2. /\ \A v \in VMID : WellSealed(records[v]) /\ WellSealed(index[v])
      /\ \A r \in Readers : WellSealed(req[r].rec)
      /\ WellSealed(NoRecord)
  BY DEF RecordInv, WellSealed
<1>3. /\ \A v \in VMID : /\ MissesFileOnlyIfSuperseded(records[v])
                         /\ MissesFileOnlyIfSuperseded(index[v])
      /\ \A r \in Readers : MissesFileOnlyIfSuperseded(req[r].rec)
      /\ MissesFileOnlyIfSuperseded(NoRecord)
  BY DEF FileGoneOnlyIfReplaced, MissesFileOnlyIfSuperseded
<1>4. ASSUME NEW w \in Writer, call[w].pc \in {"sealed", "locked"}
      PROVE  /\ Unreferenced(call[w].rec.CipherFile)
             /\ call[w].rec.CipherFile # NoRecord.CipherFile
  BY <1>4, NoRecordFacts DEF CallInv, WellSealed
<1> QED
  BY <1>1, <1>2, <1>3, <1>4 DEF Carried, Unreferenced

LEMMA AnswerStep ==
  ASSUME IInv, NEW r \in Readers, NEW asked \in VMID \cup DownloadName, NEW rec,
         Carried(rec), Answer(r, asked, rec), r \in Reader => up,
         rec # NoRecord => asked \in {rec.VMID, rec.DownloadName},
         UNCHANGED <<up, crashes, mu, backend, sealed, disk, index, call, lost,
                     acked>>
  PROVE  IInv'
<1> DEFINE q == IF rec = NoRecord
                THEN [pc |-> "done", asked |-> asked, rec |-> rec,
                      outcome |-> "not found"]
                ELSE [pc |-> "found", asked |-> asked, rec |-> rec,
                      outcome |-> ""]
<1>1. req' = [req EXCEPT ![r] = q]
  BY DEF Answer
<1>2. GoodRequest(r, q)
  BY DEF GoodRequest, Request, Carried
<1> QED
  BY <1>1, <1>2, RequestStep

LEMMA GetPrivateKeyByVMIDStep ==
  ASSUME IInv, NEW r \in Readers, NEW v \in VMID, GetPrivateKeyByVMID(r, v)
  PROVE  IInv'
<1>1. Carried(records[v])
  BY StoredIsCarried
<1>2. records[v] # NoRecord => records[v].VMID = v
  BY DEF IInv, RecordInv
<1> QED
  BY <1>1, <1>2, AnswerStep DEF GetPrivateKeyByVMID

LEMMA GetPrivateKeyByFilenameStep ==
  ASSUME IInv, NEW r \in Readers, NEW d \in DownloadName,
         GetPrivateKeyByFilename(r, d)
  PROVE  IInv'
<1> DEFINE rec == IF nameToVMID[d] = 0 THEN NoRecord ELSE records[nameToVMID[d]]
<1>1. nameToVMID[d] \in VMID \cup {0}
  BY DEF IInv, TypeOK
<1>2. Carried(rec)
  BY <1>1, StoredIsCarried
<1>3. rec # NoRecord => rec.DownloadName = d
  BY DEF IInv, NameMapSound
<1> QED
  BY <1>2, <1>3, AnswerStep DEF GetPrivateKeyByFilename

LEMMA BridgeReadIndexStep ==
  ASSUME IInv, NEW r \in BridgeReader, NEW v \in VMID, BridgeReadIndex(r, v)
  PROVE  IInv'
<1>1. r \in Readers /\ r \notin Reader
  BY ProcessAssumption DEF Readers
<1>2. Carried(index[v])
  BY StoredIsCarried
<1>3. index[v] # NoRecord => index[v].VMID = v
  BY DEF IInv, RecordInv
<1> QED
  BY <1>1, <1>2, <1>3, AnswerStep DEF BridgeReadIndex

LEMMA decryptRecordStep ==
  ASSUME IInv, NEW r \in Readers, decryptRecord(r)
  PROVE  IInv'
<1> DEFINE out == IF req[r].rec.CipherFile \notin disk THEN "not found"
                  ELSE IF sealed[req[r].rec.CipherFile] = Aad(req[r].rec)
                       THEN "ok" ELSE "error"
           q == [req[r] EXCEPT !.pc = "done", !.outcome = out]
<1>1. req[r] \in Request /\ req[r].pc = "found"
  BY DEF IInv, TypeOK, decryptRecord, Request, Records
<1>2. req' = [req EXCEPT ![r] = q]
  BY DEF decryptRecord
<1>3. /\ req[r].rec # NoRecord /\ (r \in Reader => up)
      /\ req[r].asked \in {req[r].rec.VMID, req[r].rec.DownloadName}
  BY <1>1 DEF IInv, RequestInv
<1>4. Carried(req[r].rec)
  BY StoredIsCarried
<1>5. out \in {"not found", "ok"}
  BY <1>3, <1>4 DEF Carried, WellSealed
<1>6. /\ q \in Request /\ q.pc = "done" /\ q.outcome = out
      /\ q.asked = req[r].asked /\ q.rec = req[r].rec
  BY <1>1, <1>5 DEF Request
<1>7. GoodRequest(r, q)
  BY <1>3, <1>4, <1>5, <1>6 DEF GoodRequest
<1> QED
  BY <1>2, <1>7, RequestStep DEF decryptRecord

LEMMA HasKeyForVMStep ==
  ASSUME IInv, NEW r \in Reader, NEW v \in VMID, HasKeyForVM(r, v)
  PROVE  IInv'
<1>0. r \in Readers
  BY DEF Readers
<1> DEFINE q == [pc |-> IF records[v] = NoRecord THEN "done" ELSE "listed",
                 asked |-> v, rec |-> NoRecord, outcome |-> "not found"]
<1>1. req' = [req EXCEPT ![r] = q] /\ up
  BY DEF HasKeyForVM
<1>2. Carried(NoRecord)
  BY StoredIsCarried
<1>3. GoodRequest(r, q)
  BY <1>1, <1>2 DEF GoodRequest, Request, Carried
<1> QED
  BY <1>0, <1>1, <1>3, RequestStep DEF HasKeyForVM

LEMMA KeyFileNameForVMStep ==
  ASSUME IInv, NEW r \in Readers, KeyFileNameForVM(r)
  PROVE  IInv'
<1> DEFINE v == req[r].asked
           q == [pc |-> "done", asked |-> v, rec |-> records[v],
                 outcome |-> IF records[v] = NoRecord THEN "error" ELSE "ok"]
<1>1. req' = [req EXCEPT ![r] = q]
  BY DEF KeyFileNameForVM
<1>2. up /\ v \in VMID /\ records[v] # NoRecord
  BY DEF IInv, RequestInv, KeyFileNameForVM
<1>3. Carried(records[v]) /\ records[v].VMID = v
  BY <1>2, StoredIsCarried DEF IInv, RecordInv
<1>4. GoodRequest(r, q)
  BY <1>2, <1>3 DEF GoodRequest, Request, Carried
<1> QED
  BY <1>1, <1>4, RequestStep DEF KeyFileNameForVM

LEMMA RespondStep ==
  ASSUME IInv, NEW r \in Readers, Respond(r)
  PROVE  IInv'
<1>1. Carried(NoRecord)
  BY StoredIsCarried
<1>2. GoodRequest(r, NoRequest)
  BY <1>1 DEF GoodRequest, Request, Carried, NoRequest
<1> QED
  BY <1>2, RequestStep DEF Respond
-----------------------------------------------------------------------------
(* Crash, restart and the theorems.                                        *)

LEMMA CrashStep ==
  ASSUME IInv, Crash
  PROVE  IInv'
<1> USE DEF IInv
<1>1. /\ up /\ up' = FALSE /\ mu' = {}
      /\ UNCHANGED <<sealed, disk, index, acked>>
      /\ lost' = lost \cup Unsaved
      /\ crashes' = crashes + 1 /\ crashes < MaxCrashes
  BY DEF Crash
<1>2. /\ \A v \in VMID : records'[v] = NoRecord
      /\ \A d \in DownloadName : nameToVMID'[d] = 0
      /\ \A w \in Writer : call'[w] = NoCall
      /\ \A r \in Readers : req'[r] = IF r \in Reader THEN NoRequest ELSE req[r]
  BY DEF Crash
<1>3. TypeOK'
  <2>1. records' \in [VMID -> sshKeyRecord \cup {NoRecord}]
    BY DEF Crash
  <2>2. nameToVMID' \in [DownloadName -> VMID \cup {0}]
    BY DEF Crash
  <2>3. call' \in [Writer -> [pc : {"idle", "sealed", "locked", "replaced"},
                              rec : sshKeyRecord \cup {NoRecord}]]
    BY DEF Crash, NoCall
  <2>4. req' \in [Readers -> [pc : {"idle", "found", "listed", "done"},
                             asked : VMID \cup DownloadName \cup {0},
                             rec : sshKeyRecord \cup {NoRecord},
                             outcome : {"", "ok", "not found", "error"}]]
    BY DEF Crash, NoRequest, TypeOK
  <2>5. crashes' \in 0 .. MaxCrashes
    <3>1. crashes \in 0 .. MaxCrashes
      BY DEF TypeOK
    <3>2. MaxCrashes \in Nat
      BY CrashAssumption
    <3> QED
      BY <1>1, <3>1, <3>2
  <2>6. lost' \subseteq VMID
    BY <1>1 DEF TypeOK, Unsaved
  <2> QED
    BY <1>1, <2>1, <2>2, <2>3, <2>4, <2>5, <2>6 DEF TypeOK
<1>4. \A x : WellSealed(x) => WellSealed(x)'
  BY <1>1 DEF WellSealed
<1>5. WellSealed(NoRecord)'
  BY DEF WellSealed
<1>16. NoRequest.rec = NoRecord /\ NoRequest.pc = "idle" /\ NoRequest.outcome = ""
  BY DEF NoRequest
<1>17. NoCall.rec = NoRecord /\ NoCall.pc = "idle"
  BY DEF NoCall
<1>6. RecordInv'
  <2>1. \A r \in Readers : WellSealed(req[r].rec)'
    BY <1>2, <1>4, <1>5, <1>16 DEF RecordInv
  <2>2. \A v \in VMID : WellSealed(records[v])' /\ WellSealed(index[v])'
    BY <1>1, <1>2, <1>4, <1>5 DEF RecordInv
  <2> QED
    BY <1>1, <1>2, <2>1, <2>2 DEF RecordInv
<1>7. CallInv'
  <2>1. \A w \in Writer : WellSealed(call[w].rec)'
    BY <1>2, <1>5, <1>17
  <2> QED
    BY <1>1, <1>2, <1>17, <2>1 DEF CallInv
<1>8. RequestInv'
  <2> SUFFICES ASSUME NEW r \in Readers
               PROVE  /\ req'[r].pc = "found" =>
                            /\ req'[r].rec # NoRecord
                            /\ req'[r].outcome = ""
                            /\ req'[r].asked \in {req'[r].rec.VMID,
                                                  req'[r].rec.DownloadName}
                      /\ req'[r].pc # "listed"
                      /\ ~(r \in Reader /\ req'[r].pc # "idle")
    BY DEF RequestInv
  <2>1. CASE r \in Reader
    BY <1>2, <1>16, <2>1
  <2>2. CASE r \notin Reader
    BY <1>2, <2>2 DEF RequestInv
  <2> QED
    BY <2>1, <2>2
<1>9. DownInv' /\ DiskInv' /\ NameMapSound'
  <2>1. DownInv'
    BY <1>1, <1>2 DEF DownInv
  <2>2. DiskInv'
    BY <1>1 DEF DiskInv
  <2>3. NameMapSound'
    BY <1>2 DEF NameMapSound
  <2> QED
    BY <2>1, <2>2, <2>3
<1>10. ReadsRightKey'
  BY <1>2, <1>16 DEF ReadsRightKey
<1>11. Serving' = index /\ Serving = records
  BY <1>1 DEF Serving
<1>12. ASSUME NEW x, x # NoRecord => x.VMID \in VMID, MissesFileOnlyIfSuperseded(x)
       PROVE  MissesFileOnlyIfSuperseded(x)'
  BY <1>1, <1>11, <1>12 DEF MissesFileOnlyIfSuperseded, Superseded, Unsaved
<1>13. MissesFileOnlyIfSuperseded(NoRecord)'
  BY DEF MissesFileOnlyIfSuperseded
<1>14. FileGoneOnlyIfReplaced'
  <2>1. \A x : WellSealed(x) /\ x # NoRecord => x.VMID \in VMID
    BY DEF WellSealed, sshKeyRecord
  <2>2. \A v \in VMID : MissesFileOnlyIfSuperseded(index[v])'
    BY <1>1, <1>12, <2>1 DEF FileGoneOnlyIfReplaced, RecordInv
  <2>3. \A r \in Readers : MissesFileOnlyIfSuperseded(req[r].rec)'
    BY <1>2, <1>12, <1>13, <1>16, <2>1 DEF FileGoneOnlyIfReplaced, RecordInv
  <2> QED
    BY <1>1, <1>2, <1>13, <2>2, <2>3 DEF FileGoneOnlyIfReplaced
<1>15. AcknowledgedKeyIsDurable'
  BY <1>1, <1>11 DEF AcknowledgedKeyIsDurable
<1> QED
  BY <1>3, <1>6, <1>7, <1>8, <1>9, <1>10, <1>14, <1>15

LEMMA loadIndexStep ==
  ASSUME IInv, loadIndex
  PROVE  IInv'
<1> USE DEF IInv
<1>1. /\ ~up /\ up'
      /\ UNCHANGED <<crashes, mu, sealed, disk, index, call, req, lost, acked>>
      /\ records' = index
      /\ nameToVMID' \in [DownloadName -> VMID \cup {0}]
  BY DEF loadIndex
<1>2. \A d \in DownloadName : nameToVMID'[d] # 0 =>
         /\ nameToVMID'[d] \in VMID
         /\ index[nameToVMID'[d]].DownloadName = d
  BY DEF loadIndex, Named
<1>3. TypeOK'
  BY <1>1 DEF TypeOK
<1>4. RecordInv' /\ DiskInv'
  BY <1>1 DEF RecordInv, DiskInv, WellSealed
<1>5. \A w \in Writer : call[w].pc = "idle"
  BY <1>1 DEF CallInv
<1>6. CallInv'
  BY <1>1, <1>5 DEF CallInv, WellSealed
<1>7. RequestInv'
  BY <1>1 DEF RequestInv
<1>8. DownInv' /\ ReadsRightKey'
  <2>1. DownInv'
    BY <1>1 DEF DownInv
  <2>2. ReadsRightKey'
    BY <1>1 DEF ReadsRightKey
  <2> QED
    BY <2>1, <2>2
<1>9. NameMapSound'
  <2>1. ASSUME NEW d \in DownloadName, nameToVMID'[d] # 0
        PROVE  index[nameToVMID'[d]] # NoRecord
    BY <1>2, <2>1, NoRecordFacts
  <2> QED
    BY <1>1, <1>2, <2>1 DEF NameMapSound
<1>10. Serving' = Serving
  BY <1>1 DEF Serving
<1>11. FileGoneOnlyIfReplaced'
  BY <1>1, <1>10 DEF FileGoneOnlyIfReplaced, MissesFileOnlyIfSuperseded,
                     Superseded
<1>12. AcknowledgedKeyIsDurable'
  BY <1>1, <1>10 DEF AcknowledgedKeyIsDurable
<1> QED
  BY <1>3, <1>4, <1>6, <1>7, <1>8, <1>9, <1>11, <1>12

LEMMA StutterStep ==
  ASSUME IInv, UNCHANGED vars
  PROVE  IInv'
<1> USE DEF IInv
<1>1. UNCHANGED <<up, crashes, mu, records, nameToVMID, sealed, disk, index,
                  call, req, lost, acked>>
  BY DEF vars
<1>2. TypeOK' /\ RecordInv' /\ DownInv' /\ DiskInv' /\ NameMapSound' /\ ReadsRightKey'
  BY <1>1 DEF TypeOK, RecordInv, WellSealed, DownInv, DiskInv, NameMapSound,
              ReadsRightKey
<1>3. CallInv' /\ RequestInv'
  BY <1>1 DEF CallInv, WellSealed, Unreferenced, RequestInv
<1>4. FileGoneOnlyIfReplaced' /\ AcknowledgedKeyIsDurable'
  BY <1>1 DEF FileGoneOnlyIfReplaced, MissesFileOnlyIfSuperseded, Superseded,
              Serving, AcknowledgedKeyIsDurable
<1> QED
  BY <1>2, <1>3, <1>4

LEMMA NextIInv == IInv /\ [Next]_vars => IInv'
<1> SUFFICES ASSUME IInv, [Next]_vars PROVE IInv'
  OBVIOUS
<1>1. ASSUME NEW w \in Writer, StorePrivateKey(w) PROVE IInv'
  BY <1>1, WriteCipherFileStep, LockStep, ReplaceStep, SaveIndexStep,
     SaveIndexFailsStep DEF StorePrivateKey
<1>2. ASSUME NEW r \in Reader, Download(r) PROVE IInv'
  <2>1. r \in Readers
    BY DEF Readers
  <2> QED
    BY <1>2, <2>1, GetPrivateKeyByVMIDStep, GetPrivateKeyByFilenameStep,
       HasKeyForVMStep, KeyFileNameForVMStep DEF Download
<1>3. ASSUME NEW r \in BridgeReader, BridgeLoad(r) PROVE IInv'
  BY <1>3, BridgeReadIndexStep DEF BridgeLoad
<1>4. ASSUME NEW r \in Readers, decryptRecord(r) \/ Respond(r) PROVE IInv'
  BY <1>4, decryptRecordStep, RespondStep
<1>5. CASE Crash
  BY <1>5, CrashStep
<1>6. CASE loadIndex
  BY <1>6, loadIndexStep
<1>7. CASE UNCHANGED vars
  BY <1>7, StutterStep
<1> QED
  BY <1>1, <1>2, <1>3, <1>4, <1>5, <1>6, <1>7 DEF Next

THEOREM Invariance == Spec => []IInv
BY InitIInv, NextIInv, PTL DEF Spec

\* The state keeps its types, and v.mu is held by at most one writer.
THEOREM TypeCorrect == Spec => []TypeOK
<1>1. IInv => TypeOK
  BY DEF IInv
<1> QED
  BY <1>1, Invariance, PTL

\* A filename the vault knows leads to a record of this name, after any
\* interleaving of stores, failed saves, crashes and restarts.
THEOREM NamesAreSound == Spec => []NameMapSound
<1>1. IInv => NameMapSound
  BY DEF IInv
<1> QED
  BY <1>1, Invariance, PTL

\* No lookup, of the backend or of the bridge, returns a key of another VM or
\* name than the one asked for, or fails to decrypt what it found.
THEOREM LookupsAreRight == Spec => []ReadsRightKey
<1>1. IInv => ReadsRightKey
  BY DEF IInv
<1> QED
  BY <1>1, Invariance, PTL

\* A record misses its key file only if its own VM's key was replaced.
THEOREM OnlyReplacedFilesGo == Spec => []FileGoneOnlyIfReplaced
<1>1. IInv => FileGoneOnlyIfReplaced
  BY DEF IInv
<1> QED
  BY <1>1, Invariance, PTL

\* A key whose store succeeded survives whatever happens to other VMs'
\* stores and to the backend.
THEOREM AcknowledgedKeysLast == Spec => []AcknowledgedKeyIsDurable
<1>1. IInv => AcknowledgedKeyIsDurable
  BY DEF IInv
<1> QED
  BY <1>1, Invariance, PTL

-----------------------------------------------------------------------------
(* The vault implements the key store.                                     *)

current == [v \in VMID |-> KeyIn(Serving, v)]
durable == [v \in VMID |-> KeyIn(index, v)]

\* Steps that change neither map, nor the files the maps mention.
LEMMA SameKeys ==
  ASSUME \A v \in VMID : /\ KeyIn(Serving, v)' = KeyIn(Serving, v)
                         /\ KeyIn(index, v)' = KeyIn(index, v)
  PROVE  UNCHANGED <<current, durable>>
BY DEF current, durable

LEMMA StoreInit == Init => Store!Init
BY NoRecordFacts DEF Init, Store!Init, KeyIn, Serving

LEMMA StoreStep == IInv /\ [Next]_vars => [Store!Next]_(Store!vars)
<1> SUFFICES ASSUME IInv, [Next]_vars
             PROVE  Store!Next \/ UNCHANGED <<current, durable>>
  BY DEF Store!vars, current, durable
<1> USE DEF IInv
<1>1. ASSUME NEW w \in Writer, NEW v \in VMID, NEW d \in DownloadName,
             NEW f \in CipherFile, WriteCipherFile(w, v, d, f)
      PROVE  UNCHANGED <<current, durable>>
  <2>1. /\ UNCHANGED <<up, records, index>>
        /\ disk' = disk \cup {f}
        /\ sealed[f] = NotSealed
    BY <1>1 DEF WriteCipherFile, backend
  <2>2. \A x : WellSealed(x) => x.CipherFile # f
    BY <2>1, NoRecordFacts DEF WellSealed
  <2>3. \A u \in VMID : records[u].CipherFile # f /\ index[u].CipherFile # f
    BY <2>2 DEF RecordInv
  <2>4. Serving' = Serving
    BY <2>1 DEF Serving
  <2>5. \A u \in VMID : Serving[u].CipherFile # f
    BY <2>3 DEF Serving
  <2> QED
    BY <2>1, <2>3, <2>4, <2>5, SameKeys DEF KeyIn
<1>2. ASSUME UNCHANGED <<disk, index, Serving>>
      PROVE  UNCHANGED <<current, durable>>
  BY <1>2 DEF current, durable, KeyIn
<1>3. ASSUME NEW w \in Writer, Lock(w) \/ SaveIndexFails(w)
      PROVE  UNCHANGED <<current, durable>>
  <2>1. UNCHANGED <<up, records, disk, index>>
    BY <1>3 DEF Lock, SaveIndexFails, backend
  <2> QED
    BY <1>2, <2>1 DEF Serving
<1>4. ASSUME NEW w \in Writer, Replace(w)
      PROVE  Store!Next
  <2> DEFINE rec == call[w].rec
             v == rec.VMID
             prev == records[v]
  <2>1. /\ UNCHANGED <<up, index>> /\ up
        /\ rec # NoRecord /\ rec \in sshKeyRecord /\ rec.CipherFile \in disk
        /\ v \in VMID /\ rec.CipherFile \in CipherFile
        /\ rec.CipherFile # prev.CipherFile
    BY <1>4, NoRecordFacts
       DEF Replace, CallInv, Unreferenced, WellSealed, sshKeyRecord
  <2>2. PICK removed \in SUBSET ({prev.CipherFile} \cap disk) :
           disk' = disk \ removed
    BY <1>4 DEF Replace, OldFiles
  <2>3. \A u \in VMID : records'[u] = IF u = v THEN rec ELSE records[u]
    BY <1>4 DEF Replace, TypeOK
  <2>4. Serving = records /\ Serving' = records'
    BY <2>1 DEF Serving
  <2>5. ASSUME NEW u \in VMID, u # v
        PROVE  /\ records[u].CipherFile \in disk => records[u].CipherFile \in disk'
               /\ index[u].CipherFile \in disk => index[u].CipherFile \in disk'
    <3>1. ASSUME NEW x, WellSealed(x), x # NoRecord => x.VMID = u,
                 x.CipherFile \in disk, x.CipherFile = prev.CipherFile
          PROVE  FALSE
      <4>1. x # NoRecord /\ prev # NoRecord
        BY <3>1, NoRecordFacts DEF TypeOK
      <4>2. Aad(x) = Aad(prev) /\ prev.VMID = v
        BY <2>1, <3>1, <4>1 DEF WellSealed, RecordInv
      <4>3. x.VMID = prev.VMID
        BY <4>2 DEF Aad
      <4> QED
        BY <2>5, <3>1, <4>1, <4>2, <4>3
    <3>2. /\ WellSealed(records[u]) /\ (records[u] # NoRecord => records[u].VMID = u)
          /\ WellSealed(index[u]) /\ (index[u] # NoRecord => index[u].VMID = u)
      BY DEF RecordInv
    <3> QED
      BY <2>2, <3>1, <3>2
  <2>6. disk' \subseteq disk /\ rec.CipherFile \in disk'
    BY <2>1, <2>2
  <2>7. current' = [current EXCEPT ![v] = rec.CipherFile]
    BY <2>1, <2>3, <2>4, <2>5, <2>6 DEF current, KeyIn
  <2> DEFINE old == IF index[v].CipherFile \in disk'
                    THEN index[v].CipherFile ELSE ""
  <2>8. durable' = [durable EXCEPT ![v] = old]
    BY <2>1, <2>5, <2>6 DEF durable, KeyIn
  <2>9. old \in {"", durable[v]}
    BY <2>1, <2>6 DEF durable, KeyIn
  <2>10. Store!Put(v, rec.CipherFile)
    BY <2>7, <2>8, <2>9 DEF Store!Put, current, durable
  <2> QED
    BY <2>1, <2>10 DEF Store!Next
<1>5. ASSUME NEW w \in Writer, SaveIndex(w)
      PROVE  Store!Next
  <2>1. UNCHANGED <<up, records, disk>> /\ index' = records /\ up
    BY <1>5 DEF SaveIndex, CallInv, backend
  <2>2. Serving = records /\ Serving' = records
    BY <2>1 DEF Serving
  <2>3. Store!Commit
    BY <2>1, <2>2 DEF Store!Commit, KeyIn
  <2> QED
    BY <2>3 DEF Store!Next
<1>6. ASSUME NEW r \in Readers,
             \/ \E v \in VMID : \/ GetPrivateKeyByVMID(r, v)
                                \/ HasKeyForVM(r, v)
                                \/ BridgeReadIndex(r, v)
             \/ \E d \in DownloadName : GetPrivateKeyByFilename(r, d)
             \/ KeyFileNameForVM(r) \/ decryptRecord(r) \/ Respond(r)
      PROVE  UNCHANGED <<current, durable>>
  <2>1. UNCHANGED <<up, records, disk, index>>
    BY <1>6 DEF GetPrivateKeyByVMID, HasKeyForVM, BridgeReadIndex,
                GetPrivateKeyByFilename, KeyFileNameForVM, decryptRecord, Respond,
                backend
  <2> QED
    BY <1>2, <2>1 DEF Serving
<1>7. CASE Crash
  <2>1. UNCHANGED <<disk, index>> /\ up' = FALSE
    BY <1>7 DEF Crash
  <2>2. Serving' = index
    BY <2>1 DEF Serving
  <2>3. Store!Crash
    BY <2>1, <2>2 DEF Store!Crash, KeyIn
  <2> QED
    BY <2>3 DEF Store!Next
<1>8. CASE loadIndex
  <2>1. UNCHANGED <<disk, index>> /\ ~up /\ up' /\ records' = index
    BY <1>8 DEF loadIndex
  <2> QED
    BY <1>2, <2>1 DEF Serving
<1>9. CASE UNCHANGED vars
  <2>1. UNCHANGED <<up, records, disk, index>>
    BY <1>9 DEF vars
  <2> QED
    BY <1>2, <2>1 DEF Serving
<1>10. CASE \E w \in Writer : StorePrivateKey(w)
  BY <1>1, <1>3, <1>4, <1>5, <1>10 DEF StorePrivateKey
<1>11. CASE \E r \in Reader : Download(r)
  BY <1>6, <1>11 DEF Download, Readers
<1>12. CASE \E r \in BridgeReader : BridgeLoad(r)
  BY <1>6, <1>12 DEF BridgeLoad, Readers
<1>13. CASE \E r \in Readers : decryptRecord(r) \/ Respond(r)
  BY <1>6, <1>13
<1> QED
  BY <1>7, <1>8, <1>9, <1>10, <1>11, <1>12, <1>13 DEF Next

\* Every behaviour of the vault is one of the abstract key store: a step
\* changes the downloadable key of at most the VM it stores for, and a crash
\* falls back to what the last saved index promises.
THEOREM Refinement == Spec => ImplementsKeyStore
BY StoreInit, StoreStep, Invariance, PTL DEF Spec, ImplementsKeyStore, Store!Spec
=============================================================================
