------------------------- MODULE IdentityVaultProofs -------------------------
(***************************************************************************)
(* Proofs about IdentityVault, for any numbers of interruptions and power  *)
(* losses.                                                                 *)
(***************************************************************************)
EXTENDS IdentityVault, TLAPS

\* A file that is missing or torn holds no identity.
LEMMA ContentsDiffer ==
    /\ Absent # Torn
    /\ Absent \notin Identities
    /\ Torn \notin Identities
  <1>1. Absent # Torn
    BY DEF Absent, Torn
  <1>2. Absent \notin Identities
    BY DEF Absent, Identities
  <1>3. Torn \notin Identities
    BY DEF Torn, Identities
  <1> QED
    BY <1>1, <1>2, <1>3

-----------------------------------------------------------------------------
(* Types.                                                                  *)

\* A new identity is one.
LEMMA FreshIdentity ==
    ASSUME NEW n \in Nat \ {0}, NEW b \in BOOLEAN
    PROVE  <<n, b>> \in Identities
  BY DEF Identities

\* Every start that makes an identity, and every step that uses it, holds one.
Holding == {"create_cert", "create_key", "save_identity", "sync_identity", "copy_cert",
            "copy_key", "seed", "serving"}
TypeInv == VaultTypeOK /\ (pc \in Holding => mem \in Identities)

LEMMA InitType == Init => TypeInv
  BY VaultAssumption DEF Init, TypeInv, VaultTypeOK, Contents, Holding

LEMMA StoreType ==
    ASSUME VaultTypeOK, NEW f \in Files, NEW content \in Contents, Store(f, content)
    PROVE  /\ file' \in [Files -> Contents]
           /\ disk' \in [Files -> SUBSET Contents]
  BY DEF VaultTypeOK, Store, Contents

LEMMA NextType == TypeInv /\ [Next]_vars => TypeInv'
  <1> SUFFICES ASSUME TypeInv, [Next]_vars PROVE TypeInv'
    OBVIOUS
  <1> USE DEF TypeInv, VaultTypeOK, Holding
  <1>0. /\ Identities \subseteq Contents
        /\ Absent \in Contents
        /\ Torn \in Contents
    BY DEF Contents
  <1>1. ASSUME NEW step, NEW f \in Files, NEW content \in Contents,
               NEW next \in {"create_key", "save_identity", "sync_identity", "copy_key",
                             "copy_key_out", "load_identity", "seed"},
               Write(step, f, content, next), next \in Holding => mem \in Identities
        PROVE  TypeInv'
    <2>1. CASE Store(f, content) /\ pc' = next /\ UNCHANGED <<mem, faults>>
      BY <1>1, <2>1, StoreType DEF Write
    <2>2. CASE Store(f, Torn) /\ Fault
      BY <1>0, <1>1, <2>2, StoreType, VaultAssumption DEF Write, Fault
    <2> QED
      BY <1>1, <2>1, <2>2 DEF Write
  <1> USE DEF Files, VaultFiles
  <1>2. CASE Start
    BY <1>2, FreshIdentity DEF Start, New
  <1>3. CASE CreateCert
    BY <1>0, <1>1, <1>3 DEF CreateCert, Write
  <1>4. CASE CreateKey
    BY <1>0, <1>1, <1>4 DEF CreateKey, Write
  <1>5. CASE SaveIdentity
    BY <1>0, <1>1, <1>5 DEF SaveIdentity, Write
  <1>6. CASE SyncIdentity
    BY <1>6 DEF SyncIdentity
  <1>7. CASE CopyCert
    <2>1. Write("copy_cert", "v_cert", file["cert"], "copy_key") /\ pc = "copy_cert"
      BY <1>7 DEF CopyCert, Write
    <2> QED
      BY <1>1, <2>1
  <1>8. CASE CopyKey
    <2>1. Write("copy_key", "v_key", file["key"], "seed") /\ pc = "copy_key"
      BY <1>8 DEF CopyKey, Write
    <2> QED
      BY <1>1, <2>1
  <1>9. CASE CopyCertOut
    BY <1>1, <1>9 DEF CopyCertOut
  <1>10. CASE CopyKeyOut
    BY <1>1, <1>10 DEF CopyKeyOut
  <1>11. CASE LoadIdentity
    BY <1>11 DEF LoadIdentity
  <1>12. CASE Serve
    BY <1>12 DEF Serve
  <1>13. CASE Crash
    BY <1>13, VaultAssumption DEF Crash, Fault
  <1>14. CASE PowerLoss
    <2>1. PICK kept \in [Files -> UNION {disk[f] : f \in Files}] :
            /\ \A f \in Files : kept[f] \in disk[f]
            /\ file' = kept
            /\ disk' = [f \in Files |-> {kept[f]}]
      BY <1>14 DEF PowerLoss
    <2>2. \A f \in Files : kept[f] \in Contents
      BY <2>1
    <2> HIDE DEF Files
    <2>3. file' \in [Files -> Contents] /\ disk' \in [Files -> SUBSET Contents]
      BY <2>1, <2>2
    <2> QED
      BY <1>14, <2>3, VaultAssumption DEF PowerLoss
  <1>15. CASE UNCHANGED vars
    BY <1>15 DEF vars
  <1> QED
    BY <1>2, <1>3, <1>4, <1>5, <1>6, <1>7, <1>8, <1>9, <1>10, <1>11, <1>12, <1>13,
       <1>14, <1>15 DEF Next, Step

\* Every variable keeps its type.
THEOREM VaultTypesHold == VaultSpec => []VaultTypeOK
  <1>1. TypeInv => VaultTypeOK
    BY DEF TypeInv
  <1> QED
    BY <1>1, InitType, NextType, PTL DEF VaultSpec

-----------------------------------------------------------------------------
(* identity.bin and the disk, whatever power losses leave.                 *)

MayExist(f) == disk[f] # {Absent}

\* A file is on the disk as it is seen, or as a power loss may leave it; one
\* that is missing was lost or never written.  identity.bin is on the disk
\* before the other two files of the vault may be, and whole when both may be.
DiskInv ==
    /\ \A f \in Files : file[f] \in disk[f] /\ (file[f] = Absent => disk[f] = {Absent})
    /\ MayExist("v_cert") \/ MayExist("v_key") => Absent \notin disk["v_identity"]
    /\ MayExist("v_cert") /\ MayExist("v_key") => disk["v_identity"] \subseteq Identities

\* What each step of a start has done: of a new vault, and of one that is loaded.
MakingInv ==
    /\ pc \in {"create_cert", "create_key", "save_identity", "sync_identity", "copy_cert"} =>
         ~(MayExist("v_cert") /\ MayExist("v_key"))
    /\ pc \in {"create_key", "save_identity", "sync_identity", "copy_cert", "copy_key"} =>
         file["cert"] = mem
    /\ pc \in {"save_identity", "sync_identity", "copy_cert", "copy_key"} =>
         file["key"] = mem
    /\ pc \in {"sync_identity", "copy_cert", "copy_key"} => file["v_identity"] = mem
    /\ pc \in {"copy_cert", "copy_key"} => disk["v_identity"] = {mem}
    /\ pc = "copy_key" => file["v_cert"] = mem
LoadingInv ==
    /\ pc \in {"copy_cert_out", "copy_key_out", "load_identity", "seed", "serving"} => Exists
    /\ pc \in {"copy_key_out", "load_identity", "seed", "serving"} =>
         file["cert"] = file["v_cert"]
    /\ pc \in {"load_identity", "seed", "serving"} => file["key"] = file["v_key"]
    /\ pc \in {"seed", "serving"} => mem = file["v_identity"]

DurableInv == TypeInv /\ DiskInv /\ MakingInv /\ LoadingInv

LEMMA InitDurable == Init => DurableInv
  <1> SUFFICES ASSUME Init PROVE DurableInv
    OBVIOUS
  <1>1. TypeInv
    BY InitType
  <1>2. DiskInv
    BY DEF Init, DiskInv, MayExist, Files, VaultFiles
  <1>3. MakingInv /\ LoadingInv
    BY DEF Init, MakingInv, LoadingInv
  <1> QED
    BY <1>1, <1>2, <1>3 DEF DurableInv

\* The vault is there for exists if and only if a power loss may leave all of it.
LEMMA ExistsMayExist ==
    ASSUME DiskInv
    PROVE  /\ \A f \in Files : file[f] # Absent <=> MayExist(f)
           /\ Exists => file["v_identity"] \in Identities
           /\ ~Exists => ~(MayExist("v_cert") /\ MayExist("v_key"))
  <1> USE DEF DiskInv, MayExist, Files, VaultFiles
  <1>1. \A f \in Files : file[f] # Absent <=> MayExist(f)
    OBVIOUS
  <1> QED
    BY <1>1 DEF Exists

\* One write, whole or torn, keeps DiskInv where it may happen.
LEMMA StoreDisk ==
    ASSUME TypeInv, DiskInv, NEW f \in Files, NEW content \in Contents \ {Absent},
           Store(f, content),
           f \in {"v_cert", "v_key"} => disk["v_identity"] \subseteq Identities,
           f = "v_identity" => ~(MayExist("v_cert") /\ MayExist("v_key"))
    PROVE  DiskInv'
  <1> USE ContentsDiffer DEF TypeInv, VaultTypeOK, DiskInv, MayExist, Store
  <1>1. \A g \in Files : /\ file'[g] = IF g = f THEN content ELSE file[g]
                         /\ disk'[g] = IF g = f THEN disk[g] \cup {Torn, content} ELSE disk[g]
    OBVIOUS
  <1>2. \A g \in Files : file'[g] \in disk'[g] /\ (file'[g] = Absent => disk'[g] = {Absent})
    BY <1>1
  <1> USE DEF Files, VaultFiles
  <1>3. CASE f \in {"cert", "key"}
    BY <1>1, <1>2, <1>3
  <1>4. CASE f = "v_identity"
    BY <1>1, <1>2, <1>4
  <1>5. CASE f \in {"v_cert", "v_key"}
    BY <1>1, <1>2, <1>5
  <1> QED
    BY <1>3, <1>4, <1>5

\* A write of a start keeps everything, whether it is interrupted or not.
LEMMA NextDurable == DurableInv /\ [Next]_vars => DurableInv'
  <1> SUFFICES ASSUME DurableInv, [Next]_vars PROVE DurableInv'
    OBVIOUS
  <1> USE DEF DurableInv
  <1>0. TypeInv'
    BY NextType
  <1>1. \A f \in Files : file[f] \in Contents /\ disk[f] \subseteq Contents
    BY DEF TypeInv, VaultTypeOK
  <1>2. pc \in Holding => mem \in Identities /\ mem # Absent
    BY ContentsDiffer DEF TypeInv
  <1>3. ASSUME NEW step, NEW f \in Files, NEW content \in Contents \ {Absent}, NEW next,
               Write(step, f, content, next),
               f \in {"v_cert", "v_key"} => disk["v_identity"] \subseteq Identities,
               f = "v_identity" => ~(MayExist("v_cert") /\ MayExist("v_key")),
               Store(f, content) /\ pc' = next /\ UNCHANGED mem
                 => MakingInv' /\ LoadingInv'
        PROVE  DurableInv'
    <2>1. CASE Store(f, content) /\ pc' = next /\ UNCHANGED <<mem, faults>>
      BY <1>0, <1>3, <2>1, StoreDisk
    <2>2. CASE Store(f, Torn) /\ Fault
      <3>1. DiskInv'
        BY <1>3, <2>2, StoreDisk, ContentsDiffer DEF Contents
      <3>2. MakingInv' /\ LoadingInv'
        BY <2>2 DEF Fault, MakingInv, LoadingInv
      <3> QED
        BY <1>0, <3>1, <3>2
    <2> QED
      BY <1>3, <2>1, <2>2 DEF Write
  <1>4. CASE Start
    <2>1. DiskInv'
      BY <1>4 DEF Start, New, DiskInv, MayExist
    <2>2. CASE Exists
      BY <1>0, <1>4, <2>1, <2>2 DEF Start, New, MakingInv, LoadingInv, Exists
    <2>3. CASE ~Exists
      BY <1>0, <1>4, <2>1, <2>3, ExistsMayExist
         DEF Start, New, MakingInv, LoadingInv, MayExist
    <2> QED
      BY <2>2, <2>3
  <1>5. \A f \in Files, c \in Contents : Store(f, c) =>
          \A g \in Files : /\ file'[g] = IF g = f THEN c ELSE file[g]
                           /\ disk'[g] = IF g = f THEN disk[g] \cup {Torn, c} ELSE disk[g]
    BY DEF Store, TypeInv, VaultTypeOK
  <1> USE DEF Files, VaultFiles, Holding
  <1>6. CASE CreateCert
    <2>1. pc = "create_cert" /\ Write("create_cert", "cert", mem, "create_key")
      BY <1>6 DEF CreateCert, Write
    <2>2. mem \in Contents \ {Absent}
      BY <1>1, <1>2, <2>1 DEF Contents, MakingInv, LoadingInv, Exists
    <2>3. ASSUME Store("cert", mem), pc' = "create_key", UNCHANGED mem
          PROVE  MakingInv' /\ LoadingInv'
      BY <1>1, <1>2, <1>5, <2>1, <2>2, <2>3 DEF MakingInv, LoadingInv, MayExist, Exists
    <2> QED
      BY <1>3, <2>1, <2>2, <2>3 DEF MakingInv
  <1>7. CASE CreateKey
    <2>1. pc = "create_key" /\ Write("create_key", "key", mem, "save_identity")
      BY <1>7 DEF CreateKey, Write
    <2>2. mem \in Contents \ {Absent}
      BY <1>1, <1>2, <2>1 DEF Contents, MakingInv, LoadingInv, Exists
    <2>3. ASSUME Store("key", mem), pc' = "save_identity", UNCHANGED mem
          PROVE  MakingInv' /\ LoadingInv'
      BY <1>1, <1>2, <1>5, <2>1, <2>2, <2>3 DEF MakingInv, LoadingInv, MayExist, Exists
    <2> QED
      BY <1>3, <2>1, <2>2, <2>3 DEF MakingInv
  <1>8. CASE SaveIdentity
    <2>1. pc = "save_identity" /\ Write("save_identity", "v_identity", mem, "sync_identity")
      BY <1>8 DEF SaveIdentity, Write
    <2>2. mem \in Contents \ {Absent}
      BY <1>1, <1>2, <2>1 DEF Contents, MakingInv, LoadingInv, Exists
    <2>3. ASSUME Store("v_identity", mem), pc' = "sync_identity", UNCHANGED mem
          PROVE  MakingInv' /\ LoadingInv'
      BY <1>1, <1>2, <1>5, <2>1, <2>2, <2>3 DEF MakingInv, LoadingInv, MayExist, Exists
    <2> QED
      BY <1>3, <2>1, <2>2, <2>3 DEF MakingInv
  <1>9. CASE SyncIdentity
    <2>1. disk' = [disk EXCEPT !["v_identity"] = {mem}] /\ mem \in Identities
      BY <1>2, <1>9 DEF SyncIdentity, MakingInv
    <2>2. DiskInv'
      BY <1>1, <1>9, <2>1, ContentsDiffer
         DEF SyncIdentity, DiskInv, MayExist, MakingInv, TypeInv, VaultTypeOK
    <2>3. MakingInv' /\ LoadingInv'
      BY <1>1, <1>9, <2>1
         DEF SyncIdentity, MayExist, MakingInv, LoadingInv, TypeInv, VaultTypeOK
    <2> QED
      BY <1>0, <2>2, <2>3
  <1>10. CASE CopyCert
    <2>1. pc = "copy_cert" /\ Write("copy_cert", "v_cert", file["cert"], "copy_key")
      BY <1>10 DEF CopyCert, Write
    <2>2. file["cert"] \in Contents \ {Absent}
      BY <1>1, <1>2, <2>1 DEF Contents, MakingInv, LoadingInv, Exists
    <2>3. ASSUME Store("v_cert", file["cert"]), pc' = "copy_key", UNCHANGED mem
          PROVE  MakingInv' /\ LoadingInv'
      BY <1>1, <1>2, <1>5, <2>1, <2>2, <2>3 DEF MakingInv, LoadingInv, MayExist, Exists
    <2> QED
      BY <1>2, <1>3, <2>1, <2>2, <2>3 DEF MakingInv
  <1>11. CASE CopyKey
    <2>1. pc = "copy_key" /\ Write("copy_key", "v_key", file["key"], "seed")
      BY <1>11 DEF CopyKey, Write
    <2>2. file["key"] \in Contents \ {Absent}
      BY <1>1, <1>2, <2>1 DEF Contents, MakingInv, LoadingInv, Exists
    <2>3. ASSUME Store("v_key", file["key"]), pc' = "seed", UNCHANGED mem
          PROVE  MakingInv' /\ LoadingInv'
      BY <1>1, <1>2, <1>5, <2>1, <2>2, <2>3 DEF MakingInv, LoadingInv, MayExist, Exists
    <2> QED
      BY <1>2, <1>3, <2>1, <2>2, <2>3 DEF MakingInv
  <1>12. CASE CopyCertOut
    <2>1. pc = "copy_cert_out" /\ Write("copy_cert_out", "cert", file["v_cert"], "copy_key_out")
      BY <1>12 DEF CopyCertOut, Write
    <2>2. file["v_cert"] \in Contents \ {Absent}
      BY <1>1, <1>2, <2>1 DEF Contents, MakingInv, LoadingInv, Exists
    <2>3. ASSUME Store("cert", file["v_cert"]), pc' = "copy_key_out", UNCHANGED mem
          PROVE  MakingInv' /\ LoadingInv'
      BY <1>1, <1>2, <1>5, <2>1, <2>2, <2>3 DEF MakingInv, LoadingInv, MayExist, Exists
    <2> QED
      BY <1>3, <2>1, <2>2, <2>3 DEF MakingInv
  <1>13. CASE CopyKeyOut
    <2>1. pc = "copy_key_out" /\ Write("copy_key_out", "key", file["v_key"], "load_identity")
      BY <1>13 DEF CopyKeyOut, Write
    <2>2. file["v_key"] \in Contents \ {Absent}
      BY <1>1, <1>2, <2>1 DEF Contents, MakingInv, LoadingInv, Exists
    <2>3. ASSUME Store("key", file["v_key"]), pc' = "load_identity", UNCHANGED mem
          PROVE  MakingInv' /\ LoadingInv'
      BY <1>1, <1>2, <1>5, <2>1, <2>2, <2>3 DEF MakingInv, LoadingInv, MayExist, Exists
    <2> QED
      BY <1>3, <2>1, <2>2, <2>3 DEF MakingInv
  <1>14. CASE LoadIdentity
    <2>1. DiskInv'
      BY <1>14 DEF LoadIdentity, DiskInv, MayExist
    <2>2. MakingInv' /\ LoadingInv'
      BY <1>14 DEF LoadIdentity, MakingInv, LoadingInv, Exists
    <2> QED
      BY <1>0, <2>1, <2>2
  <1>15. CASE Serve
    <2>1. DiskInv'
      BY <1>15 DEF Serve, DiskInv, MayExist
    <2>2. MakingInv' /\ LoadingInv'
      BY <1>15 DEF Serve, MakingInv, LoadingInv, Exists
    <2> QED
      BY <1>0, <2>1, <2>2
  <1>16. CASE Crash
    <2>1. DiskInv'
      BY <1>16 DEF Crash, DiskInv, MayExist
    <2>2. MakingInv' /\ LoadingInv'
      BY <1>16 DEF Crash, Fault, MakingInv, LoadingInv
    <2> QED
      BY <1>0, <2>1, <2>2
  <1>17. CASE PowerLoss
    <2>1. PICK kept \in [Files -> UNION {disk[f] : f \in Files}] :
            /\ \A f \in Files : kept[f] \in disk[f]
            /\ file' = kept
            /\ disk' = [f \in Files |-> {kept[f]}]
      BY <1>17 DEF PowerLoss
    <2>2. \A f \in Files : file'[f] \in disk[f] /\ disk'[f] = {file'[f]}
      BY <2>1
    <2>3. DiskInv'
      BY <2>2 DEF DiskInv, MayExist
    <2>4. MakingInv' /\ LoadingInv'
      BY <1>17 DEF PowerLoss, MakingInv, LoadingInv
    <2> QED
      BY <1>0, <2>3, <2>4
  <1>18. CASE UNCHANGED vars
    <2>1. DiskInv'
      BY <1>18 DEF vars, DiskInv, MayExist
    <2>2. MakingInv' /\ LoadingInv'
      BY <1>18 DEF vars, MakingInv, LoadingInv, MayExist, Exists
    <2> QED
      BY <1>0, <2>1, <2>2
  <1> QED
    BY <1>4, <1>6, <1>7, <1>8, <1>9, <1>10, <1>11, <1>12, <1>13, <1>14, <1>15, <1>16,
       <1>17, <1>18 DEF Next, Step

-----------------------------------------------------------------------------
(* The vault's files belong together while power lasts.                    *)

\* The key is the last file of a new vault, so where there is a key the rest
\* is whole and of one identity, which is the only one ever served.
KeyIsLast ==
    /\ file["v_key"] # Absent =>
         /\ file["v_identity"] \in Identities
         /\ file["v_cert"] = file["v_identity"]
         /\ file["v_key"] \in {file["v_identity"], Torn}
    /\ pc \in {"create_cert", "create_key", "save_identity", "sync_identity", "copy_cert",
               "copy_key"} => file["v_key"] = Absent
    /\ \A s \in served : file["v_key"] # Absent /\ s = file["v_identity"]

VaultInv == DurableInv /\ (lost = 0 => KeyIsLast)

LEMMA InitVault == Init => VaultInv
  BY InitDurable DEF Init, VaultInv, KeyIsLast, Files, VaultFiles

LEMMA NextVault == VaultInv /\ [Next]_vars => VaultInv'
  <1> SUFFICES ASSUME VaultInv, [Next]_vars PROVE VaultInv'
    OBVIOUS
  <1>0. DurableInv /\ DurableInv'
    BY NextDurable DEF VaultInv
  <1> SUFFICES ASSUME lost' = 0 PROVE KeyIsLast'
    BY <1>0 DEF VaultInv
  <1>1. TypeInv /\ MakingInv /\ LoadingInv
    BY <1>0 DEF DurableInv
  <1>2. \A f \in Files : file[f] \in Contents
    BY <1>1 DEF TypeInv, VaultTypeOK
  <1>3. lost = 0 /\ ~PowerLoss
    BY <1>1 DEF Next, Start, New, Step, CreateCert, CreateKey, SaveIdentity, SyncIdentity,
                CopyCert, CopyKey, CopyCertOut, CopyKeyOut, LoadIdentity, Serve, Write,
                Crash, PowerLoss, vars, TypeInv, VaultTypeOK
  <1>4. KeyIsLast
    BY <1>3 DEF VaultInv
  <1>5. pc \in Holding => mem \in Identities /\ mem # Absent
    BY <1>1, ContentsDiffer DEF TypeInv
  <1>6. \A f \in Files, c \in Contents : Store(f, c) =>
          \A g \in Files : file'[g] = IF g = f THEN c ELSE file[g]
    BY <1>1 DEF Store, TypeInv, VaultTypeOK
  <1>7. Torn \in Contents /\ Identities \subseteq Contents /\ Torn # Absent
    BY ContentsDiffer DEF Contents
  <1> USE DEF Files, VaultFiles, Holding, KeyIsLast
  <1>8. CASE Start
    <2>1. Exists \/ file["v_key"] = Absent
      BY <1>4, ContentsDiffer DEF Exists
    <2> QED
      BY <1>4, <1>8, <2>1 DEF Start, New
  <1>9. CASE CreateCert
    BY <1>4, <1>5, <1>6, <1>7, <1>9 DEF CreateCert, Write, Fault
  <1>10. CASE CreateKey
    BY <1>4, <1>5, <1>6, <1>7, <1>10 DEF CreateKey, Write, Fault
  <1>11. CASE SaveIdentity
    BY <1>4, <1>5, <1>6, <1>7, <1>11 DEF SaveIdentity, Write, Fault
  <1>12. CASE SyncIdentity
    BY <1>4, <1>12 DEF SyncIdentity
  <1>13. CASE CopyCert
    BY <1>2, <1>4, <1>6, <1>7, <1>13 DEF CopyCert, Write, Fault
  <1>14. CASE CopyKey
    BY <1>1, <1>2, <1>4, <1>5, <1>6, <1>7, <1>14 DEF CopyKey, Write, Fault, MakingInv
  <1>15. CASE CopyCertOut
    BY <1>2, <1>4, <1>6, <1>7, <1>15 DEF CopyCertOut, Write, Fault
  <1>16. CASE CopyKeyOut
    BY <1>2, <1>4, <1>6, <1>7, <1>16 DEF CopyKeyOut, Write, Fault
  <1>17. CASE LoadIdentity
    BY <1>4, <1>17 DEF LoadIdentity
  <1>18. CASE Serve
    BY <1>1, <1>4, <1>18 DEF Serve, LoadingInv, Exists
  <1>19. CASE Crash
    BY <1>4, <1>19 DEF Crash, Fault
  <1>20. CASE UNCHANGED vars
    BY <1>4, <1>20 DEF vars
  <1> QED
    BY <1>3, <1>8, <1>9, <1>10, <1>11, <1>12, <1>13, <1>14, <1>15, <1>16, <1>17, <1>18,
       <1>19, <1>20 DEF Next, Step

-----------------------------------------------------------------------------
(* Theorems.                                                               *)

\* A node serves under one identity as long as its machine keeps power.
THEOREM PermanentIdentityHolds == VaultSpec => []PermanentIdentity
  <1>1. VaultInv => PermanentIdentity
    BY DEF VaultInv, KeyIsLast, PermanentIdentity
  <1> QED
    BY <1>1, InitVault, NextVault, PTL DEF VaultSpec

\* A vault that exists can be loaded, and a node serves from it what belongs
\* together, whatever was interrupted.
THEOREM VaultConsistentHolds == VaultSpec => []VaultConsistent
  <1>1. VaultInv => VaultConsistent
    <2> SUFFICES ASSUME VaultInv PROVE VaultConsistent
      OBVIOUS
    <2>1. Exists => file["v_identity"] \in Identities
      BY ExistsMayExist DEF VaultInv, DurableInv
    <2>2. Exists /\ lost = 0 => /\ file["v_cert"] = file["v_identity"]
                                /\ file["v_key"] \in {file["v_identity"], Torn}
      BY DEF VaultInv, KeyIsLast, Exists, VaultFiles
    <2>3. pc = "serving" => /\ Exists
                            /\ mem = file["v_identity"]
                            /\ file["cert"] = file["v_cert"]
                            /\ file["key"] = file["v_key"]
      BY DEF VaultInv, DurableInv, LoadingInv
    <2> QED
      BY <2>1, <2>2, <2>3 DEF VaultConsistent
  <1> QED
    BY <1>1, InitVault, NextVault, PTL DEF VaultSpec
=============================================================================
