---------------------------- MODULE IdentityVault ----------------------------
(***************************************************************************)
(* The identity of a node across restarts (trench/src/identity).  A start  *)
(* either finds a vault, copies its certificate and key to the working     *)
(* directory and loads identity.bin, or makes a new identity: it writes    *)
(* the certificate and the key to the working directory, identity.bin to   *)
(* the vault, and copies the other two after it.  Nothing is renamed into  *)
(* place and only identity.bin is synced.                                  *)
(*                                                                         *)
(* The process may end at any step, between two writes or in the middle of *)
(* one (an I/O error is returned by main, which exits), and the machine    *)
(* may lose power.  The file system is external: a file that was synced    *)
(* keeps its name and content, any other may come back as it was, torn, or *)
(* as it was written.                                                      *)
(*                                                                         *)
(* A file's content is the identity it was made for: the certificate bears *)
(* its id, and the fingerprint in identity.bin is the certificate's.       *)
(***************************************************************************)
EXTENDS Naturals

CONSTANTS MaxFaults,   \* bound on the starts and nodes that are interrupted
          MaxLosses    \* bound on the power losses

ASSUME VaultAssumption == MaxFaults \in Nat /\ MaxLosses \in Nat

VARIABLES
    file,     \* what a reader of each file sees
    disk,     \* what each file may hold after a power loss
    pc,       \* the next step of the process; "down" when there is none
    mem,      \* the NodeIdentity in memory; Absent if there is none
    nextId,   \* Uuid::new_v4(): ids never repeat
    served,   \* history: the identities the node has served under
    faults,   \* history: the interruptions so far
    lost      \* history: the power losses so far

vars == <<file, disk, pc, mem, nextId, served, faults, lost>>

\* An identity is its id and its `bootstraped` flag.
Identities == (Nat \ {0}) \X BOOLEAN
Absent == <<>>
Torn == <<0>>
Contents == Identities \cup {Absent, Torn}

\* node-cert.pem and node-key.pem of the working directory, and the vault's files.
VaultFiles == {"v_identity", "v_cert", "v_key"}
Files == {"cert", "key"} \cup VaultFiles

Init ==
    /\ file = [f \in Files |-> Absent]
    /\ disk = [f \in Files |-> {Absent}]
    /\ pc = "down"
    /\ mem = Absent
    /\ nextId = 1
    /\ served = {}
    /\ faults = 0
    /\ lost = 0

-----------------------------------------------------------------------------
(* Steps of the process.                                                   *)

Fault ==
    /\ faults < MaxFaults
    /\ faults' = faults + 1
    /\ pc' = "down"
    /\ mem' = Absent

Store(f, content) ==
    /\ file' = [file EXCEPT ![f] = content]
    /\ disk' = [disk EXCEPT ![f] = @ \cup {Torn, content}]

\* The process at `step` writes f whole and goes on, or is interrupted in it.
Write(step, f, content, next) ==
    /\ pc = step
    /\ \/ Store(f, content) /\ pc' = next /\ UNCHANGED <<mem, faults>>
       \/ Store(f, Torn) /\ Fault
    /\ UNCHANGED <<nextId, served, lost>>

\* Mutant: the vault counts as present once identity.bin is there.
ExistsByIdentity == file["v_identity"] # Absent
Exists == \A f \in VaultFiles : file[f] # Absent

\* Mutant: --bootstrap makes a fresh identity although there is a vault.
NewByFlag(bootstraped) ==
    /\ pc = "down"
    /\ IF Exists /\ ~bootstraped
       THEN pc' = "copy_cert_out" /\ UNCHANGED <<mem, nextId>>
       ELSE pc' = "create_cert" /\ mem' = <<nextId, bootstraped>> /\ nextId' = nextId + 1
    /\ UNCHANGED <<file, disk, served, faults, lost>>
New(bootstraped) ==
    /\ pc = "down"
    /\ IF Exists
       THEN pc' = "copy_cert_out" /\ UNCHANGED <<mem, nextId>>
       ELSE pc' = "create_cert" /\ mem' = <<nextId, bootstraped>> /\ nextId' = nextId + 1
    /\ UNCHANGED <<file, disk, served, faults, lost>>

CreateCert == Write("create_cert", "cert", mem, "create_key")
CreateKey == Write("create_key", "key", mem, "save_identity")
SaveIdentity == Write("save_identity", "v_identity", mem, "sync_identity")
\* Mutant: sync_all is left out.
SyncForgotten ==
    /\ pc = "sync_identity"
    /\ pc' = "copy_cert"
    /\ UNCHANGED <<file, disk, mem, nextId, served, faults, lost>>
SyncIdentity ==
    /\ pc = "sync_identity"
    /\ disk' = [disk EXCEPT !["v_identity"] = {file["v_identity"]}]
    /\ pc' = "copy_cert"
    /\ UNCHANGED <<file, mem, nextId, served, faults, lost>>
CopyCert == Write("copy_cert", "v_cert", file["cert"], "copy_key")
CopyKey == Write("copy_key", "v_key", file["key"], "seed")

CopyCertOut == Write("copy_cert_out", "cert", file["v_cert"], "copy_key_out")
CopyKeyOut == Write("copy_key_out", "key", file["v_key"], "load_identity")
\* identity.bin that cannot be deserialized ends the process.
LoadIdentity ==
    /\ pc = "load_identity"
    /\ IF file["v_identity"] \in Identities
       THEN pc' = "seed" /\ mem' = file["v_identity"]
       ELSE pc' = "down" /\ mem' = Absent
    /\ UNCHANGED <<file, disk, nextId, served, faults, lost>>
\* seed_identity puts the identity in memory's metadata table; then run_server accepts.
Serve ==
    /\ pc = "seed"
    /\ pc' = "serving"
    /\ served' = served \cup {mem}
    /\ UNCHANGED <<file, disk, mem, nextId, faults, lost>>

-----------------------------------------------------------------------------
(* What happens to the process and to its machine.                         *)

Crash ==
    /\ pc # "down"
    /\ Fault
    /\ UNCHANGED <<file, disk, nextId, served, lost>>

PowerLoss ==
    /\ lost < MaxLosses
    /\ lost' = lost + 1
    /\ \E kept \in [Files -> UNION {disk[f] : f \in Files}] :
         /\ \A f \in Files : kept[f] \in disk[f]
         /\ file' = kept
         /\ disk' = [f \in Files |-> {kept[f]}]
    /\ pc' = "down"
    /\ mem' = Absent
    /\ UNCHANGED <<nextId, served, faults>>

Start == \E bootstraped \in BOOLEAN : New(bootstraped)
Step ==
    \/ CreateCert \/ CreateKey \/ SaveIdentity \/ SyncIdentity \/ CopyCert \/ CopyKey
    \/ CopyCertOut \/ CopyKeyOut \/ LoadIdentity \/ Serve
Next == Start \/ Step \/ Crash \/ PowerLoss

VaultSpec == Init /\ [][Next]_vars
\* A process that runs goes on, and somebody starts it again when it is down.
FairVaultSpec == VaultSpec /\ WF_vars(Start) /\ WF_vars(Step)

-----------------------------------------------------------------------------
(* Properties.                                                             *)

\* Every variable keeps its type.
VaultTypeOK ==
    /\ file \in [Files -> Contents]
    /\ disk \in [Files -> SUBSET Contents]
    /\ pc \in {"down", "create_cert", "create_key", "save_identity", "sync_identity",
               "copy_cert", "copy_key", "copy_cert_out", "copy_key_out", "load_identity",
               "seed", "serving"}
    /\ mem \in Identities \cup {Absent}
    /\ nextId \in Nat \ {0}
    /\ served \subseteq Identities
    /\ faults \in 0 .. MaxFaults
    /\ lost \in 0 .. MaxLosses

\* "Each node owns a permanent identity": wherever its starts were interrupted,
\* and whatever flag it was started with, a node serves under one identity as
\* long as its machine keeps power.  A vault that is not complete is replaced
\* only if no node ever served from it.
PermanentIdentity == lost = 0 => \A a, b \in served : a = b

\* A vault that exists can be loaded, also after power losses, because
\* identity.bin is synced before any file without which the vault does not
\* exist.  While power was not lost its certificate is whole and both belong to
\* the identity; only the key, the last file, may be torn, because exists does
\* not look into it.  A node serves under its vault's identity, with the
\* vault's credentials.
VaultConsistent ==
    /\ Exists => file["v_identity"] \in Identities
    /\ Exists /\ lost = 0 =>
         /\ file["v_cert"] = file["v_identity"]
         /\ file["v_key"] \in {file["v_identity"], Torn}
    /\ pc = "serving" =>
         /\ Exists
         /\ mem = file["v_identity"]
         /\ file["cert"] = file["v_cert"]
         /\ file["key"] = file["v_key"]

\* After the last interruption the node comes up and stays up: no interrupted
\* start leaves files behind with which every later start fails.
StartsAgain == <>[](pc = "serving")
=============================================================================
