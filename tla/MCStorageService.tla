-------------------------- MODULE MCStorageService --------------------------
(* Instances of StorageService for TLC.                                    *)
EXTENDS StorageHistory, TLC

NoFaults == {}
DiskFaults == {"disk"}

ClientSymmetry == Permutations(Clients)
=============================================================================
