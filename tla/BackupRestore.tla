------------------------------ MODULE BackupRestore ------------------------------
(* What one backup carries: the conversations and the credentials.  They share no state    *)
(* but come back by one import (src/data/exportImport.ts).                                 *)
EXTENDS Backup, SecretVault

(* What a backup brings back can be gone on with: the conversations lead to *)
(* their roots and the credentials open.                                    *)
ImportedIsUsable == CursorsReachRoots /\ ImportOpens
==================================================================================
