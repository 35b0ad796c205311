----------------------------- MODULE MCBackups -----------------------------
EXTENDS Backups, TLC
CONSTANTS timer, shell
MCCommands == timer :> KINDS @@ shell :> {"offsite_sync"}
=============================================================================
