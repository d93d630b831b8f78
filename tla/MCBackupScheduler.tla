------------------------ MODULE MCBackupScheduler ------------------------
EXTENDS BackupScheduler

TwoServices == <<"booking", "cinema">>
==========================================================================
