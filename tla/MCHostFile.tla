----------------------------- MODULE MCHostFile -----------------------------
(* HostFile for TLC: uLaunchELF's own thread works on files and renames,    *)
(* the FTP server's lists folders and makes and removes them.               *)
EXTENDS HostFile

MCMayCall ==
    [t \in Threads |->
        IF t \in Direct THEN {"creat", "lseek", "dopen", "dread", "dclose", "close", "mkdir", "rmdir"}
        ELSE {"open", "read", "write", "ioctl", "close", "remove"}]
=============================================================================
