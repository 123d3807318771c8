-------------------------- MODULE MCBTSyncInterface --------------------------
(* An instance of BTSyncInterface for TLC. *)
EXTENDS BTSyncInterface

CONSTANTS s1, s2, x1, x2, p1, p2, h1, h2, h3

(* A device may be called 50: that setting is no number for the daemon.      *)
MCInt(i) == [type |-> "int", value |-> i]
MCStr(s) == [type |-> "string", value |-> s]

MCFolderSettings == [use_dht |-> MCInt(0), use_hosts |-> MCInt(1)]
MCDaemonSettings == [device_name |-> MCStr("50"), download_limit |-> MCInt(50)]
MCSettings == {MCFolderSettings, MCDaemonSettings}
MCHostLists == {<<>>, <<h1, h2, h3>>}

MCCalls ==
  {GetFolders(NoSecret), GetFolders(x1),
   AddFolder(p1, NoSecret, "string", TRUE), AddFolder(p1, x1, "literal", FALSE),
   RemoveFolder(x1), GetFilesIn(x1, p1), SetFilePreferences(x1, p1, FALSE),
   GetSecrets(NoSecret, "string", TRUE), GetSecrets(x1, "literal", FALSE),
   SetFolderPreferences(x1, MCFolderSettings),
   SetFolderHosts(x1, [hosts |-> <<h1, h2, h3>>]), SetFolderHosts(x1, <<>>),
   SetPreferences(MCDaemonSettings),
   SetPreferences(ErrorValue), SetFolderPreferences(x1, ErrorValue),
   SetFolderHosts(x1, ErrorValue), AddFolder(p2, x2, "string", FALSE), Shutdown}

(* The daemon refuses a URL that makes no sense, or finds a shorter path in *)
(* it and another secret behind that.                                       *)
MCMisread == {[method |-> "malformed", args |-> <<>>],
              AddFolder(p1, x1, "string", FALSE).asked}
=============================================================================
