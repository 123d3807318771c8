--------------------------- MODULE BTSyncInterface ---------------------------
(***************************************************************************)
(* The client's interface to the BTSync daemon                             *)
(* (src/btsync/BTSyncInterface): each method makes one HTTP request, and   *)
(* one object serves all threads of the client.  The daemon is not part of *)
(* the repository.                                                         *)
(*                                                                         *)
(* A call is what is asked, in the words of SyncService, together with the *)
(* URL that is made of it: a method and named parameters, all of them text.*)
(* The code escapes nothing.  An argument in which a character means       *)
(* something in a URL, such as a space or & in a name, is Reserved: what   *)
(* the daemon makes of a URL with such a piece in it is any of Misread.    *)
(***************************************************************************)
EXTENDS Integers, Sequences, FiniteSets, TLC, Arguments

CONSTANTS Slots,       (* calls under way, on any thread                    *)
          Secrets,     (* secrets the daemon may make                       *)
          Calls,       (* the calls that may be made                        *)
          NoSecret, NoCall, NoAnswer,
          ErrorValue,  (* Json::Value(false)                                *)
          Garbled,     (* what is asked by a call that a URL cannot carry   *)
          Misread,     (* what the daemon may take such a URL for           *)
          MaxCalls     (* bound on the number of calls                      *)

(* What the methods are called with.                                        *)
CONSTANTS GivenSecrets, Paths,
          Texts, Numbers,    (* the values of settings                      *)
          Settings,          (* JSON objects of settings                    *)
          Hosts, HostLists,  (* hosts, and JSON arrays of them              *)
          NumberSettings,    (* the settings that are numbers for the daemon*)
          Reserved           (* texts that are not read as they are written:*)
                             (* a character of theirs has a meaning in a    *)
                             (* URL or a list of hosts, or they are empty   *)

VARIABLES
  daemon,  (* as in SyncService                                             *)
  sent,    (* the request on its way to the daemon                          *)
  reply,   (* the reply on its way back                                     *)
  result,  (* what the caller knows                                         *)
  up,      (* TRUE while the client runs                                    *)
  calls    (* how many calls were made                                      *)

btsyncVars == <<daemon, sent, reply, result, up, calls>>

-----------------------------------------------------------------------------
(* The methods.                                                             *)
Throws == [method |-> "none", params |-> <<>>]
Thrown == [asked |-> NoCall, url |-> Throws]

CallOf(method, asked, params) ==
  [asked |-> [method |-> method, args |-> asked],
   url |-> [method |-> method, params |-> params]]

(* A method that passes its arguments on as they are.                       *)
Plain(method, args) == CallOf(method, args, args)

Flag(b) == IF b THEN "1" ELSE "0"
Given(secret) == IF secret = NoSecret THEN <<>> ELSE Named("secret", secret)

(* Mutant: no overload takes a string literal.                              *)
SecretKindsNoLiteral == {"string"}

(* The kinds of argument for which an overload takes a secret.  Any other   *)
(* pointer would rather become a bool than a std::string.                   *)
SecretKinds == {"string", "literal"}
IsSecret(secret, kind) == secret # NoSecret /\ kind \in SecretKinds

GetFolders(secret) == Plain("get_folders", Given(secret))

AddFolder(path, secret, kind, selective) ==
  LET asBool == secret # NoSecret /\ ~IsSecret(secret, kind)
  IN  CallOf("add_folder",
             Named("dir", path) ++ Given(secret) ++ Named("selective_sync", selective),
             Named("dir", path) ++ (IF asBool THEN <<>> ELSE Given(secret))
               ++ Named("selective_sync", Flag(asBool \/ selective)))

RemoveFolder(secret) == Plain("remove_folder", Given(secret))

GetFiles(secret) == Plain("get_files", Given(secret))
GetFilesIn(secret, path) == Plain("get_files", Given(secret) ++ Named("path", path))

SetFilePreferences(secret, path, download) ==
  CallOf("set_file_prefs",
         Given(secret) ++ Named("path", path) ++ Named("download", download),
         Given(secret) ++ Named("path", path) ++ Named("download", Flag(download)))

GetFolderPeers(secret) == Plain("get_folder_peers", Given(secret))

GetSecrets(secret, kind, encrypted) ==
  LET asBool == secret # NoSecret /\ ~IsSecret(secret, kind)
  IN  CallOf("get_secrets",
             Given(secret) ++ Named("encrypted", encrypted),
             (IF asBool \/ encrypted THEN Named("type", "encryption") ELSE <<>>)
               ++ (IF asBool THEN <<>> ELSE Given(secret)))

GetFolderPreferences(secret) == Plain("get_folder_prefs", Given(secret))

(* A JSON value is a type and a value.                                      *)
JsonValueToString(v) == IF v.type = "int" THEN ToString(v.value) ELSE v.value

(* getMemberNames throws when the value is not an object, such as the false *)
(* that a failed get has returned.                                          *)
SetFolderPreferences(secret, params) ==
  IF params = ErrorValue THEN Thrown
  ELSE CallOf("set_folder_prefs", Given(secret) ++ Named("prefs", params),
              Given(secret) ++ [n \in DOMAIN params |-> JsonValueToString(params[n])])

GetFolderHosts(secret) == Plain("get_folder_hosts", Given(secret))

(* The loop puts a comma before every host but the first.                   *)
Csv(hosts) ==
  [i \in 1..(2 * Len(hosts) - 1) |-> IF i % 2 = 0 THEN "," ELSE hosts[(i + 1) \div 2]]

(* operator[] fails on a false.  An object without hosts, such as an error  *)
(* that the daemon answered, has an empty list of them.                     *)
SetFolderHosts(secret, json) ==
  LET hosts == IF "hosts" \in DOMAIN json THEN json["hosts"] ELSE <<>>
  IN  IF json = ErrorValue THEN Thrown
      ELSE CallOf("set_folder_hosts", Given(secret) ++ Named("hosts", hosts),
                  Given(secret) ++ Named("hosts", Csv(hosts)))

GetPreferences == Plain("get_prefs", <<>>)

SetPreferences(params) ==
  IF params = ErrorValue THEN Thrown
  ELSE CallOf("set_prefs", Named("prefs", params),
              [n \in DOMAIN params |-> JsonValueToString(params[n])])

GetOSName == Plain("get_os", <<>>)
GetVersion == Plain("get_version", <<>>)
GetSpeed == Plain("get_speed", <<>>)
Shutdown == Plain("shutdown", <<>>)

(* JSON values that setters are given: objects, and what a failed get has   *)
(* returned.                                                                *)
GivenSettings == Settings \cup {ErrorValue}
GivenHosts == [{"hosts"} -> HostLists] \cup {<<>>, ErrorValue}

(* All calls there are.                                                     *)
AllCalls ==
  LET perhaps == GivenSecrets \cup {NoSecret}
      kinds == {"string", "literal"}
  IN  UNION {
        {GetFolders(x) : x \in perhaps},
        {AddFolder(p, x, k, b) : p \in Paths, x \in perhaps, k \in kinds, b \in BOOLEAN},
        {RemoveFolder(x) : x \in GivenSecrets},
        {GetFiles(x) : x \in GivenSecrets},
        {GetFilesIn(x, p) : x \in GivenSecrets, p \in Paths},
        {SetFilePreferences(x, p, b) : x \in GivenSecrets, p \in Paths, b \in BOOLEAN},
        {GetFolderPeers(x) : x \in GivenSecrets},
        {GetSecrets(x, k, b) : x \in perhaps, k \in kinds, b \in BOOLEAN},
        {GetFolderPreferences(x) : x \in GivenSecrets},
        {SetFolderPreferences(x, params) : x \in GivenSecrets, params \in GivenSettings},
        {GetFolderHosts(x) : x \in GivenSecrets},
        {SetFolderHosts(x, json) : x \in GivenSecrets, json \in GivenHosts},
        {SetPreferences(params) : params \in GivenSettings},
        {GetPreferences, GetOSName, GetVersion, GetSpeed, Shutdown}}

JsonValues ==
  [type : {"int"}, value : Numbers] \cup [type : {"string"}, value : Texts]

ASSUME ArgumentsAssumption ==
  /\ NoSecret \notin GivenSecrets
  /\ \A params \in Settings : params \in [DOMAIN params -> JsonValues]
  /\ \A i, j \in Numbers : ToString(i) = ToString(j) => i = j
  /\ HostLists \subseteq Seq(Hosts)
  /\ "," \in Reserved

(* The calls that make a request.                                           *)
Requests == {k \in Calls : k.url # Throws}

ASSUME CallsAssumption ==
  /\ IsFiniteSet(Slots)
  /\ Calls \subseteq AllCalls
  /\ NoCall \notin Calls \cup {k.asked : k \in Requests} \cup {Garbled}
  /\ Garbled \notin {k.asked : k \in Requests}

-----------------------------------------------------------------------------
(* A URL has no types, and a setting is one parameter more: what is written *)
(* for a setting must be what the daemon holds under that name, which must  *)
(* not be that of another parameter.                                        *)
ClearSetting(n, v) ==
  /\ n \notin Reserved \cup {"method", "secret"}
  /\ v.type = IF n \in NumberSettings THEN "int" ELSE "string"
  /\ v.type = "string" => v.value \notin Reserved

(* TRUE if a URL can carry what is asked, as nothing in it is escaped.      *)
Clear(asked) ==
  LET args == asked.args
  IN  /\ \A n \in DOMAIN args \cap {"secret", "dir", "path"} : args[n] \notin Reserved
      /\ "prefs" \in DOMAIN args =>
           \A n \in DOMAIN args["prefs"] : ClearSetting(n, args["prefs"][n])
      /\ "hosts" \in DOMAIN args =>
           \A i \in DOMAIN args["hosts"] : args["hosts"][i] \notin Reserved

(* How the daemon reads a URL.                                              *)
Parsed(n, text) ==
  IF n \in NumberSettings /\ \E i \in Numbers : ToString(i) = text
  THEN [type |-> "int", value |-> CHOOSE i \in Numbers : ToString(i) = text]
  ELSE [type |-> "string", value |-> text]

Split(csv) ==
  IF \A i \in DOMAIN csv : csv[i] = "," <=> i % 2 = 0
  THEN [i \in 1..((Len(csv) + 1) \div 2) |-> csv[2 * i - 1]] ELSE <<>>

Read(url) ==
  LET p == url.params
      secret == IF "secret" \in DOMAIN p THEN Named("secret", p.secret) ELSE <<>>
      args == CASE url.method \in {"set_prefs", "set_folder_prefs"} ->
                     secret ++ Named("prefs", [n \in DOMAIN p \ {"secret"} |-> Parsed(n, p[n])])
                [] url.method = "get_secrets" ->
                     secret ++ Named("encrypted", "type" \in DOMAIN p)
                [] OTHER ->
                     [n \in DOMAIN p |->
                        CASE n \in {"selective_sync", "download"} -> p[n] = "1"
                          [] n = "hosts" -> Split(p[n])
                          [] OTHER -> p[n]]
  IN  [method |-> url.method, args |-> args]

Readings(request) ==
  IF Clear(request.asked) THEN {Read(request.url)} ELSE Misread

Asked(request) ==
  IF request = NoCall THEN NoCall
  ELSE IF Clear(request.asked) THEN request.asked ELSE Garbled

(* The refinement mapping.                                                  *)
Open == [c \in Slots |-> Asked(sent[c])]
Service == INSTANCE SyncService WITH
  open <- Open,
  answer <- reply,
  Calls <- {Asked(k) : k \in Requests}

BTSyncInit ==
  /\ daemon = [folders |-> <<>>, prefs |-> <<>>, up |-> TRUE]
  /\ sent = [c \in Slots |-> NoCall]
  /\ reply = [c \in Slots |-> NoAnswer]
  /\ result = [c \in Slots |-> Service!Result("none", NoAnswer)]
  /\ up = TRUE
  /\ calls = 0

Pending(c) == result[c].how = "pending"
Learn(c, how, value) == result' = [result EXCEPT ![c] = Service!Result(how, value)]

-----------------------------------------------------------------------------
(* A method is called; request_ sends its URL, unless making it throws.     *)
Request(c, k) ==
  /\ up /\ calls < MaxCalls
  /\ ~Pending(c) /\ sent[c] = NoCall /\ reply[c] = NoAnswer
  /\ IF k.url = Throws
     THEN Learn(c, "threw", NoAnswer) /\ UNCHANGED sent
     ELSE Learn(c, "pending", NoAnswer) /\ sent' = [sent EXCEPT ![c] = k]
  /\ calls' = calls + 1
  /\ UNCHANGED <<daemon, reply, up>>

(* The daemon handles a request and answers.                                *)
Handle(c) ==
  /\ sent[c] # NoCall /\ daemon.up
  /\ \E asked \in Readings(sent[c]) :
       /\ daemon' \in Service!Outcomes(daemon, asked)
       /\ reply' = [reply EXCEPT ![c] = Service!AnswerTo(daemon, asked)]
  /\ sent' = [sent EXCEPT ![c] = NoCall]
  /\ UNCHANGED <<result, up, calls>>

(* request_ parses the reply and returns it.                                *)
Respond(c) ==
  /\ up /\ Pending(c) /\ reply[c] # NoAnswer
  /\ Learn(c, "answer", reply[c])
  /\ reply' = [reply EXCEPT ![c] = NoAnswer]
  /\ UNCHANGED <<daemon, sent, up, calls>>

(* Mutant: a request that failed is made once more.                         *)
RequestFailsRetrying(c) ==
  /\ up /\ Pending(c)
  /\ sent[c] = NoCall /\ reply[c] # NoAnswer
  /\ \E k \in Calls : k.asked = reply[c].asked /\ sent' = [sent EXCEPT ![c] = k]
  /\ reply' = [reply EXCEPT ![c] = NoAnswer]
  /\ UNCHANGED <<daemon, result, up, calls>>

(* curlpp throws, at any time: nobody listens, the connection is lost, the  *)
(* daemon ends.  The request may have been handled, or still be.            *)
RequestFails(c) ==
  /\ up /\ Pending(c)
  /\ Learn(c, "false", NoAnswer)
  /\ UNCHANGED <<daemon, sent, reply, up, calls>>

(* The reply is not JSON.                                                   *)
ParseFails(c) ==
  /\ up /\ Pending(c) /\ reply[c] # NoAnswer
  /\ Learn(c, "false", NoAnswer)
  /\ UNCHANGED <<daemon, sent, reply, up, calls>>

(* A request or a reply is lost with its connection.                        *)
Lose(c) ==
  /\ ~Pending(c) \/ ~daemon.up
  /\ sent[c] # NoCall \/ reply[c] # NoAnswer
  /\ sent' = [sent EXCEPT ![c] = NoCall]
  /\ reply' = [reply EXCEPT ![c] = NoAnswer]
  /\ UNCHANGED <<daemon, result, up, calls>>

DaemonEnds ==
  /\ daemon.up /\ daemon' = [daemon EXCEPT !.up = FALSE]
  /\ UNCHANGED <<sent, reply, result, up, calls>>
DaemonStarts ==
  /\ ~daemon.up /\ \A c \in Slots : sent[c] = NoCall
  /\ daemon' = [daemon EXCEPT !.up = TRUE]
  /\ UNCHANGED <<sent, reply, result, up, calls>>

(* Every request initializes libcurl and cleans up after itself, for the    *)
(* whole process and without a lock: with another thread in a request that  *)
(* is undefined, and the process may die.                                   *)
CrashInCurl ==
  /\ up
  /\ \E c, d \in Slots : c # d /\ Pending(c) /\ Pending(d)
  /\ up' = FALSE
  /\ result' = [c \in Slots |->
                  IF Pending(c) THEN Service!Result("died", NoAnswer) ELSE result[c]]
  /\ UNCHANGED <<daemon, sent, reply, calls>>

BTSyncNext ==
  \/ \E c \in Slots :
       \/ \E k \in Calls : Request(c, k)
       \/ Handle(c) \/ Respond(c) \/ RequestFails(c) \/ ParseFails(c) \/ Lose(c)
  \/ DaemonEnds \/ DaemonStarts \/ CrashInCurl

BTSyncSpec == BTSyncInit /\ [][BTSyncNext]_btsyncVars

-----------------------------------------------------------------------------
(* What a call asks happens at most once, with the arguments it was given,  *)
(* and what it returns is the answer to it: overloads, flags, settings and  *)
(* lists of hosts reach the daemon as they were meant, if a URL can carry   *)
(* them, also when several threads call, replies are lost and the daemon    *)
(* ends in between.  Any other call makes the daemon do at most one thing,  *)
(* and returns the answer to that.                                          *)
ImplementsSyncService == Service!ServiceSpec

(* No call makes a second folder, also when its reply is lost after the     *)
(* daemon has handled it: request_ reports false and does not ask again.    *)
OneFolderPerCall == Cardinality(DOMAIN daemon.folders) <= calls
=============================================================================
