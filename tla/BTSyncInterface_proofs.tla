------------------------ MODULE BTSyncInterface_proofs ------------------------
(* Proofs about the client's interface to the BTSync daemon, for any        *)
(* arguments and any number of threads: the daemon reads in every URL the   *)
(* call it was made of, unless an argument needed escaping, and what it     *)
(* does then is what SyncService allows.                                    *)
EXTENDS BTSyncInterface, FiniteSetTheorems, TLAPS

(***************************************************************************)
(* Named arguments.                                                        *)
(***************************************************************************)
LEMMA BothDomain ==
  ASSUME NEW f, NEW g
  PROVE  DOMAIN (f ++ g) = DOMAIN f \cup DOMAIN g
BY DEF ++

LEMMA BothValue ==
  ASSUME NEW f, NEW g, NEW n \in DOMAIN f \cup DOMAIN g
  PROVE  (f ++ g)[n] = IF n \in DOMAIN f THEN f[n] ELSE g[n]
BY DEF ++

LEMMA BothIsFunction ==
  ASSUME NEW f, NEW g
  PROVE  f ++ g = [n \in DOMAIN (f ++ g) |-> (f ++ g)[n]]
BY DEF ++

LEMMA NamedFacts ==
  ASSUME NEW name, NEW value
  PROVE  /\ DOMAIN Named(name, value) = {name}
         /\ Named(name, value)[name] = value
         /\ Named(name, value) = [n \in {name} |-> Named(name, value)[n]]
BY DEF Named

LEMMA NothingBefore ==
  ASSUME NEW f, f = [n \in DOMAIN f |-> f[n]]
  PROVE  <<>> ++ f = f
BY DEF ++

LEMMA GivenFacts ==
  ASSUME NEW secret
  PROVE  /\ DOMAIN Given(secret) = IF secret = NoSecret THEN {} ELSE {"secret"}
         /\ secret # NoSecret => Given(secret)["secret"] = secret
         /\ Given(secret) = [n \in DOMAIN Given(secret) |-> Given(secret)[n]]
<1>1. <<>> = [n \in {} |-> <<>>[n]] /\ DOMAIN <<>> = {}
  OBVIOUS
<1>2. CASE secret = NoSecret
  BY <1>1, <1>2 DEF Given
<1>3. CASE secret # NoSecret
  <2>1. Given(secret) = Named("secret", secret)
    BY <1>3 DEF Given
  <2> QED BY <1>3, <2>1, NamedFacts
<1> QED BY <1>2, <1>3

LEMMA GivenDomain ==
  ASSUME NEW secret
  PROVE  DOMAIN Given(secret) \subseteq {"secret"}
<1>1. CASE secret = NoSecret
  BY <1>1, GivenFacts
<1>2. CASE secret # NoSecret
  BY <1>2, GivenFacts
<1> QED BY <1>1, <1>2

(* A call that passes its arguments on as they are is read as it is asked.  *)
PlainArgs(args) ==
  /\ args = [n \in DOMAIN args |-> args[n]]
  /\ DOMAIN args \subseteq {"secret", "path"}

LEMMA PlainRead ==
  ASSUME NEW method, NEW args, PlainArgs(args),
         method \notin {"set_prefs", "set_folder_prefs", "get_secrets"}
  PROVE  Read(Plain(method, args).url) = Plain(method, args).asked
<1>1. /\ Plain(method, args).url = [method |-> method, params |-> args]
      /\ Plain(method, args).asked = [method |-> method, args |-> args]
  BY DEF Plain, CallOf
<1>2. \A n \in DOMAIN args :
        (CASE n \in {"selective_sync", "download"} -> args[n] = "1"
           [] n = "hosts" -> Split(args[n])
           [] OTHER -> args[n]) = args[n]
  BY DEF PlainArgs
<1> DEFINE read == [n \in DOMAIN args |->
                      CASE n \in {"selective_sync", "download"} -> args[n] = "1"
                        [] n = "hosts" -> Split(args[n])
                        [] OTHER -> args[n]]
<1>3. read = args
  BY <1>2 DEF PlainArgs
<1>4. Read([method |-> method, params |-> args]) = [method |-> method, args |-> read]
  BY DEF Read
<1> QED BY <1>1, <1>3, <1>4

(* Flags.                                                                   *)
LEMMA FlagRead ==
  ASSUME NEW b \in BOOLEAN
  PROVE  (Flag(b) = "1") = b
BY DEF Flag

(* A flag behind arguments that are passed on as they are.                  *)
LEMMA FlaggedRead ==
  ASSUME NEW method, method \notin {"set_prefs", "set_folder_prefs", "get_secrets"},
         NEW first, DOMAIN first \subseteq {"dir", "secret", "path"},
         NEW name \in {"selective_sync", "download"}, NEW b \in BOOLEAN
  PROVE  Read([method |-> method, params |-> first ++ Named(name, Flag(b))]) =
           [method |-> method, args |-> first ++ Named(name, b)]
<1> DEFINE args == first ++ Named(name, b)
           p == first ++ Named(name, Flag(b))
           read == [n \in DOMAIN p |->
                      CASE n \in {"selective_sync", "download"} -> p[n] = "1"
                        [] n = "hosts" -> Split(p[n])
                        [] OTHER -> p[n]]
<1>1. Read([method |-> method, params |-> p]) = [method |-> method, args |-> read]
  BY DEF Read
<1>2. ASSUME NEW v
      PROVE  /\ DOMAIN (first ++ Named(name, v)) = DOMAIN first \cup {name}
             /\ (first ++ Named(name, v))[name] = v
             /\ \A n \in DOMAIN first : (first ++ Named(name, v))[n] = first[n]
  <2>1. DOMAIN Named(name, v) = {name} /\ Named(name, v)[name] = v /\ name \notin DOMAIN first
    BY NamedFacts
  <2>2. DOMAIN (first ++ Named(name, v)) = DOMAIN first \cup {name}
    BY <2>1, BothDomain
  <2> QED BY <2>1, <2>2, BothValue
<1>3. DOMAIN args = DOMAIN p /\ DOMAIN p = DOMAIN first \cup {name}
  BY <1>2
<1>4. \A n \in DOMAIN p : read[n] = args[n]
  <2>1. args[name] = b /\ p[name] = Flag(b)
    BY <1>2
  <2>2. \A n \in DOMAIN first : args[n] = first[n] /\ p[n] = first[n]
    BY <1>2
  <2> HIDE DEF p, args
  <2> SUFFICES ASSUME NEW n \in DOMAIN p PROVE read[n] = args[n]
    OBVIOUS
  <2>3. CASE n = name
    BY <2>1, <2>3, FlagRead
  <2>4. CASE n # name
    BY <1>3, <2>2, <2>4
  <2> QED BY <2>3, <2>4
<1>5. args = [n \in DOMAIN args |-> args[n]]
  BY BothIsFunction
<1>6. read = args
  <2> HIDE DEF p, args
  <2> QED BY <1>3, <1>4, <1>5
<1> QED BY <1>1, <1>6

LEMMA AddFolderRead ==
  ASSUME NEW path, NEW secret, NEW kind \in {"string", "literal"},
         NEW selective \in BOOLEAN
  PROVE  LET k == AddFolder(path, secret, kind, selective)
         IN  Read(k.url) = k.asked
<1> DEFINE k == AddFolder(path, secret, kind, selective)
           first == Named("dir", path) ++ Given(secret)
<1>1. secret # NoSecret => IsSecret(secret, kind)
  BY DEF IsSecret, SecretKinds
<1>2. /\ k.url = [method |-> "add_folder",
                  params |-> first ++ Named("selective_sync", Flag(selective))]
      /\ k.asked = [method |-> "add_folder",
                    args |-> first ++ Named("selective_sync", selective)]
  BY <1>1 DEF AddFolder, CallOf
<1>3. DOMAIN first \subseteq {"dir", "secret", "path"}
  <2>1. DOMAIN first = DOMAIN Named("dir", path) \cup DOMAIN Given(secret)
    BY BothDomain
  <2>2. DOMAIN Named("dir", path) = {"dir"} /\ DOMAIN Given(secret) \subseteq {"secret"}
    BY NamedFacts, GivenDomain
  <2> QED BY <2>1, <2>2
<1> HIDE DEF first, k
<1> QED BY <1>2, <1>3, FlaggedRead DEF k

LEMMA SetFilePreferencesRead ==
  ASSUME NEW path, NEW secret, NEW download \in BOOLEAN
  PROVE  LET k == SetFilePreferences(secret, path, download)
         IN  Read(k.url) = k.asked
<1> DEFINE k == SetFilePreferences(secret, path, download)
           first == Given(secret) ++ Named("path", path)
<1>1. /\ k.url = [method |-> "set_file_prefs",
                  params |-> first ++ Named("download", Flag(download))]
      /\ k.asked = [method |-> "set_file_prefs",
                    args |-> first ++ Named("download", download)]
  BY DEF SetFilePreferences, CallOf
<1>2. DOMAIN first \subseteq {"dir", "secret", "path"}
  <2>1. DOMAIN first = DOMAIN Given(secret) \cup DOMAIN Named("path", path)
    BY BothDomain
  <2>2. DOMAIN Named("path", path) = {"path"} /\ DOMAIN Given(secret) \subseteq {"secret"}
    BY NamedFacts, GivenDomain
  <2> QED BY <2>1, <2>2
<1> HIDE DEF first, k
<1> QED BY <1>1, <1>2, FlaggedRead DEF k

LEMMA GetSecretsRead ==
  ASSUME NEW secret, NEW kind \in {"string", "literal"}, NEW encrypted \in BOOLEAN
  PROVE  LET k == GetSecrets(secret, kind, encrypted)
         IN  Read(k.url) = k.asked
<1> DEFINE k == GetSecrets(secret, kind, encrypted)
           type == IF encrypted THEN Named("type", "encryption") ELSE <<>>
           p == type ++ Given(secret)
           given == IF "secret" \in DOMAIN p THEN Named("secret", p["secret"]) ELSE <<>>
<1>1. secret # NoSecret => IsSecret(secret, kind)
  BY DEF IsSecret, SecretKinds
<1>2. /\ k.url = [method |-> "get_secrets", params |-> p]
      /\ k.asked = [method |-> "get_secrets",
                    args |-> Given(secret) ++ Named("encrypted", encrypted)]
  BY <1>1 DEF GetSecrets, CallOf
<1>3. Read([method |-> "get_secrets", params |-> p]) =
        [method |-> "get_secrets", args |-> given ++ Named("encrypted", "type" \in DOMAIN p)]
  BY DEF Read
<1>4. DOMAIN type = IF encrypted THEN {"type"} ELSE {}
  <2>1. DOMAIN Named("type", "encryption") = {"type"}
    BY NamedFacts
  <2>2. CASE encrypted
    BY <2>1, <2>2
  <2>3. CASE ~encrypted
    BY <2>1, <2>3
  <2> QED BY <2>2, <2>3
<1>5. DOMAIN p = DOMAIN type \cup DOMAIN Given(secret)
  BY BothDomain
<1>6. ("type" \in DOMAIN p) = encrypted
  <2> HIDE DEF type, p
  <2> QED BY <1>4, <1>5, GivenDomain
<1>7. given = Given(secret)
  <2>1. CASE secret = NoSecret
    <3>1. DOMAIN Given(secret) = {} /\ Given(secret) = <<>>
      BY <2>1, GivenFacts DEF Given
    <3>2. "secret" \notin DOMAIN p
      <4> HIDE DEF type, p
      <4> QED BY <1>4, <1>5, <3>1
    <3> QED BY <3>1, <3>2
  <2>2. CASE secret # NoSecret
    <3>1. /\ DOMAIN Given(secret) = {"secret"} /\ Given(secret)["secret"] = secret
          /\ Given(secret) = Named("secret", secret)
      <4>1. Given(secret) = Named("secret", secret)
        BY <2>2 DEF Given
      <4> QED BY <4>1, NamedFacts
    <3>2. "secret" \in DOMAIN p /\ "secret" \notin DOMAIN type
      <4> HIDE DEF type, p
      <4> QED BY <1>4, <1>5, <3>1
    <3>3. p["secret"] = secret
      <4> HIDE DEF type
      <4> QED BY <1>5, <3>1, <3>2, BothValue
    <3> HIDE DEF p
    <3> QED BY <3>1, <3>2, <3>3
  <2> QED BY <2>1, <2>2
<1> HIDE DEF p, k, given
<1> QED BY <1>2, <1>3, <1>6, <1>7 DEF k

(* A setting that a URL can carry keeps its type on the way.                *)
LEMMA ParsedValue ==
  ASSUME NEW n, NEW v \in JsonValues, ClearSetting(n, v)
  PROVE  Parsed(n, JsonValueToString(v)) = v
<1>1. CASE v \in [type : {"int"}, value : Numbers]
  <2>1. JsonValueToString(v) = ToString(v.value) /\ v.value \in Numbers
    BY <1>1 DEF JsonValueToString
  <2>2. (CHOOSE i \in Numbers : ToString(i) = ToString(v.value)) = v.value
    BY <2>1, ArgumentsAssumption
  <2>3. Parsed(n, ToString(v.value)) = [type |-> "int", value |-> v.value]
    BY <1>1, <2>1, <2>2 DEF Parsed, ClearSetting
  <2> QED BY <1>1, <2>1, <2>3
<1>2. CASE v \in [type : {"string"}, value : Texts]
  <2>1. JsonValueToString(v) = v.value
    BY <1>2 DEF JsonValueToString
  <2>2. n \notin NumberSettings
    BY <1>2 DEF ClearSetting
  <2>3. Parsed(n, v.value) = [type |-> "string", value |-> v.value]
    BY <2>2 DEF Parsed
  <2> QED BY <1>2, <2>1, <2>3
<1> QED BY <1>1, <1>2 DEF JsonValues

(* The settings of a call that a URL can carry.                             *)
LEMMA ClearPrefs ==
  ASSUME NEW method, NEW first, DOMAIN first \subseteq {"secret"}, NEW params,
         Clear([method |-> method, args |-> first ++ Named("prefs", params)])
  PROVE  \A n \in DOMAIN params : ClearSetting(n, params[n])
<1> DEFINE args == first ++ Named("prefs", params)
<1>1. DOMAIN Named("prefs", params) = {"prefs"} /\ Named("prefs", params)["prefs"] = params
  BY NamedFacts
<1>2. "prefs" \in DOMAIN first \cup DOMAIN Named("prefs", params) /\ "prefs" \notin DOMAIN first
  BY <1>1
<1>3. "prefs" \in DOMAIN args
  BY <1>2, BothDomain
<1>4. args["prefs"] = params
  BY <1>1, <1>2, BothValue
<1>5. \A n \in DOMAIN args["prefs"] : ClearSetting(n, args["prefs"][n])
  <2> HIDE DEF args
  <2>1. Clear([method |-> method, args |-> args])
    BY DEF args
  <2> QED BY <1>3, <2>1 DEF Clear
<1> QED BY <1>4, <1>5

LEMMA SetFolderPreferencesRead ==
  ASSUME NEW secret \in GivenSecrets, NEW params \in Settings, params # ErrorValue,
         Clear(SetFolderPreferences(secret, params).asked)
  PROVE  LET k == SetFolderPreferences(secret, params)
         IN  Read(k.url) = k.asked
<1> DEFINE k == SetFolderPreferences(secret, params)
           text == [n \in DOMAIN params |-> JsonValueToString(params[n])]
           p == Given(secret) ++ text
           given == IF "secret" \in DOMAIN p THEN Named("secret", p["secret"]) ELSE <<>>
           prefs == [n \in DOMAIN p \ {"secret"} |-> Parsed(n, p[n])]
<1>1. /\ k.url = [method |-> "set_folder_prefs", params |-> p]
      /\ k.asked = [method |-> "set_folder_prefs",
                    args |-> Given(secret) ++ Named("prefs", params)]
  BY DEF SetFolderPreferences, CallOf
<1>2. Read([method |-> "set_folder_prefs", params |-> p]) =
        [method |-> "set_folder_prefs", args |-> given ++ Named("prefs", prefs)]
  BY DEF Read
<1>3. /\ DOMAIN Given(secret) = {"secret"} /\ Given(secret)["secret"] = secret
      /\ Given(secret) = Named("secret", secret)
  BY GivenFacts, ArgumentsAssumption DEF Given
<1>4. /\ "secret" \notin DOMAIN params
      /\ params = [n \in DOMAIN params |-> params[n]]
      /\ \A n \in DOMAIN params : params[n] \in JsonValues /\ ClearSetting(n, params[n])
  <2>1. \A n \in DOMAIN params : ClearSetting(n, params[n])
    <3>1. DOMAIN Given(secret) \subseteq {"secret"}
      BY GivenDomain
    <3>2. Clear([method |-> "set_folder_prefs", args |-> Given(secret) ++ Named("prefs", params)])
      BY <1>1
    <3> QED BY <3>1, <3>2, ClearPrefs
  <2> QED BY <2>1, ArgumentsAssumption DEF ClearSetting
<1>5. /\ DOMAIN p = {"secret"} \cup DOMAIN params
      /\ p["secret"] = secret
      /\ \A n \in DOMAIN params : p[n] = JsonValueToString(params[n])
  <2>1. DOMAIN text = DOMAIN params /\ \A n \in DOMAIN params : text[n] = JsonValueToString(params[n])
    OBVIOUS
  <2> HIDE DEF text
  <2>2. DOMAIN p = {"secret"} \cup DOMAIN params
    <3>1. DOMAIN p = DOMAIN Given(secret) \cup DOMAIN text
      BY BothDomain
    <3> QED BY <1>3, <2>1, <3>1
  <2> QED BY <1>3, <1>4, <2>1, <2>2, BothValue
<1>6. given = Given(secret)
  <2> HIDE DEF p
  <2> QED BY <1>3, <1>5
<1>7. prefs = params
  <2> HIDE DEF p
  <2>1. DOMAIN p \ {"secret"} = DOMAIN params
    BY <1>4, <1>5
  <2>2. \A n \in DOMAIN params : Parsed(n, p[n]) = params[n]
    BY <1>4, <1>5, ParsedValue
  <2> QED BY <1>4, <2>1, <2>2
<1> HIDE DEF p, k, given, prefs
<1> QED BY <1>1, <1>2, <1>6, <1>7 DEF k

LEMMA SetPreferencesRead ==
  ASSUME NEW params \in Settings, params # ErrorValue,
         Clear(SetPreferences(params).asked)
  PROVE  LET k == SetPreferences(params)
         IN  Read(k.url) = k.asked
<1> DEFINE k == SetPreferences(params)
           p == [n \in DOMAIN params |-> JsonValueToString(params[n])]
           prefs == [n \in DOMAIN p \ {"secret"} |-> Parsed(n, p[n])]
<1>1. /\ k.url = [method |-> "set_prefs", params |-> p]
      /\ k.asked = [method |-> "set_prefs", args |-> Named("prefs", params)]
  BY DEF SetPreferences, CallOf
<1>2. /\ "secret" \notin DOMAIN params
      /\ params = [n \in DOMAIN params |-> params[n]]
      /\ \A n \in DOMAIN params : params[n] \in JsonValues /\ ClearSetting(n, params[n])
  <2>1. <<>> ++ Named("prefs", params) = Named("prefs", params) /\ DOMAIN <<>> \subseteq {"secret"}
    BY NothingBefore DEF Named
  <2>2. \A n \in DOMAIN params : ClearSetting(n, params[n])
    <3>1. Clear([method |-> "set_prefs", args |-> <<>> ++ Named("prefs", params)])
      BY <1>1, <2>1
    <3> QED BY <2>1, <3>1, ClearPrefs
  <2> QED BY <2>2, ArgumentsAssumption DEF ClearSetting
<1>3. Read([method |-> "set_prefs", params |-> p]) =
        [method |-> "set_prefs", args |-> <<>> ++ Named("prefs", prefs)]
  BY <1>2 DEF Read
<1>4. prefs = params
  BY <1>2, ParsedValue
<1>5. <<>> ++ Named("prefs", params) = Named("prefs", params)
  BY NothingBefore DEF Named
<1> HIDE DEF p, k, prefs
<1> QED BY <1>1, <1>3, <1>4, <1>5 DEF k

LEMMA OddPlaces ==
  ASSUME NEW n \in Nat
  PROVE  /\ \A i \in 1..(2 * n - 1) : (i + 1) \div 2 \in 1..n
         /\ \A i \in 1..n : /\ 2 * i - 1 \in 1..(2 * n - 1)
                            /\ (2 * i - 1) % 2 # 0
                            /\ ((2 * i - 1) + 1) \div 2 = i
         /\ ((2 * n - 1) + 1) \div 2 = n
OBVIOUS

LEMMA ListFacts ==
  ASSUME NEW S, NEW list \in Seq(S)
  PROVE  /\ Len(list) \in Nat
         /\ list = [i \in 1..Len(list) |-> list[i]]
         /\ \A i \in 1..Len(list) : list[i] \in S
OBVIOUS

LEMMA CsvFacts ==
  ASSUME NEW hosts \in Seq(Hosts)
  PROVE  /\ DOMAIN Csv(hosts) = 1..(2 * Len(hosts) - 1)
         /\ \A i \in 1..(2 * Len(hosts) - 1) :
              Csv(hosts)[i] = IF i % 2 = 0 THEN "," ELSE hosts[(i + 1) \div 2]
         /\ Len(Csv(hosts)) = IF Len(hosts) = 0 THEN 0 ELSE 2 * Len(hosts) - 1
<1>1. Len(hosts) \in Nat
  BY ListFacts
<1>2. Len(Csv(hosts)) = IF Len(hosts) = 0 THEN 0 ELSE 2 * Len(hosts) - 1
  <2>1. ASSUME NEW n \in Nat, NEW text, text = [i \in 1..(2 * n - 1) |-> text[i]]
        PROVE  Len(text) = IF n = 0 THEN 0 ELSE 2 * n - 1
    <3>1. CASE n = 0
      <4>1. 1..(2 * n - 1) = {}
        BY <3>1
      <4>2. text = <<>>
        BY <2>1, <4>1
      <4> QED BY <3>1, <4>2
    <3>2. CASE n # 0
      BY <2>1, <3>2
    <3> QED BY <3>1, <3>2
  <2>2. Csv(hosts) = [i \in 1..(2 * Len(hosts) - 1) |-> Csv(hosts)[i]]
    BY DEF Csv
  <2> QED BY <1>1, <2>1, <2>2
<1> QED BY <1>2 DEF Csv

(* The list of hosts that the daemon finds is the list that was given.      *)
LEMMA SplitCsv ==
  ASSUME NEW hosts \in Seq(Hosts), \A i \in DOMAIN hosts : hosts[i] \notin Reserved
  PROVE  Split(Csv(hosts)) = hosts
<1>1. \A i \in DOMAIN hosts : hosts[i] # ","
  <2>1. "," \in Reserved
    BY ArgumentsAssumption
  <2> QED BY <2>1
<1>2. PICK n \in Nat : n = Len(hosts)
  BY ListFacts
<1>3. hosts = [i \in 1..n |-> hosts[i]] /\ \A i \in 1..n : hosts[i] # ","
  <2>1. hosts = [i \in 1..n |-> hosts[i]]
    BY <1>2, ListFacts
  <2>2. DOMAIN hosts = 1..n
    BY <2>1
  <2> QED BY <1>1, <2>1, <2>2
<1>4. /\ DOMAIN Csv(hosts) = 1..(2 * n - 1)
      /\ \A i \in 1..(2 * n - 1) :
           Csv(hosts)[i] = IF i % 2 = 0 THEN "," ELSE hosts[(i + 1) \div 2]
      /\ Len(Csv(hosts)) = IF n = 0 THEN 0 ELSE 2 * n - 1
  BY <1>2, CsvFacts
<1>5. \A i \in DOMAIN Csv(hosts) : Csv(hosts)[i] = "," <=> i % 2 = 0
  BY <1>3, <1>4, OddPlaces
<1>6. (Len(Csv(hosts)) + 1) \div 2 = n
  <2>1. CASE n = 0
    <3>1. Len(Csv(hosts)) = 0
      BY <1>4, <2>1
    <3> QED BY <2>1, <3>1
  <2>2. CASE n # 0
    BY <1>4, <2>2, OddPlaces
  <2> QED BY <2>1, <2>2
<1>7. \A i \in 1..n : Csv(hosts)[2 * i - 1] = hosts[i]
  BY <1>4, OddPlaces
<1>8. Split(Csv(hosts)) = [i \in 1..n |-> Csv(hosts)[2 * i - 1]]
  BY <1>5, <1>6 DEF Split
<1> QED BY <1>3, <1>7, <1>8

(* The arguments of setFolderHosts.                                         *)
LEMMA HostsArgs ==
  ASSUME NEW first, DOMAIN first = {"secret"}, NEW v
  PROVE  /\ DOMAIN (first ++ Named("hosts", v)) = {"secret", "hosts"}
         /\ (first ++ Named("hosts", v))["hosts"] = v
         /\ (first ++ Named("hosts", v))["secret"] = first["secret"]
<1>1. DOMAIN Named("hosts", v) = {"hosts"} /\ Named("hosts", v)["hosts"] = v
  BY NamedFacts
<1>2. DOMAIN (first ++ Named("hosts", v)) = {"secret", "hosts"}
  BY <1>1, BothDomain
<1> QED BY <1>1, <1>2, BothValue

LEMMA SetFolderHostsRead ==
  ASSUME NEW secret \in GivenSecrets, NEW json, json # ErrorValue,
         NEW hosts \in Seq(Hosts),
         hosts = IF "hosts" \in DOMAIN json THEN json["hosts"] ELSE <<>>,
         Clear(SetFolderHosts(secret, json).asked)
  PROVE  LET k == SetFolderHosts(secret, json)
         IN  Read(k.url) = k.asked
<1> DEFINE k == SetFolderHosts(secret, json)
           args == Given(secret) ++ Named("hosts", hosts)
           p == Given(secret) ++ Named("hosts", Csv(hosts))
           read == [n \in DOMAIN p |->
                      CASE n \in {"selective_sync", "download"} -> p[n] = "1"
                        [] n = "hosts" -> Split(p[n])
                        [] OTHER -> p[n]]
<1>1. /\ k.url = [method |-> "set_folder_hosts", params |-> p]
      /\ k.asked = [method |-> "set_folder_hosts", args |-> args]
  BY DEF SetFolderHosts, CallOf
<1>2. Read([method |-> "set_folder_hosts", params |-> p]) =
        [method |-> "set_folder_hosts", args |-> read]
  BY DEF Read
<1>3. DOMAIN Given(secret) = {"secret"}
  BY GivenFacts, ArgumentsAssumption
<1>4. ASSUME NEW v
      PROVE  /\ DOMAIN (Given(secret) ++ Named("hosts", v)) = {"secret", "hosts"}
             /\ (Given(secret) ++ Named("hosts", v))["hosts"] = v
             /\ (Given(secret) ++ Named("hosts", v))["secret"] = Given(secret)["secret"]
  BY <1>3, HostsArgs
<1>5. /\ DOMAIN args = DOMAIN p /\ DOMAIN p = {"secret", "hosts"}
      /\ args["hosts"] = hosts /\ p["hosts"] = Csv(hosts) /\ args["secret"] = p["secret"]
  BY <1>4
<1>6. args = [n \in DOMAIN args |-> args[n]]
  BY BothIsFunction
<1>7. \A i \in DOMAIN hosts : hosts[i] \notin Reserved
  <2> HIDE DEF p, args
  <2> QED BY <1>1, <1>5 DEF Clear
<1>8. read = args
  <2> HIDE DEF p, args
  <2> QED BY <1>5, <1>6, <1>7, SplitCsv
<1> HIDE DEF p, k, read, args
<1> QED BY <1>1, <1>2, <1>8 DEF k

(* Whatever is called, with any arguments that a URL can carry: the daemon  *)
(* reads what was asked.  This is where overloads, flags, settings and      *)
(* lists are.                                                               *)
LEMMA ReadsAsAsked ==
  ASSUME NEW k \in AllCalls, k.url # Throws, Clear(k.asked)
  PROVE  Read(k.url) = k.asked
<1>1. PlainArgs(<<>>) /\ \A x : PlainArgs(Given(x))
  <2>1. <<>> = [n \in {} |-> <<>>[n]] /\ DOMAIN <<>> = {}
    OBVIOUS
  <2> QED BY <2>1, GivenFacts, GivenDomain DEF PlainArgs
<1>2. \A x, p : PlainArgs(Given(x) ++ Named("path", p))
  <2> TAKE x, p
  <2>1. DOMAIN (Given(x) ++ Named("path", p)) = DOMAIN Given(x) \cup {"path"}
    <3>1. DOMAIN Named("path", p) = {"path"}
      BY NamedFacts
    <3> QED BY <3>1, BothDomain
  <2>2. DOMAIN Given(x) \subseteq {"secret"}
    BY GivenDomain
  <2> QED BY <2>1, <2>2, BothIsFunction DEF PlainArgs
<1>3. /\ SetPreferences(ErrorValue).url = Throws
      /\ \A x : /\ SetFolderPreferences(x, ErrorValue).url = Throws
                /\ SetFolderHosts(x, ErrorValue).url = Throws
  BY DEF SetPreferences, SetFolderPreferences, SetFolderHosts, Thrown
<1>4. CASE \E x : k \in {GetFolders(x), RemoveFolder(x), GetFiles(x), GetFolderPeers(x),
                       GetFolderPreferences(x), GetFolderHosts(x)}
  BY <1>1, <1>4, PlainRead
  DEF GetFolders, RemoveFolder, GetFiles, GetFolderPeers, GetFolderPreferences, GetFolderHosts
<1>5. CASE \E x, p : k = GetFilesIn(x, p)
  BY <1>2, <1>5, PlainRead DEF GetFilesIn
<1>6. CASE k \in {GetPreferences, GetOSName, GetVersion, GetSpeed, Shutdown}
  BY <1>1, <1>6, PlainRead DEF GetPreferences, GetOSName, GetVersion, GetSpeed, Shutdown
<1>7. CASE \E p, x : \E kind \in {"string", "literal"}, b \in BOOLEAN :
             k \in {AddFolder(p, x, kind, b), SetFilePreferences(x, p, b),
                   GetSecrets(x, kind, b)}
  BY <1>7, AddFolderRead, SetFilePreferencesRead, GetSecretsRead
<1>8. CASE \E x \in GivenSecrets, params \in GivenSettings :
             k = SetFolderPreferences(x, params)
  BY <1>3, <1>8, SetFolderPreferencesRead DEF GivenSettings
<1>9. CASE \E x \in GivenSecrets, json \in GivenHosts :
             k = SetFolderHosts(x, json)
  <2>1. PICK x \in GivenSecrets, json \in GivenHosts :
          k = SetFolderHosts(x, json)
    BY <1>9
  <2>2. json # ErrorValue
    BY <1>3, <2>1
  <2>3. PICK hosts : hosts = IF "hosts" \in DOMAIN json THEN json["hosts"] ELSE <<>>
    OBVIOUS
  <2>4. hosts \in Seq(Hosts)
    <3>1. CASE json \in [{"hosts"} -> HostLists]
      BY <3>1, <2>3, ArgumentsAssumption
    <3>2. CASE json = <<>>
      BY <3>2, <2>3
    <3> QED BY <2>2, <3>1, <3>2 DEF GivenHosts
  <2> QED BY <2>1, <2>2, <2>3, <2>4, SetFolderHostsRead
<1>10. CASE \E params \in GivenSettings : k = SetPreferences(params)
  BY <1>3, <1>10, SetPreferencesRead DEF GivenSettings
<1> QED BY <1>4, <1>5, <1>6, <1>7, <1>8, <1>9, <1>10 DEF AllCalls

(***************************************************************************)
(* The interface implements SyncService.                                   *)
(***************************************************************************)
(* A request on its way is a call, and one that did not throw.              *)
SentOK ==
  /\ sent \in [Slots -> Calls \cup {NoCall}]
  /\ \A c \in Slots : sent[c] # NoCall => sent[c].url # Throws

LEMMA SentInit == BTSyncInit => SentOK
BY DEF BTSyncInit, SentOK

LEMMA SentStep ==
  ASSUME SentOK, [BTSyncNext]_btsyncVars
  PROVE  SentOK'
<1>1. ASSUME NEW c \in Slots, NEW k \in Calls, Request(c, k) PROVE SentOK'
  BY <1>1 DEF SentOK, Request
<1>2. ASSUME NEW c \in Slots, Handle(c) \/ Lose(c) PROVE SentOK'
  BY <1>2 DEF SentOK, Handle, Lose
<1>3. ASSUME UNCHANGED sent PROVE SentOK'
  BY <1>3 DEF SentOK
<1> QED BY <1>1, <1>2, <1>3
    DEF BTSyncNext, btsyncVars, Respond, RequestFails, ParseFails, DaemonEnds, DaemonStarts,
        CrashInCurl

LEMMA SentInvariant == BTSyncSpec => []SentOK
BY SentInit, SentStep, PTL DEF BTSyncSpec

(* What is open changes as the requests do.                                 *)
LEMMA OpenFacts ==
  ASSUME SentOK
  PROVE  \A c \in Slots :
           /\ Open[c] = NoCall <=> sent[c] = NoCall
           /\ sent[c] # NoCall => Readings(sent[c]) = Service!Heard(Open[c])
<1> SUFFICES ASSUME NEW c \in Slots, sent[c] # NoCall
             PROVE  Open[c] # NoCall /\ Readings(sent[c]) = Service!Heard(Open[c])
  BY DEF Open, Asked
<1>1. sent[c] \in Requests
  BY DEF SentOK, Requests
<1>2. CASE Clear(sent[c].asked)
  <2>1. Open[c] = sent[c].asked
    BY <1>2 DEF Open, Asked
  <2>2. Open[c] # NoCall /\ Open[c] # Garbled
    BY <1>1, <2>1, CallsAssumption
  <2>3. Read(sent[c].url) = sent[c].asked
    BY <1>1, <1>2, ReadsAsAsked, CallsAssumption DEF Requests
  <2> QED BY <1>2, <2>1, <2>2, <2>3 DEF Readings, Service!Heard
<1>3. CASE ~Clear(sent[c].asked)
  <2>1. Open[c] = Garbled
    BY <1>3 DEF Open, Asked
  <2> QED BY <1>3, <2>1, CallsAssumption DEF Readings, Service!Heard
<1> QED BY <1>2, <1>3

LEMMA OpenStep ==
  ASSUME SentOK
  PROVE  /\ UNCHANGED sent => UNCHANGED Open
         /\ \A c \in Slots : \A k :
              sent' = [sent EXCEPT ![c] = k] => Open' = [Open EXCEPT ![c] = Asked(k)]
BY DEF SentOK, Open

(* What the caller does: it asks, or the method throws.                     *)
LEMMA RequestImplements ==
  ASSUME SentOK, NEW c \in Slots, NEW k \in Calls, Request(c, k)
  PROVE  \/ \E asked \in {Asked(call) : call \in Requests} : Service!Invoke(c, asked)
         \/ Service!Reject(c)
<1>1. up /\ ~Pending(c) /\ sent[c] = NoCall /\ reply[c] = NoAnswer /\ UNCHANGED <<daemon, reply, up>>
  BY DEF Request
<1>2. Open[c] = NoCall /\ ~Service!Pending(c)
  BY <1>1, OpenFacts DEF Pending, Service!Pending
<1>3. CASE k.url = Throws
  <2>1. UNCHANGED Open /\ Service!Learn(c, "threw", NoAnswer)
    BY <1>3, OpenStep DEF Request, Learn, Service!Learn
  <2> QED BY <1>1, <1>2, <2>1 DEF Service!Reject
<1>4. CASE k.url # Throws
  <2>2. Open' = [Open EXCEPT ![c] = Asked(k)] /\ Service!Learn(c, "pending", NoAnswer)
    BY <1>4, OpenStep DEF Request, Learn, Service!Learn
  <2>3. Service!Invoke(c, Asked(k))
    BY <1>1, <1>2, <2>2 DEF Service!Invoke
  <2> QED BY <1>4, <2>3 DEF Requests
<1> QED BY <1>3, <1>4

(* What the daemon does is what was asked, or what it may take that for.    *)
LEMMA HandleImplements ==
  ASSUME SentOK, NEW c \in Slots, Handle(c)
  PROVE  Service!TakeEffect(c)
<1>1. Open[c] # NoCall /\ Readings(sent[c]) = Service!Heard(Open[c])
  BY OpenFacts DEF Handle
<1>2. Open' = [Open EXCEPT ![c] = NoCall]
  BY OpenStep DEF Handle, Asked
<1>3. /\ \E asked \in Service!Heard(Open[c]) :
           /\ daemon' \in Service!Outcomes(daemon, asked)
           /\ reply' = [reply EXCEPT ![c] = Service!AnswerTo(daemon, asked)]
      /\ daemon.up /\ UNCHANGED <<result, up>>
  BY <1>1 DEF Handle
<1> QED BY <1>1, <1>2, <1>3 DEF Service!TakeEffect

(* A reply, a failure, or a connection that is lost.                        *)
LEMMA ReplyImplements ==
  ASSUME SentOK, NEW c \in Slots,
         Respond(c) \/ RequestFails(c) \/ ParseFails(c) \/ Lose(c)
  PROVE  Service!Return(c) \/ Service!Fail(c) \/ Service!Vanish(c)
<1>1. CASE Respond(c)
  <2>1. UNCHANGED Open
    BY <1>1, OpenStep DEF Respond
  <2> QED BY <1>1, <2>1
      DEF Respond, Pending, Learn, Service!Return, Service!Pending, Service!Learn
<1>2. CASE RequestFails(c) \/ ParseFails(c)
  <2>1. UNCHANGED Open
    BY <1>2, OpenStep DEF RequestFails, ParseFails
  <2> QED BY <1>2, <2>1
      DEF RequestFails, ParseFails, Pending, Learn, Service!Fail, Service!Pending, Service!Learn
<1>3. CASE Lose(c)
  <2>1. Open' = [Open EXCEPT ![c] = NoCall]
    BY <1>3, OpenStep DEF Lose, Asked
  <2> QED BY <1>3, <2>1 DEF Lose, Pending, Service!Vanish, Service!Pending
<1> QED BY <1>1, <1>2, <1>3

(* The daemon ends or starts, the client dies, or nothing happens.          *)
LEMMA EnvironmentImplements ==
  ASSUME SentOK, DaemonEnds \/ DaemonStarts \/ CrashInCurl
  PROVE  Service!DaemonEnds \/ Service!DaemonStarts \/ Service!Die
<1>1. UNCHANGED Open
  BY OpenStep DEF DaemonEnds, DaemonStarts, CrashInCurl
<1>2. CASE DaemonEnds
  BY <1>1, <1>2 DEF DaemonEnds, Service!DaemonEnds
<1>3. CASE DaemonStarts
  <2>1. \A c \in Slots : Open[c] = NoCall
    BY <1>3, OpenFacts DEF DaemonStarts
  <2> QED BY <1>1, <1>3, <2>1 DEF DaemonStarts, Service!DaemonStarts
<1>4. CASE CrashInCurl
  BY <1>1, <1>4 DEF CrashInCurl, Pending, Service!Die, Service!Pending
<1> QED BY <1>2, <1>3, <1>4

(* Requests and replies implement SyncService, whatever any number of       *)
(* threads call and whatever is lost.  What a call asks happens at most     *)
(* once, with its arguments if a URL can carry them, and what it returns is *)
(* the answer to what happened; a false given to a setter throws.           *)
THEOREM InterfaceImplementsSyncService == BTSyncSpec => ImplementsSyncService
<1>1. BTSyncInit => Service!ServiceInit
  BY DEF BTSyncInit, Service!ServiceInit, Service!NoFolders, Open, Asked
<1>2. SentOK /\ [BTSyncNext]_btsyncVars => [Service!ServiceNext]_(Service!serviceVars)
  <2> SUFFICES ASSUME SentOK, [BTSyncNext]_btsyncVars
               PROVE  Service!ServiceNext \/ UNCHANGED Service!serviceVars
    OBVIOUS
  <2>1. ASSUME NEW c \in Slots, NEW k \in Calls, Request(c, k) PROVE Service!ServiceNext
    BY <2>1, RequestImplements DEF Service!ServiceNext
  <2>2. ASSUME NEW c \in Slots,
               Handle(c) \/ Respond(c) \/ RequestFails(c) \/ ParseFails(c) \/ Lose(c)
        PROVE  Service!ServiceNext
    BY <2>2, HandleImplements, ReplyImplements DEF Service!ServiceNext
  <2>3. CASE DaemonEnds \/ DaemonStarts \/ CrashInCurl
    BY <2>3, EnvironmentImplements DEF Service!ServiceNext
  <2>4. CASE UNCHANGED btsyncVars
    BY <2>4, OpenStep DEF btsyncVars, Service!serviceVars
  <2> QED BY <2>1, <2>2, <2>3, <2>4 DEF BTSyncNext
<1> QED BY <1>1, <1>2, SentInvariant, PTL
    DEF BTSyncSpec, ImplementsSyncService, Service!ServiceSpec

(***************************************************************************)
(* No call makes a second folder.                                          *)
(***************************************************************************)
Sending == {c \in Slots : sent[c] # NoCall}
Folders == DOMAIN daemon.folders

(* Every folder that is there, and every request that may make one, has a   *)
(* call of its own.  A request that is handled leaves sent in the same step,*)
(* and one that failed is not made again.                                   *)
FolderInv ==
  /\ SentOK
  /\ calls \in Nat
  /\ daemon = [folders |-> daemon.folders, prefs |-> daemon.prefs, up |-> daemon.up]
  /\ IsFiniteSet(Folders)
  /\ Cardinality(Folders) + Cardinality(Sending) <= calls

(* At most one folder is added, whatever is asked.                          *)
LEMMA OneMore ==
  ASSUME NEW d, d = [folders |-> d.folders, prefs |-> d.prefs, up |-> d.up], NEW asked,
         NEW e \in Service!Outcomes(d, asked)
  PROVE  /\ e = [folders |-> e.folders, prefs |-> e.prefs, up |-> e.up]
         /\ \E s : DOMAIN e.folders \subseteq DOMAIN d.folders \cup {s}
<1> DEFINE args == asked.args
<1>1. CASE asked.method = "add_folder"
  <2>1. e \in Service!FolderAdded(d, args)
    BY <1>1 DEF Service!Outcomes
  <2>2. CASE e = d
    BY <2>2
  <2>3. CASE \E s, folder : e = [d EXCEPT !.folders = Service!++(Service!Named(s, folder), @)]
    <3>1. PICK s, folder : e = [d EXCEPT !.folders = Service!++(Service!Named(s, folder), @)]
      BY <2>3
    <3>2. e.folders = Named(s, folder) ++ d.folders
      BY <3>1 DEF Service!++, ++, Service!Named, Named
    <3>3. DOMAIN e.folders = {s} \cup DOMAIN d.folders
      <4>1. DOMAIN Named(s, folder) = {s}
        BY NamedFacts
      <4> QED BY <3>2, <4>1, BothDomain
    <3>4. e = [folders |-> e.folders, prefs |-> e.prefs, up |-> e.up]
      BY <3>1, <3>2
    <3> QED BY <3>3, <3>4
  <2> QED BY <2>1, <2>2, <2>3 DEF Service!FolderAdded
<1>2. ASSUME NEW secret, NEW field, NEW value, e = Service!SetFolder(d, secret, field, value)
      PROVE  /\ e = [folders |-> e.folders, prefs |-> e.prefs, up |-> e.up]
             /\ DOMAIN e.folders = DOMAIN d.folders
  BY <1>2 DEF Service!SetFolder
<1>3. CASE asked.method = "remove_folder"
  BY <1>3 DEF Service!Outcomes
<1>4. CASE asked.method = "set_folder_prefs"
  BY <1>2, <1>4 DEF Service!Outcomes
<1>5. CASE asked.method = "set_folder_hosts"
  BY <1>2, <1>5 DEF Service!Outcomes
<1>6. CASE asked.method = "set_file_prefs"
  BY <1>2, <1>6 DEF Service!Outcomes
<1>7. CASE asked.method = "set_prefs"
  BY <1>7 DEF Service!Outcomes
<1>8. CASE asked.method = "shutdown"
  BY <1>8 DEF Service!Outcomes
<1>9. CASE asked.method \notin {"add_folder", "remove_folder", "set_folder_prefs",
                               "set_folder_hosts", "set_file_prefs", "set_prefs", "shutdown"}
  BY <1>9 DEF Service!Outcomes
<1> QED BY <1>1, <1>3, <1>4, <1>5, <1>6, <1>7, <1>8, <1>9

LEMMA SendingFinite == IsFiniteSet(Sending) /\ Cardinality(Sending) \in Nat
BY FS_Subset, FS_CardinalityType, CallsAssumption DEF Sending

LEMMA FolderInit == BTSyncInit => FolderInv
<1> SUFFICES ASSUME BTSyncInit PROVE FolderInv
  OBVIOUS
<1>1. Folders = {} /\ Sending = {}
  BY DEF BTSyncInit, Folders, Sending
<1> QED BY <1>1, SentInit, FS_EmptySet DEF BTSyncInit, FolderInv

(* A call that is made may make one folder more. *)
LEMMA FolderRequest ==
  ASSUME FolderInv, SentOK', NEW c \in Slots, NEW k \in Calls, Request(c, k)
  PROVE  FolderInv'
<1>1. Folders' = Folders
  BY DEF Request, Folders
<1>2. calls' = calls + 1
  BY DEF Request
<1>3. Cardinality(Sending') \in Nat /\ Cardinality(Sending') <= Cardinality(Sending) + 1
  <2>1. Sending' = Sending \/ Sending' = Sending \cup {c}
    BY DEF Sending, Request, FolderInv, SentOK
  <2>2. /\ IsFiniteSet(Sending) /\ Cardinality(Sending) \in Nat
        /\ \/ Cardinality(Sending \cup {c}) = Cardinality(Sending)
           \/ Cardinality(Sending \cup {c}) = Cardinality(Sending) + 1
    BY SendingFinite, FS_AddElement
  <2> QED BY <2>1, <2>2
<1>4. Cardinality(Folders) \in Nat
  BY FS_CardinalityType DEF FolderInv
<1>5. Cardinality(Folders') + Cardinality(Sending') <= calls'
  BY <1>1, <1>2, <1>3, <1>4, SendingFinite DEF FolderInv
<1> QED BY <1>1, <1>2, <1>5 DEF FolderInv, Request

(* A request that is handled makes the one folder, and is no longer sent. *)
LEMMA FolderHandle ==
  ASSUME FolderInv, SentOK', NEW c \in Slots, Handle(c)
  PROVE  FolderInv'
<1>1. /\ daemon' = [folders |-> daemon'.folders, prefs |-> daemon'.prefs, up |-> daemon'.up]
      /\ \E s : Folders' \subseteq Folders \cup {s}
  BY OneMore DEF Handle, Folders, FolderInv
<1>2. PICK s : Folders' \subseteq Folders \cup {s}
  BY <1>1
<1>3. IsFiniteSet(Folders') /\ Cardinality(Folders') \in Nat
      /\ Cardinality(Folders) \in Nat /\ Cardinality(Folders') <= Cardinality(Folders) + 1
  <2>1. IsFiniteSet(Folders \cup {s}) /\ Cardinality(Folders \cup {s}) <= Cardinality(Folders) + 1
        /\ Cardinality(Folders) \in Nat
    <3>1. IsFiniteSet(Folders) /\ Cardinality(Folders) \in Nat
      BY FS_CardinalityType DEF FolderInv
    <3>2. /\ IsFiniteSet(Folders \cup {s})
          /\ \/ Cardinality(Folders \cup {s}) = Cardinality(Folders)
             \/ Cardinality(Folders \cup {s}) = Cardinality(Folders) + 1
      BY <3>1, FS_AddElement
    <3> QED BY <3>1, <3>2
  <2> QED BY <1>2, <2>1, FS_Subset, FS_CardinalityType
<1>4. Cardinality(Sending') = Cardinality(Sending) - 1
  <2>1. c \in Sending /\ Sending' = Sending \ {c}
    BY DEF Sending, Handle, FolderInv, SentOK
  <2> QED BY <2>1, SendingFinite, FS_RemoveElement
<1>5. Cardinality(Folders') + Cardinality(Sending') <= calls'
  BY <1>3, <1>4, SendingFinite DEF FolderInv, Handle
<1> QED BY <1>1, <1>3, <1>5 DEF FolderInv, Handle

LEMMA FolderOther ==
  ASSUME FolderInv, SentOK',
         \/ \E c \in Slots : Respond(c) \/ RequestFails(c) \/ ParseFails(c) \/ Lose(c)
         \/ DaemonEnds \/ DaemonStarts \/ CrashInCurl \/ UNCHANGED btsyncVars
  PROVE  FolderInv'
<1>1. /\ daemon' = [folders |-> daemon'.folders, prefs |-> daemon'.prefs, up |-> daemon'.up]
      /\ Folders' = Folders /\ calls' = calls
  BY DEF Respond, RequestFails, ParseFails, Lose, DaemonEnds, DaemonStarts, CrashInCurl,
         btsyncVars, FolderInv, Folders
<1>2. Sending' \subseteq Sending
  BY DEF Respond, RequestFails, ParseFails, Lose, DaemonEnds, DaemonStarts, CrashInCurl,
         btsyncVars, FolderInv, Sending, SentOK
<1>3. Cardinality(Sending') \in Nat /\ Cardinality(Sending') <= Cardinality(Sending)
  BY <1>2, SendingFinite, FS_Subset, FS_CardinalityType
<1>4. Cardinality(Folders) \in Nat
  BY FS_CardinalityType DEF FolderInv
<1>5. Cardinality(Folders') + Cardinality(Sending') <= calls'
  BY <1>1, <1>3, <1>4, SendingFinite DEF FolderInv
<1> QED BY <1>1, <1>5 DEF FolderInv

THEOREM FolderInvariant == BTSyncSpec => []FolderInv
<1>1. FolderInv /\ [BTSyncNext]_btsyncVars => FolderInv'
  <2> SUFFICES ASSUME FolderInv, [BTSyncNext]_btsyncVars PROVE FolderInv'
    OBVIOUS
  <2>1. SentOK'
    BY SentStep DEF FolderInv
  <2> QED BY <2>1, FolderRequest, FolderHandle, FolderOther DEF BTSyncNext
<1> QED BY <1>1, FolderInit, PTL DEF BTSyncSpec

(* No call makes a second folder, also when its reply is lost after the     *)
(* daemon has handled it: request_ reports false and does not ask again.    *)
THEOREM InterfaceOneFolderPerCall == BTSyncSpec => []OneFolderPerCall
<1>1. FolderInv => OneFolderPerCall
  BY SendingFinite, FS_CardinalityType DEF FolderInv, OneFolderPerCall, Folders
<1> QED BY <1>1, FolderInvariant, PTL
=============================================================================
