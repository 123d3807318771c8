----------------------------- MODULE SyncService -----------------------------
(***************************************************************************)
(* What the methods of BTSyncInterface promise: a call asks the BTSync     *)
(* daemon to do one thing, which happens in one step, at most once, and    *)
(* with the arguments of the call; its result is the daemon's answer to    *)
(* that call, or false, which says nothing about what happened.  Of a call *)
(* that cannot be put plainly no more is promised than that the daemon     *)
(* does at most one thing, and that its answer is the answer to that.      *)
(***************************************************************************)
EXTENDS Arguments

CONSTANTS Slots,    (* places for a call under way                          *)
          Calls,    (* what may be asked: [method, args]                    *)
          Secrets,  (* the secrets the daemon may make                      *)
          NoCall, NoAnswer,
          Garbled,  (* in place of a call that cannot be put plainly         *)
          Misread   (* what the daemon may take such a call for              *)

VARIABLES
  daemon,  (* the daemon: its folders, by their secret, its settings, and   *)
           (* whether it is up                                              *)
  open,    (* what a call asks that has not happened yet                    *)
  answer,  (* the answer to what has happened                               *)
  result,  (* what the caller knows                                         *)
  up       (* TRUE while the client runs                                    *)

serviceVars == <<daemon, open, answer, result, up>>

NoFolders == <<>>

SetFolder(d, secret, field, value) ==
  IF secret \in DOMAIN d.folders
  THEN [d EXCEPT !.folders[secret] = [@ EXCEPT ![field] = value]] ELSE d

(* add_folder: under the given secret, or under a new one.                  *)
FolderAdded(d, args) ==
  LET free == (IF "secret" \in DOMAIN args THEN {args.secret} ELSE Secrets)
                \ DOMAIN d.folders
      folder == [dir |-> args.dir, selective |-> args.selective_sync,
                 prefs |-> <<>>, hosts |-> <<>>, files |-> <<>>]
  IN  IF free = {} THEN {d}
      ELSE {[d EXCEPT !.folders = Named(s, folder) ++ @] : s \in free}

Kept(d, args, field) ==
  IF args.secret \in DOMAIN d.folders THEN d.folders[args.secret][field] ELSE <<>>

(* What the daemon may be after it has done what is asked.  All methods     *)
(* that are not named here only ask.                                        *)
Outcomes(d, asked) ==
  LET args == asked.args
  IN  CASE asked.method = "add_folder" -> FolderAdded(d, args)
        [] asked.method = "remove_folder" ->
             {[d EXCEPT !.folders = [s \in DOMAIN @ \ {args.secret} |-> @[s]]]}
        [] asked.method = "set_folder_prefs" ->
             {SetFolder(d, args.secret, "prefs", args.prefs ++ Kept(d, args, "prefs"))}
        [] asked.method = "set_folder_hosts" ->
             {SetFolder(d, args.secret, "hosts", args.hosts)}
        [] asked.method = "set_file_prefs" ->
             {SetFolder(d, args.secret, "files",
                        Named(args.path, args.download) ++ Kept(d, args, "files"))}
        [] asked.method = "set_prefs" -> {[d EXCEPT !.prefs = args.prefs ++ @]}
        [] asked.method = "shutdown" -> {[d EXCEPT !.up = FALSE]}
        [] OTHER -> {d}

(* An answer depends on the question and on the state it finds.             *)
AnswerTo(d, asked) == [asked |-> asked, state |-> d]

Result(how, value) == [how |-> how, value |-> value]
Pending(c) == result[c].how = "pending"

ServiceInit ==
  /\ daemon = [folders |-> NoFolders, prefs |-> <<>>, up |-> TRUE]
  /\ open = [c \in Slots |-> NoCall]
  /\ answer = [c \in Slots |-> NoAnswer]
  /\ result = [c \in Slots |-> Result("none", NoAnswer)]
  /\ up = TRUE

Learn(c, how, value) == result' = [result EXCEPT ![c] = Result(how, value)]

Invoke(c, k) ==
  /\ up /\ ~Pending(c) /\ open[c] = NoCall /\ answer[c] = NoAnswer
  /\ open' = [open EXCEPT ![c] = k]
  /\ Learn(c, "pending", NoAnswer)
  /\ UNCHANGED <<daemon, answer, up>>

(* Arguments that are not what the header describes: nothing is asked.      *)
Reject(c) ==
  /\ up /\ ~Pending(c) /\ open[c] = NoCall /\ answer[c] = NoAnswer
  /\ Learn(c, "threw", NoAnswer)
  /\ UNCHANGED <<daemon, open, answer, up>>

Heard(k) == IF k = Garbled THEN Misread ELSE {k}

TakeEffect(c) ==
  /\ open[c] # NoCall /\ daemon.up
  /\ \E asked \in Heard(open[c]) :
       /\ daemon' \in Outcomes(daemon, asked)
       /\ answer' = [answer EXCEPT ![c] = AnswerTo(daemon, asked)]
  /\ open' = [open EXCEPT ![c] = NoCall]
  /\ UNCHANGED <<result, up>>

Return(c) ==
  /\ up /\ Pending(c) /\ answer[c] # NoAnswer
  /\ Learn(c, "answer", answer[c])
  /\ answer' = [answer EXCEPT ![c] = NoAnswer]
  /\ UNCHANGED <<daemon, open, up>>

Fail(c) ==
  /\ up /\ Pending(c)
  /\ Learn(c, "false", NoAnswer)
  /\ UNCHANGED <<daemon, open, answer, up>>

(* What nobody waits for, or nobody can do, may be lost.                    *)
Vanish(c) ==
  /\ ~Pending(c) \/ ~daemon.up
  /\ open' = [open EXCEPT ![c] = NoCall]
  /\ answer' = [answer EXCEPT ![c] = NoAnswer]
  /\ UNCHANGED <<daemon, result, up>>

(* The daemon ends and is started again, with what it had; the client dies. *)
DaemonEnds == daemon' = [daemon EXCEPT !.up = FALSE] /\ UNCHANGED <<open, answer, result, up>>
DaemonStarts ==
  /\ \A c \in Slots : open[c] = NoCall
  /\ daemon' = [daemon EXCEPT !.up = TRUE]
  /\ UNCHANGED <<open, answer, result, up>>
Die ==
  /\ up' = FALSE
  /\ result' = [c \in Slots |-> IF Pending(c) THEN Result("died", NoAnswer) ELSE result[c]]
  /\ UNCHANGED <<daemon, open, answer>>

ServiceNext ==
  \/ \E c \in Slots :
       \/ \E k \in Calls : Invoke(c, k)
       \/ Reject(c) \/ TakeEffect(c) \/ Return(c) \/ Fail(c) \/ Vanish(c)
  \/ DaemonEnds \/ DaemonStarts \/ Die

ServiceSpec == ServiceInit /\ [][ServiceNext]_serviceVars
=============================================================================
