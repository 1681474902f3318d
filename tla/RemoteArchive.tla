----------------------------- MODULE RemoteArchive -----------------------------
(***************************************************************************)
(* What remote-compressor promises its user, without processes, messages   *)
(* or configurations in two copies: files are stored, an archive of them   *)
(* is fetched into a folder under the configured name, and what the user   *)
(* is told is so, and stays so until the next command is entered.          *)
(* Session implements it (see Service there).                              *)
(***************************************************************************)
CONSTANTS
  Files,          \* the files the user may send
  Whole,          \* the contents of a file that is there and complete
  Broken,         \* other contents: of a transfer that failed half way
  Absent,         \* no file
  Names,          \* the archive names the user may choose
  Algorithms,     \* the compressors the user may choose
  Archive(_, _),  \* the archive an algorithm makes of the stored files
  DefaultName,
  Reliable        \* whether compression and files always work

VARIABLES
  stored,  \* the content of every file at the server
  name,    \* the configured archive name
  alg,     \* the configured compressor
  folder,  \* the archives in the user's folder, by name and compressor
  told     \* what the user was told about the last command

avars == <<stored, name, alg, folder, told>>

Current == Archive(alg, stored)
Key     == <<name, alg>>

(* Messages the user relies on when choosing the next command.              *)
Assurances == {"sent", "present", "received", "already"}
Unassured  == told \notin Assurances

Init ==
  /\ stored = [f \in Files |-> Absent]
  /\ name = DefaultName
  /\ alg = "gnuzip"
  /\ folder = [k \in Names \X Algorithms |-> Absent]
  /\ told = "none"

(* The user enters a command.                                               *)
Ask ==
  /\ told' = "none"
  /\ UNCHANGED <<stored, name, alg, folder>>

(* A file is stored, lost, or left broken, under a command not yet answered *)
(* or reported as failed: never after an assurance.                         *)
Store(f) ==
  /\ Unassured
  /\ \E v \in Whole \cup Broken \cup {Absent} : stored' = [stored EXCEPT ![f] = v]
  /\ UNCHANGED <<name, alg, folder, told>>

Configure ==
  /\ Unassured
  /\ \/ name' \in Names /\ UNCHANGED alg
     \/ alg' \in Algorithms /\ UNCHANGED name
  /\ UNCHANGED <<stored, folder, told>>

(* The archive of that name is replaced: by the archive of what is stored   *)
(* now, made by the configured compressor, or by nothing that is whole.     *)
Fetch ==
  /\ told = "none"
  /\ \E v \in {Current, Absent} \cup Broken : folder' = [folder EXCEPT ![Key] = v]
  /\ told' = told \/ told' = "failed"
  /\ UNCHANGED <<stored, name, alg>>

(* "mandato con successo", or that the server has the file already.         *)
AssureSent ==
  /\ \E f \in Files : stored[f] \in Whole
  /\ told' \in {"sent", "present"}
  /\ UNCHANGED <<stored, name, alg, folder>>

(* "ricevuto con successo".                                                 *)
AssureReceived ==
  /\ folder[Key] = Current
  /\ told' = "received"
  /\ UNCHANGED <<stored, name, alg, folder>>

(* A compress that is not carried out, with the reason.                     *)
Refuse ==
  /\ \/ told' = "no_files" /\ \A f \in Files : stored[f] = Absent
     \/ told' = "already" /\ (Reliable => folder[Key] = Current)
  /\ UNCHANGED <<stored, name, alg, folder>>

ReportFailure ==
  /\ told' = "failed"
  /\ UNCHANGED <<stored, name, alg, folder>>

Next ==
  \/ Ask
  \/ \E f \in Files : Store(f)
  \/ Configure \/ Fetch
  \/ AssureSent \/ AssureReceived \/ Refuse \/ ReportFailure

Spec == Init /\ [][Next]_avars
=============================================================================
