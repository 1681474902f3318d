-------------------------------- MODULE Console --------------------------------
(***************************************************************************)
(* The client between its user, the file system and the connection:        *)
(* main() and its arguments, the loop of command_line(), parse_command()   *)
(* with what it checks before a command runs, and what a command then      *)
(* finds.  Each stat() of fileHandler is a step of its own, since other    *)
(* programs may change the files between two of them.  What a command says *)
(* to the server is in Session; here the server's answer is any.           *)
(***************************************************************************)
EXTENDS Integers, Sequences

CONSTANTS
  Names,     \* the names the user types
  Illegal,   \* those of them check_name() refuses
  Ports,     \* the [port] arguments: digits, with 10 for any other character
  MIN_PORT, MAX_PORT,
  IntMax     \* the largest int

ASSUME ConsoleAssumption ==
  /\ Illegal \subseteq Names
  /\ Ports \subseteq Seq(0 .. 10)
  /\ MIN_PORT \in Nat /\ MAX_PORT \in Nat /\ IntMax \in Nat
  /\ 0 < MIN_PORT /\ MIN_PORT <= MAX_PORT /\ MAX_PORT <= IntMax

VARIABLES
  pc,       \* where the client is
  args,     \* the [port] argument
  port,     \* what check_port() stored, 0 before
  cwd,      \* the directory the client was started in: "/" or another
  fs,       \* the files in "/" and in "home"
  folder,   \* what is called ricevuti_client<ID> in each of these
  line,     \* the command line being executed
  ret,      \* the variable of command_line()
  said,     \* what the shell told the user about the line
  input,    \* the standard input has not ended
  framed,   \* no bytes were left on the connection that nobody will read
  changed,  \* history: another program changed something since the line was read
  astray    \* history: do_compress() had no folder to open the archive in

files == <<cwd, fs, folder>>
start == <<args, port>>
vars  == <<pc, start, files, line, ret, said, input, framed, changed, astray>>
-----------------------------------------------------------------------------
(* The file system: nothing that stat() finds, a file, one that may not be  *)
(* read, a directory, one that may not be written.  In a directory, the     *)
(* folder for the archives, or something else that no archive can be        *)
(* written into: a file, a folder without the permission.                   *)
Paths   == {"/", "home"} \X Names
Kinds   == {"none", "file", "sealed", "dir", "shut"}
Folders == {"none", "dir", "other"}

Exists(path)     == fs[path] # "none"
Directory(path)  == fs[path] \in {"dir", "shut"}

(* The paths of a parameter: the one the system calls look up, and the one  *)
(* check_send() makes of it.  current_dir is never assigned, so that it     *)
(* puts a mere "/" before a relative name.                                  *)
Resolve(p)       == <<IF p.form = "absolute" THEN "/" ELSE cwd, p.name>>
CheckedPath(p)   == <<"/", p.name>>

(* is_directory() does not look at what stat() returned: without a file the *)
(* buffer it tests was never written.                                       *)
IsDirectory(path) == IF Exists(path) THEN {Directory(path)} ELSE BOOLEAN

NoParam  == [form |-> "empty", name |-> "none"]
Params   == {NoParam} \cup [form : {"absolute", "relative"}, name : Names]
Commands == {"quit", "help", "send", "compress", "show", "name", "comp"}
Bare     == {"quit", "help", "show"}
Line(c, p) == [cmd |-> c, param |-> p]

(* A line may be too long or of more than two words, or of no command.      *)
TooLong == Line("too_long", NoParam)
Unknown == Line("unknown", NoParam)
Lines   == [cmd : Commands, param : Params] \cup {TooLong, Unknown}

Steps == {"args", "connect", "hello", "prompt", "parse", "send_dir", "send_exist", "do_send",
          "comp_dir", "comp_perm", "comp_mkdir", "comp_check", "do_compress", "talk",
          "waiting", "disconnect", "exited", "aborted"}
Over  == {"exited", "aborted"}

TypeOK ==
  /\ pc \in Steps /\ args \in Ports
  /\ port \in {0} \cup MIN_PORT .. MAX_PORT
  /\ cwd \in {"/", "home"}
  /\ fs \in [Paths -> Kinds] /\ folder \in [Paths -> Folders]
  /\ line \in Lines
  /\ ret \in {"ok", "failed", "exit", "lost"}
  /\ said \in {"nothing", "no_file", "no_directory", "refused", "done"}
  /\ input \in BOOLEAN /\ framed \in BOOLEAN /\ changed \in BOOLEAN /\ astray \in BOOLEAN

Init ==
  /\ pc = "args" /\ args \in Ports /\ port = 0
  /\ cwd \in {"/", "home"}
  /\ fs \in [Paths -> Kinds]
  /\ folder \in [Paths -> Folders]
  /\ \A p \in Paths : ~Directory(p) => folder[p] = "none"
  /\ line = Unknown /\ ret = "ok" /\ said = "nothing" /\ input = TRUE
  /\ framed = TRUE /\ changed = FALSE /\ astray = FALSE

Goto(step) == pc' = step
-----------------------------------------------------------------------------
(* check_port(): the digits times powers of ten that pow() gives as double; *)
(* one that is no int becomes the smallest, and the sum goes round.         *)
Word    == 2 * (IntMax + 1)
Wrap(n) == ((n + IntMax + 1) % Word) - (IntMax + 1)
TenTo[k \in Nat] == IF k = 0 THEN 1 ELSE 10 * TenTo[k - 1]
Power(k) == IF TenTo[k] <= IntMax THEN TenTo[k] ELSE -(IntMax + 1)

(* Variant of PortValue: the exponent is one too high.                      *)
PortValueShifted(digits) ==
  LET sum[i \in 0 .. Len(digits)] ==
        IF i = 0 THEN 0 ELSE Wrap(sum[i - 1] + Wrap(digits[i] * Power(Len(digits) - i + 1)))
  IN  sum[Len(digits)]

PortValue(digits) ==
  LET sum[i \in 0 .. Len(digits)] ==
        IF i = 0 THEN 0 ELSE Wrap(sum[i - 1] + Wrap(digits[i] * Power(Len(digits) - i)))
  IN  sum[Len(digits)]

(* Variant of PortAccepted: only the digits are checked.                    *)
PortAcceptedDigits == \A i \in DOMAIN args : args[i] <= 9

PortAccepted ==
  /\ \A i \in DOMAIN args : args[i] <= 9
  /\ PortValue(args) \in MIN_PORT .. MAX_PORT

(* parse_params(): the number of arguments and the address are right or the *)
(* client ends before it looks at the port.                                 *)
ParseParams ==
  /\ pc = "args"
  /\ \/ Goto("connect") /\ PortAccepted /\ port' = PortValue(args)
     \/ Goto("exited") /\ ~PortAccepted /\ UNCHANGED port
  /\ UNCHANGED <<args, files, line, ret, said, input, framed, changed, astray>>

BadArguments ==
  /\ pc = "args"
  /\ Goto("exited")
  /\ said' = "refused"
  /\ UNCHANGED <<start, files, line, ret, input, framed, changed, astray>>

(* client_connect() throws and main() exits, or the shell begins; its       *)
(* handshake fails or leads to the prompt.                                  *)
ClientConnect ==
  /\ pc = "connect"
  /\ Goto("hello") \/ Goto("exited")
  /\ UNCHANGED <<start, files, line, ret, said, input, framed, changed, astray>>

Hello ==
  /\ pc = "hello"
  /\ Goto("prompt") \/ Goto("disconnect")
  /\ UNCHANGED <<start, files, line, ret, said, input, framed, changed, astray>>

ClientDisconnect ==
  /\ pc = "disconnect"
  /\ Goto("exited")
  /\ UNCHANGED <<start, files, line, ret, said, input, framed, changed, astray>>
-----------------------------------------------------------------------------
(* Others: the user's keyboard and the other programs.                      *)
InputEnds ==
  /\ input /\ pc \notin Over
  /\ input' = FALSE
  /\ UNCHANGED <<pc, start, files, line, ret, said, framed, changed, astray>>

OthersChange ==
  /\ pc \in Steps \ ({"args", "connect", "hello", "prompt", "disconnect"} \cup Over)
  /\ ~changed /\ changed' = TRUE
  /\ \E p \in Paths, k \in Kinds, f \in Folders :
       /\ k \notin {"dir", "shut"} => f = "none"
       /\ fs' = [fs EXCEPT ![p] = k]
       /\ folder' = [folder EXCEPT ![p] = f]
  /\ UNCHANGED <<pc, start, cwd, line, ret, said, input, framed, astray>>

(* getline(): at the end of the input every line is empty.                  *)
ReadLine ==
  /\ pc = "prompt"
  /\ Goto("parse")
  /\ IF input THEN line' \in Lines ELSE line' = Unknown
  /\ said' = "nothing" /\ changed' = FALSE /\ astray' = FALSE
  /\ UNCHANGED <<start, files, ret, input, framed>>

(* Variant of Returned: the next turn does not read a line of its own.      *)
ReturnedToLine(r, what) ==
  /\ ret' = r
  /\ said' = what
  /\ Goto(IF r \in {"exit", "lost"} THEN "disconnect" ELSE "parse")

(* parse_command() returned r, or threw what command_line() catches: then   *)
(* ret is what it was.                                                      *)
Returned(r, what) ==
  /\ ret' = r
  /\ said' = what
  /\ Goto(IF r \in {"exit", "lost"} THEN "disconnect" ELSE "prompt")

Thrown == Returned(ret, "refused")

(* A receive that need not end while the connection is there.               *)
Waits == Goto("waiting") /\ UNCHANGED <<ret, said>>

BadLine ==
  \/ line = TooLong
  \/ line.cmd \in Commands /\ (line.cmd \in Bare <=> line.param # NoParam)

(* check_name(): an absolute path has a '/', the other forbidden characters *)
(* and the length are the name's.                                           *)
NameAccepted(p) == p.form = "relative" /\ p.name \notin Illegal

(* get_command_number(), params_check(), check_name() and the jump to the   *)
(* command.  Which compressors are enabled is the server's to say.          *)
ParseCommand ==
  /\ pc = "parse"
  /\ \/ BadLine /\ Thrown
     \/ /\ line = Unknown
        /\ Returned("failed", "refused")
     \/ /\ ~BadLine
        /\ \/ line.cmd = "name" /\ ~NameAccepted(line.param)
           \/ line.cmd = "comp"
        /\ Returned("ok", "refused")
     \/ /\ ~BadLine /\ line.cmd \in Commands
        /\ line.cmd = "name" => NameAccepted(line.param)
        /\ Goto(CASE line.cmd = "send"     -> "send_dir"
                  [] line.cmd = "compress" -> "comp_dir"
                  [] OTHER                 -> "talk")
        /\ UNCHANGED <<ret, said>>
  /\ UNCHANGED <<start, files, line, input, framed, changed, astray>>

(* do_quit(), do_help(), do_conf_name(), do_conf_comp(), and do_show_conf() *)
(* whose answer to a failure may fail in turn.                              *)
Talk ==
  /\ pc = "talk"
  /\ \/ Returned(IF line.cmd = "quit" THEN "exit" ELSE "ok", "done")
     \/ line.cmd \in {"name", "comp"} /\ Returned("failed", "refused")
     \/ Returned("lost", "refused")
     \/ line.cmd = "show" /\ Goto("aborted") /\ UNCHANGED <<ret, said>>
     \/ ~framed /\ Waits
  /\ UNCHANGED <<start, files, line, input, framed, changed, astray>>
-----------------------------------------------------------------------------
(* check_send(): the name is of no directory, and of a file.                *)
SendIsDirectory ==
  /\ pc = "send_dir"
  /\ \E d \in IsDirectory(Resolve(line.param)) :
       \/ d /\ Returned("ok", "no_file")
       \/ ~d /\ Goto("send_exist") /\ UNCHANGED <<ret, said>>
  /\ UNCHANGED <<start, files, line, input, framed, changed, astray>>

(* Variant of SendExists: what is no directory is taken to be a file.       *)
SendExistsUnchecked ==
  /\ pc = "send_exist"
  /\ Goto("do_send") /\ UNCHANGED <<ret, said>>
  /\ UNCHANGED <<start, files, line, input, framed, changed, astray>>

SendExists ==
  /\ pc = "send_exist"
  /\ \/ ~Exists(CheckedPath(line.param)) /\ Returned("ok", "no_file")
     \/ Exists(CheckedPath(line.param)) /\ Goto("do_send") /\ UNCHANGED <<ret, said>>
  /\ UNCHANGED <<start, files, line, input, framed, changed, astray>>

(* The exception of get_file_len(), calculate_MD5() or the fileReader is    *)
(* none that parse_command() may throw: the process ends.  A server that    *)
(* could not create the file refuses it, and the bytes sent stay unread.    *)
DoSend ==
  /\ pc = "do_send"
  /\ \/ /\ \/ fs[Resolve(line.param)] \in {"file", "dir", "shut"} /\ Returned("ok", "done")
           \/ Returned("lost", "refused")
           \/ fs[Resolve(line.param)] # "file" /\ Goto("aborted") /\ UNCHANGED <<ret, said>>
           \/ ~framed /\ Waits
        /\ UNCHANGED framed
     \/ Returned("ok", "refused") /\ framed' \in {framed, FALSE}
  /\ UNCHANGED <<start, files, line, input, changed, astray>>
-----------------------------------------------------------------------------
(* check_compress(), after its counters: the parameter is a directory, it   *)
(* may be looked at, the folder for the archives is made in it, the         *)
(* configuration is that of the server.                                     *)
CompressIsDirectory ==
  /\ pc = "comp_dir"
  /\ \/ Returned("ok", "refused")
     \/ \E d \in IsDirectory(Resolve(line.param)) :
          \/ ~d /\ Returned("ok", "no_directory")
          \/ d /\ Goto("comp_perm") /\ UNCHANGED <<ret, said>>
  /\ UNCHANGED <<start, files, line, input, framed, changed, astray>>

CompressGotPermissions ==
  /\ pc = "comp_perm"
  /\ \/ ~Exists(Resolve(line.param)) /\ Returned("ok", "no_directory")
     \/ Exists(Resolve(line.param)) /\ Goto("comp_mkdir") /\ UNCHANGED <<ret, said>>
  /\ UNCHANGED <<start, files, line, input, framed, changed, astray>>

(* Variant of CreateDirectory: no failure of mkdir() counts.                *)
CreateDirectoryAnyway ==
  /\ pc = "comp_mkdir"
  /\ Goto("comp_check") /\ UNCHANGED <<ret, said>>
  /\ LET p == Resolve(line.param)
     IN  folder' = IF fs[p] = "dir" /\ folder[p] = "none" THEN [folder EXCEPT ![p] = "dir"]
                                                        ELSE folder
  /\ UNCHANGED <<start, cwd, fs, line, input, framed, changed, astray>>

(* create_directory() returns -1 for what exists already, directory or not, *)
(* and check_compress() goes on; any other failure is thrown.               *)
CreateDirectory ==
  /\ pc = "comp_mkdir"
  /\ LET p == Resolve(line.param)
     IN  \/ /\ folder[p] # "none"
            /\ Goto("comp_check") /\ UNCHANGED <<ret, said, folder>>
         \/ /\ folder[p] = "none" /\ fs[p] = "dir"
            /\ folder' = [folder EXCEPT ![p] = "dir"]
            /\ Goto("comp_check") /\ UNCHANGED <<ret, said>>
         \/ /\ folder[p] = "none" /\ fs[p] # "dir"
            /\ Returned("ok", "refused") /\ UNCHANGED folder
  /\ UNCHANGED <<start, cwd, fs, line, input, framed, changed, astray>>

(* What configuration_check() returns is not looked at; what it throws, for *)
(* a refusal or a server that has gone, is not in its specification.        *)
ConfigurationCheck ==
  /\ pc = "comp_check"
  /\ Goto("do_compress") \/ Goto("aborted") \/ (~framed /\ Goto("waiting"))
  /\ UNCHANGED <<ret, said>>
  /\ UNCHANGED <<start, files, line, input, framed, changed, astray>>

(* do_compress(): if the archive cannot be opened, for want of the folder,  *)
(* of space or of a descriptor, its bytes stay on the connection, and the   *)
(* delete[] of a pointer that is not set may end the process.  So does the  *)
(* MD5 of an archive that has gone again, or the answer to a server that    *)
(* has.  A server that cannot read its own archive sends nothing more.      *)
DoCompress ==
  /\ pc = "do_compress"
  /\ \/ /\ \/ folder[Resolve(line.param)] = "dir" /\ Returned("ok", "done")
           \/ Returned("ok", "refused")
           \/ Returned("lost", "refused")
           \/ Goto("aborted") /\ UNCHANGED <<ret, said>>
           \/ Waits
        /\ UNCHANGED <<framed, astray>>
     \/ /\ Returned("ok", "refused")
        /\ framed' = FALSE
        /\ astray' = (folder[Resolve(line.param)] # "dir")
  /\ UNCHANGED <<start, files, line, input, changed>>

(* The connection ends under a receive.                                     *)
WaitEnds ==
  /\ pc = "waiting"
  /\ \/ Returned(CASE line.cmd = "quit"             -> "exit"
                   [] line.cmd \in {"name", "comp"} -> "failed"
                   [] OTHER                         -> "ok", "refused")
     \/ Returned("lost", "refused")
     \/ line.cmd \in {"show", "compress"} /\ Goto("aborted") /\ UNCHANGED <<ret, said>>
  /\ UNCHANGED <<start, files, line, input, framed, changed, astray>>
-----------------------------------------------------------------------------
Starting == ParseParams \/ BadArguments \/ ClientConnect \/ Hello

Answering ==
  \/ ParseCommand \/ Talk
  \/ SendIsDirectory \/ SendExists \/ DoSend
  \/ CompressIsDirectory \/ CompressGotPermissions \/ CreateDirectory
  \/ ConfigurationCheck \/ DoCompress
  \/ ClientDisconnect

Next == Starting \/ ReadLine \/ Answering \/ WaitEnds \/ InputEnds \/ OthersChange

Spec == Init /\ [][Next]_vars

(* The process goes on with a line while it can.  A command on a connection *)
(* whose framing is intact returns, or is the compress that Waits: that is  *)
(* CommandReturns of Session, for files of a length the loops of Trunks can *)
(* count to.  The user need not type anything, and no connection has to     *)
(* end.                                                                     *)
FairSpec == Spec /\ WF_vars(Answering)
-----------------------------------------------------------------------------
(* The number that was typed.                                               *)
Typed ==
  LET value[i \in 0 .. Len(args)] == IF i = 0 THEN 0 ELSE 10 * value[i - 1] + args[i]
  IN  value[Len(args)]

(* The port the client connects to is the one typed, and one in the range   *)
(* is not refused: for every number that is an int.                         *)
PortAsTyped ==
  Typed <= IntMax =>
    /\ port # 0 => port = Typed
    /\ pc = "exited" /\ port = 0 /\ said = "nothing" /\ (\A i \in DOMAIN args : args[i] <= 9) =>
         Typed \notin MIN_PORT .. MAX_PORT

(* A send ends the process only for a file that went while it ran, one that *)
(* may not be read, or a relative name, which was looked up elsewhere: what *)
(* an unwritten buffer says of a name without a file never gets so far.     *)
AbortExplained ==
  pc = "aborted" /\ line.cmd = "send" =>
    \/ changed
    \/ fs[Resolve(line.param)] = "sealed"
    \/ Resolve(line.param) # CheckedPath(line.param)

(* The archive is left on the connection for want of a folder only where    *)
(* something else has its name, it may not be written, or another program   *)
(* removed it after the checks.                                             *)
FolderExplained ==
  astray => changed \/ folder[Resolve(line.param)] = "other"

(* A line is answered: the prompt comes back or the client ends.  Not so    *)
(* where bytes were left on the connection before it, nor for a compress    *)
(* whose archive the server cannot read.                                    *)
LineIsAnswered ==
  pc = "parse" /\ framed ~>
    \/ pc \in {"prompt"} \cup Over
    \/ pc = "waiting" /\ line.cmd = "compress"

(* "send [local_file]": a file of the working directory is found.           *)
LocalFileIsFound ==
  said = "no_file" /\ ~changed => fs[Resolve(line.param)] # "file"
=============================================================================
