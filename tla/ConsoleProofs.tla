----------------------------- MODULE ConsoleProofs -----------------------------
(***************************************************************************)
(* What holds of the client's commands and their files for any names, any  *)
(* files and any changes of them by others.                                *)
(***************************************************************************)
EXTENDS Console, TLAPS, WellFoundedInduction

CompSteps == {"comp_dir", "comp_perm", "comp_mkdir", "comp_check", "do_compress"}
SendSteps == {"send_dir", "send_exist", "do_send"}

(* The invariant: each step of a command knows its command, and what the    *)
(* steps before it saw is still so unless others changed it.                *)
OfCommand ==
  /\ pc \in SendSteps => line.cmd = "send" /\ line.param # NoParam
  /\ pc \in CompSteps => line.cmd = "compress" /\ line.param # NoParam
  /\ astray => line.cmd = "compress" /\ line.param # NoParam
  /\ astray => pc \in {"prompt", "disconnect", "exited"}
  /\ pc = "aborted" => line.cmd \in {"send", "compress", "show"}
  /\ pc = "aborted" /\ line.cmd = "send" => line.param # NoParam

SendChecked ==
  /\ pc = "send_exist" => changed \/ ~Directory(Resolve(line.param))
  /\ pc = "do_send" =>
       changed \/ (~Directory(Resolve(line.param)) /\ Exists(CheckedPath(line.param)))

FolderMade ==
  pc \in {"comp_check", "do_compress"} => changed \/ folder[Resolve(line.param)] # "none"

IInv == TypeOK /\ OfCommand /\ SendChecked /\ FolderMade /\ AbortExplained /\ FolderExplained

LEMMA InvInit == Init => IInv
<1> SUFFICES ASSUME Init PROVE IInv
  OBVIOUS
<1>1. TypeOK
  BY DEF Init, TypeOK, Steps, Lines, Unknown
<1>2. OfCommand /\ SendChecked /\ FolderMade /\ AbortExplained /\ FolderExplained
  BY DEF Init, OfCommand, SendChecked, FolderMade, AbortExplained, FolderExplained,
         SendSteps, CompSteps
<1> QED
  BY <1>1, <1>2 DEF IInv

(* A parameter that is not empty names one of the paths.                    *)
LEMMA ParamIsPath ==
  ASSUME cwd \in {"/", "home"}, line \in Lines, line.param # NoParam
  PROVE  Resolve(line.param) \in Paths /\ CheckedPath(line.param) \in Paths
<1>1. line.param \in [form : {"absolute", "relative"}, name : Names]
  BY DEF Lines, Line, TooLong, Unknown, Params
<1>2. line.param.name \in Names
  BY <1>1
<1> QED
  BY <1>2 DEF Resolve, CheckedPath, Paths

(* The paths depend on the line and the directory only.                     *)
LEMMA SamePaths ==
  ASSUME UNCHANGED <<line, cwd>>
  PROVE  /\ Resolve(line.param)' = Resolve(line.param)
         /\ CheckedPath(line.param)' = CheckedPath(line.param)
BY DEF Resolve, CheckedPath
LEMMA InvStep == IInv /\ [Next]_vars => IInv'
<1> SUFFICES ASSUME IInv, [Next]_vars PROVE IInv'
  OBVIOUS
<1> USE ConsoleAssumption DEF IInv
<1>1. CASE ParseParams
  <2>1. /\ UNCHANGED <<line, cwd, fs, folder, changed>>
        /\ Resolve(line.param)' = Resolve(line.param)
        /\ CheckedPath(line.param)' = CheckedPath(line.param)
    BY <1>1, SamePaths DEF ParseParams, Goto, Returned, Thrown, files, start
  <2>2. TypeOK'
    BY <1>1, <2>1 DEF ParseParams, Goto, Returned, Thrown, files, start, TypeOK, Steps, PortAccepted
  <2>3. OfCommand'
    BY <1>1, <2>1 DEF ParseParams, Goto, Returned, Thrown, files, start, OfCommand, SendSteps, CompSteps, PortAccepted
  <2>4. SendChecked'
    BY <1>1, <2>1 DEF ParseParams, Goto, Returned, Thrown, files, start, SendChecked, OfCommand, SendSteps, CompSteps, Directory, Exists, PortAccepted
  <2>5. FolderMade'
    BY <1>1, <2>1 DEF ParseParams, Goto, Returned, Thrown, files, start, FolderMade, OfCommand, SendSteps, CompSteps, PortAccepted
  <2>6. AbortExplained'
    BY <1>1, <2>1 DEF ParseParams, Goto, Returned, Thrown, files, start, AbortExplained, OfCommand, SendSteps, CompSteps, PortAccepted
  <2>7. FolderExplained'
    BY <1>1, <2>1 DEF ParseParams, Goto, Returned, Thrown, files, start, FolderExplained, OfCommand, SendSteps, CompSteps, PortAccepted
  <2> QED
    BY <2>2, <2>3, <2>4, <2>5, <2>6, <2>7
<1>2. CASE BadArguments
  <2>1. /\ UNCHANGED <<line, cwd, fs, folder, changed>>
        /\ Resolve(line.param)' = Resolve(line.param)
        /\ CheckedPath(line.param)' = CheckedPath(line.param)
    BY <1>2, SamePaths DEF BadArguments, Goto, Returned, Thrown, files, start
  <2>2. TypeOK'
    BY <1>2, <2>1 DEF BadArguments, Goto, Returned, Thrown, files, start, TypeOK, Steps
  <2>3. OfCommand'
    BY <1>2, <2>1 DEF BadArguments, Goto, Returned, Thrown, files, start, OfCommand, SendSteps, CompSteps
  <2>4. SendChecked'
    BY <1>2, <2>1 DEF BadArguments, Goto, Returned, Thrown, files, start, SendChecked, OfCommand, SendSteps, CompSteps, Directory, Exists
  <2>5. FolderMade'
    BY <1>2, <2>1 DEF BadArguments, Goto, Returned, Thrown, files, start, FolderMade, OfCommand, SendSteps, CompSteps
  <2>6. AbortExplained'
    BY <1>2, <2>1 DEF BadArguments, Goto, Returned, Thrown, files, start, AbortExplained, OfCommand, SendSteps, CompSteps
  <2>7. FolderExplained'
    BY <1>2, <2>1 DEF BadArguments, Goto, Returned, Thrown, files, start, FolderExplained, OfCommand, SendSteps, CompSteps
  <2> QED
    BY <2>2, <2>3, <2>4, <2>5, <2>6, <2>7
<1>3. CASE ClientConnect
  <2>1. /\ UNCHANGED <<line, cwd, fs, folder, changed>>
        /\ Resolve(line.param)' = Resolve(line.param)
        /\ CheckedPath(line.param)' = CheckedPath(line.param)
    BY <1>3, SamePaths DEF ClientConnect, Goto, Returned, Thrown, files, start
  <2>2. TypeOK'
    BY <1>3, <2>1 DEF ClientConnect, Goto, Returned, Thrown, files, start, TypeOK, Steps
  <2>3. OfCommand'
    BY <1>3, <2>1 DEF ClientConnect, Goto, Returned, Thrown, files, start, OfCommand, SendSteps, CompSteps
  <2>4. SendChecked'
    BY <1>3, <2>1 DEF ClientConnect, Goto, Returned, Thrown, files, start, SendChecked, OfCommand, SendSteps, CompSteps, Directory, Exists
  <2>5. FolderMade'
    BY <1>3, <2>1 DEF ClientConnect, Goto, Returned, Thrown, files, start, FolderMade, OfCommand, SendSteps, CompSteps
  <2>6. AbortExplained'
    BY <1>3, <2>1 DEF ClientConnect, Goto, Returned, Thrown, files, start, AbortExplained, OfCommand, SendSteps, CompSteps
  <2>7. FolderExplained'
    BY <1>3, <2>1 DEF ClientConnect, Goto, Returned, Thrown, files, start, FolderExplained, OfCommand, SendSteps, CompSteps
  <2> QED
    BY <2>2, <2>3, <2>4, <2>5, <2>6, <2>7
<1>4. CASE Hello
  <2>1. /\ UNCHANGED <<line, cwd, fs, folder, changed>>
        /\ Resolve(line.param)' = Resolve(line.param)
        /\ CheckedPath(line.param)' = CheckedPath(line.param)
    BY <1>4, SamePaths DEF Hello, Goto, Returned, Thrown, files, start
  <2>2. TypeOK'
    BY <1>4, <2>1 DEF Hello, Goto, Returned, Thrown, files, start, TypeOK, Steps
  <2>3. OfCommand'
    BY <1>4, <2>1 DEF Hello, Goto, Returned, Thrown, files, start, OfCommand, SendSteps, CompSteps
  <2>4. SendChecked'
    BY <1>4, <2>1 DEF Hello, Goto, Returned, Thrown, files, start, SendChecked, OfCommand, SendSteps, CompSteps, Directory, Exists
  <2>5. FolderMade'
    BY <1>4, <2>1 DEF Hello, Goto, Returned, Thrown, files, start, FolderMade, OfCommand, SendSteps, CompSteps
  <2>6. AbortExplained'
    BY <1>4, <2>1 DEF Hello, Goto, Returned, Thrown, files, start, AbortExplained, OfCommand, SendSteps, CompSteps
  <2>7. FolderExplained'
    BY <1>4, <2>1 DEF Hello, Goto, Returned, Thrown, files, start, FolderExplained, OfCommand, SendSteps, CompSteps
  <2> QED
    BY <2>2, <2>3, <2>4, <2>5, <2>6, <2>7
<1>5. CASE ClientDisconnect
  <2>1. /\ UNCHANGED <<line, cwd, fs, folder, changed>>
        /\ Resolve(line.param)' = Resolve(line.param)
        /\ CheckedPath(line.param)' = CheckedPath(line.param)
    BY <1>5, SamePaths DEF ClientDisconnect, Goto, Returned, Thrown, files, start
  <2>2. TypeOK'
    BY <1>5, <2>1 DEF ClientDisconnect, Goto, Returned, Thrown, files, start, TypeOK, Steps
  <2>3. OfCommand'
    BY <1>5, <2>1 DEF ClientDisconnect, Goto, Returned, Thrown, files, start, OfCommand, SendSteps, CompSteps
  <2>4. SendChecked'
    BY <1>5, <2>1 DEF ClientDisconnect, Goto, Returned, Thrown, files, start, SendChecked, OfCommand, SendSteps, CompSteps, Directory, Exists
  <2>5. FolderMade'
    BY <1>5, <2>1 DEF ClientDisconnect, Goto, Returned, Thrown, files, start, FolderMade, OfCommand, SendSteps, CompSteps
  <2>6. AbortExplained'
    BY <1>5, <2>1 DEF ClientDisconnect, Goto, Returned, Thrown, files, start, AbortExplained, OfCommand, SendSteps, CompSteps
  <2>7. FolderExplained'
    BY <1>5, <2>1 DEF ClientDisconnect, Goto, Returned, Thrown, files, start, FolderExplained, OfCommand, SendSteps, CompSteps
  <2> QED
    BY <2>2, <2>3, <2>4, <2>5, <2>6, <2>7
<1>6. CASE ParseCommand
  <2>1. /\ UNCHANGED <<line, cwd, fs, folder, changed>>
        /\ Resolve(line.param)' = Resolve(line.param)
        /\ CheckedPath(line.param)' = CheckedPath(line.param)
    BY <1>6, SamePaths DEF ParseCommand, Goto, Returned, Thrown, files, start
  <2>2. TypeOK'
    BY <1>6, <2>1 DEF ParseCommand, Goto, Returned, Thrown, files, start, TypeOK, Steps, BadLine, Bare, Commands, Unknown, TooLong, Line, NoParam
  <2>3. OfCommand'
    BY <1>6, <2>1 DEF ParseCommand, Goto, Returned, Thrown, files, start, OfCommand, SendSteps, CompSteps, BadLine, Bare, Commands, Unknown, TooLong, Line, NoParam
  <2>4. SendChecked'
    BY <1>6, <2>1 DEF ParseCommand, Goto, Returned, Thrown, files, start, SendChecked, OfCommand, SendSteps, CompSteps, Directory, Exists, BadLine, Bare, Commands, Unknown, TooLong, Line, NoParam
  <2>5. FolderMade'
    BY <1>6, <2>1 DEF ParseCommand, Goto, Returned, Thrown, files, start, FolderMade, OfCommand, SendSteps, CompSteps, BadLine, Bare, Commands, Unknown, TooLong, Line, NoParam
  <2>6. AbortExplained'
    BY <1>6, <2>1 DEF ParseCommand, Goto, Returned, Thrown, files, start, AbortExplained, OfCommand, SendSteps, CompSteps, BadLine, Bare, Commands, Unknown, TooLong, Line, NoParam
  <2>7. FolderExplained'
    BY <1>6, <2>1 DEF ParseCommand, Goto, Returned, Thrown, files, start, FolderExplained, OfCommand, SendSteps, CompSteps, BadLine, Bare, Commands, Unknown, TooLong, Line, NoParam
  <2> QED
    BY <2>2, <2>3, <2>4, <2>5, <2>6, <2>7
<1>7. CASE Talk
  <2>1. /\ UNCHANGED <<line, cwd, fs, folder, changed>>
        /\ Resolve(line.param)' = Resolve(line.param)
        /\ CheckedPath(line.param)' = CheckedPath(line.param)
    BY <1>7, SamePaths DEF Talk, Goto, Returned, Waits, files, start
  <2>2. TypeOK'
    BY <1>7, <2>1 DEF Talk, Goto, Returned, Waits, files, start, TypeOK, Steps
  <2>3. OfCommand'
    BY <1>7, <2>1 DEF Talk, Goto, Returned, Waits, files, start, OfCommand, SendSteps, CompSteps
  <2>4. SendChecked'
    BY <1>7, <2>1 DEF Talk, Goto, Returned, Waits, files, start, SendChecked, OfCommand, SendSteps, CompSteps, Directory, Exists
  <2>5. FolderMade'
    BY <1>7, <2>1 DEF Talk, Goto, Returned, Waits, files, start, FolderMade, OfCommand, SendSteps, CompSteps
  <2>6. AbortExplained'
    BY <1>7, <2>1 DEF Talk, Goto, Returned, Waits, files, start, AbortExplained, OfCommand, SendSteps, CompSteps
  <2>7. FolderExplained'
    BY <1>7, <2>1 DEF Talk, Goto, Returned, Waits, files, start, FolderExplained, OfCommand, SendSteps, CompSteps
  <2> QED
    BY <2>2, <2>3, <2>4, <2>5, <2>6, <2>7
<1>8. CASE SendIsDirectory
  <2>1. /\ UNCHANGED <<line, cwd, fs, folder, changed>>
        /\ Resolve(line.param)' = Resolve(line.param)
        /\ CheckedPath(line.param)' = CheckedPath(line.param)
    BY <1>8, SamePaths DEF SendIsDirectory, Goto, Returned, Thrown, files, start
  <2>2. TypeOK'
    BY <1>8, <2>1 DEF SendIsDirectory, Goto, Returned, Thrown, files, start, TypeOK, Steps, IsDirectory
  <2>3. OfCommand'
    BY <1>8, <2>1 DEF SendIsDirectory, Goto, Returned, Thrown, files, start, OfCommand, SendSteps, CompSteps, IsDirectory
  <2>4. SendChecked'
    BY <1>8, <2>1 DEF SendIsDirectory, Goto, Returned, Thrown, files, start, SendChecked, OfCommand, SendSteps, CompSteps, Directory, Exists, IsDirectory
  <2>5. FolderMade'
    BY <1>8, <2>1 DEF SendIsDirectory, Goto, Returned, Thrown, files, start, FolderMade, OfCommand, SendSteps, CompSteps, IsDirectory
  <2>6. AbortExplained'
    BY <1>8, <2>1 DEF SendIsDirectory, Goto, Returned, Thrown, files, start, AbortExplained, OfCommand, SendSteps, CompSteps, IsDirectory
  <2>7. FolderExplained'
    BY <1>8, <2>1 DEF SendIsDirectory, Goto, Returned, Thrown, files, start, FolderExplained, OfCommand, SendSteps, CompSteps, IsDirectory
  <2> QED
    BY <2>2, <2>3, <2>4, <2>5, <2>6, <2>7
<1>9. CASE SendExists
  <2>1. /\ UNCHANGED <<line, cwd, fs, folder, changed>>
        /\ Resolve(line.param)' = Resolve(line.param)
        /\ CheckedPath(line.param)' = CheckedPath(line.param)
    BY <1>9, SamePaths DEF SendExists, Goto, Returned, Thrown, files, start
  <2>2. TypeOK'
    BY <1>9, <2>1 DEF SendExists, Goto, Returned, Thrown, files, start, TypeOK, Steps
  <2>3. OfCommand'
    BY <1>9, <2>1 DEF SendExists, Goto, Returned, Thrown, files, start, OfCommand, SendSteps, CompSteps
  <2>4. SendChecked'
    BY <1>9, <2>1 DEF SendExists, Goto, Returned, Thrown, files, start, SendChecked, OfCommand, SendSteps, CompSteps, Directory, Exists
  <2>5. FolderMade'
    BY <1>9, <2>1 DEF SendExists, Goto, Returned, Thrown, files, start, FolderMade, OfCommand, SendSteps, CompSteps
  <2>6. AbortExplained'
    BY <1>9, <2>1 DEF SendExists, Goto, Returned, Thrown, files, start, AbortExplained, OfCommand, SendSteps, CompSteps
  <2>7. FolderExplained'
    BY <1>9, <2>1 DEF SendExists, Goto, Returned, Thrown, files, start, FolderExplained, OfCommand, SendSteps, CompSteps
  <2> QED
    BY <2>2, <2>3, <2>4, <2>5, <2>6, <2>7
<1>10. CASE DoSend
  <2>1. /\ UNCHANGED <<line, cwd, fs, folder, changed>>
        /\ Resolve(line.param)' = Resolve(line.param)
        /\ CheckedPath(line.param)' = CheckedPath(line.param)
    BY <1>10, SamePaths DEF DoSend, Goto, Returned, Waits, files, start
  <2>2. TypeOK'
    BY <1>10, <2>1 DEF DoSend, Goto, Returned, Waits, files, start, TypeOK, Steps, Kinds, Folders
  <2>3. OfCommand'
    BY <1>10, <2>1 DEF DoSend, Goto, Returned, Waits, files, start, OfCommand, SendSteps, CompSteps, Kinds, Folders
  <2>4. SendChecked'
    BY <1>10, <2>1 DEF DoSend, Goto, Returned, Waits, files, start, SendChecked, OfCommand, SendSteps, CompSteps, Directory, Exists, Kinds, Folders
  <2>5. FolderMade'
    BY <1>10, <2>1 DEF DoSend, Goto, Returned, Waits, files, start, FolderMade, OfCommand, SendSteps, CompSteps, Kinds, Folders
  <2>6. AbortExplained'
    <3>1. Resolve(line.param) \in Paths
      BY <1>10, ParamIsPath DEF DoSend, TypeOK, OfCommand, SendSteps
    <3>2. fs[Resolve(line.param)] \in Kinds
      BY <3>1 DEF TypeOK
    <3>3. \/ changed
          \/ ~Directory(Resolve(line.param)) /\ Exists(CheckedPath(line.param))
      BY <1>10 DEF DoSend, SendChecked
    <3>4. pc' = "aborted" => fs[Resolve(line.param)] # "file"
      BY <1>10 DEF DoSend, Returned, Waits, Goto
    <3>5. pc' = "aborted" /\ ~changed /\ Resolve(line.param) = CheckedPath(line.param) =>
            fs[Resolve(line.param)] = "sealed"
      BY <3>2, <3>3, <3>4 DEF Directory, Exists, Kinds
    <3> QED
      BY <2>1, <3>5 DEF AbortExplained
  <2>7. FolderExplained'
    BY <1>10, <2>1 DEF DoSend, Goto, Returned, Waits, files, start, FolderExplained, OfCommand, SendSteps, CompSteps, Kinds, Folders
  <2> QED
    BY <2>2, <2>3, <2>4, <2>5, <2>6, <2>7
<1>11. CASE CompressIsDirectory
  <2>1. /\ UNCHANGED <<line, cwd, fs, folder, changed>>
        /\ Resolve(line.param)' = Resolve(line.param)
        /\ CheckedPath(line.param)' = CheckedPath(line.param)
    BY <1>11, SamePaths DEF CompressIsDirectory, Goto, Returned, Thrown, files, start
  <2>2. TypeOK'
    BY <1>11, <2>1 DEF CompressIsDirectory, Goto, Returned, Thrown, files, start, TypeOK, Steps
  <2>3. OfCommand'
    BY <1>11, <2>1 DEF CompressIsDirectory, Goto, Returned, Thrown, files, start, OfCommand, SendSteps, CompSteps
  <2>4. SendChecked'
    BY <1>11, <2>1 DEF CompressIsDirectory, Goto, Returned, Thrown, files, start, SendChecked, OfCommand, SendSteps, CompSteps, Directory, Exists
  <2>5. FolderMade'
    BY <1>11, <2>1 DEF CompressIsDirectory, Goto, Returned, Thrown, files, start, FolderMade, OfCommand, SendSteps, CompSteps
  <2>6. AbortExplained'
    BY <1>11, <2>1 DEF CompressIsDirectory, Goto, Returned, Thrown, files, start, AbortExplained, OfCommand, SendSteps, CompSteps
  <2>7. FolderExplained'
    BY <1>11, <2>1 DEF CompressIsDirectory, Goto, Returned, Thrown, files, start, FolderExplained, OfCommand, SendSteps, CompSteps
  <2> QED
    BY <2>2, <2>3, <2>4, <2>5, <2>6, <2>7
<1>12. CASE CompressGotPermissions
  <2>1. /\ UNCHANGED <<line, cwd, fs, folder, changed>>
        /\ Resolve(line.param)' = Resolve(line.param)
        /\ CheckedPath(line.param)' = CheckedPath(line.param)
    BY <1>12, SamePaths DEF CompressGotPermissions, Goto, Returned, Thrown, files, start
  <2>2. TypeOK'
    BY <1>12, <2>1 DEF CompressGotPermissions, Goto, Returned, Thrown, files, start, TypeOK, Steps
  <2>3. OfCommand'
    BY <1>12, <2>1 DEF CompressGotPermissions, Goto, Returned, Thrown, files, start, OfCommand, SendSteps, CompSteps
  <2>4. SendChecked'
    BY <1>12, <2>1 DEF CompressGotPermissions, Goto, Returned, Thrown, files, start, SendChecked, OfCommand, SendSteps, CompSteps, Directory, Exists
  <2>5. FolderMade'
    BY <1>12, <2>1 DEF CompressGotPermissions, Goto, Returned, Thrown, files, start, FolderMade, OfCommand, SendSteps, CompSteps
  <2>6. AbortExplained'
    BY <1>12, <2>1 DEF CompressGotPermissions, Goto, Returned, Thrown, files, start, AbortExplained, OfCommand, SendSteps, CompSteps
  <2>7. FolderExplained'
    BY <1>12, <2>1 DEF CompressGotPermissions, Goto, Returned, Thrown, files, start, FolderExplained, OfCommand, SendSteps, CompSteps
  <2> QED
    BY <2>2, <2>3, <2>4, <2>5, <2>6, <2>7
<1>13. CASE CreateDirectory
  <2>1. /\ UNCHANGED <<line, cwd, fs, changed>>
        /\ Resolve(line.param)' = Resolve(line.param)
        /\ CheckedPath(line.param)' = CheckedPath(line.param)
    BY <1>13, SamePaths DEF CreateDirectory, Goto, Returned, Thrown, files, start
  <2>2. TypeOK'
    BY <1>13, <2>1 DEF CreateDirectory, Goto, Returned, Thrown, files, start, TypeOK, Steps, Kinds, Folders
  <2>3. OfCommand'
    BY <1>13, <2>1 DEF CreateDirectory, Goto, Returned, Thrown, files, start, OfCommand, SendSteps, CompSteps, Kinds, Folders
  <2>4. SendChecked'
    BY <1>13, <2>1 DEF CreateDirectory, Goto, Returned, Thrown, files, start, SendChecked, OfCommand, SendSteps, CompSteps, Directory, Exists, Kinds, Folders
  <2>5. FolderMade'
    <3>1. Resolve(line.param) \in Paths
      BY <1>13, ParamIsPath DEF CreateDirectory, TypeOK, OfCommand, CompSteps
    <3>2. pc' = "comp_check" => folder'[Resolve(line.param)] # "none"
      <4>1. CASE folder[Resolve(line.param)] # "none"
        BY <1>13, <4>1 DEF CreateDirectory
      <4>2. CASE folder[Resolve(line.param)] = "none" /\ fs[Resolve(line.param)] = "dir"
        BY <1>13, <3>1, <4>2 DEF CreateDirectory, TypeOK
      <4>3. CASE folder[Resolve(line.param)] = "none" /\ fs[Resolve(line.param)] # "dir"
        BY <1>13, <4>3 DEF CreateDirectory, Returned, Goto
      <4> QED
        BY <4>1, <4>2, <4>3
    <3>3. pc' # "do_compress"
      BY <1>13 DEF CreateDirectory, Returned, Goto
    <3> QED
      BY <2>1, <3>2, <3>3 DEF FolderMade
  <2>6. AbortExplained'
    BY <1>13, <2>1 DEF CreateDirectory, Goto, Returned, Thrown, files, start, AbortExplained, OfCommand, SendSteps, CompSteps, Kinds, Folders
  <2>7. FolderExplained'
    BY <1>13, <2>1 DEF CreateDirectory, Goto, Returned, Thrown, files, start, FolderExplained, OfCommand, SendSteps, CompSteps, Kinds, Folders
  <2> QED
    BY <2>2, <2>3, <2>4, <2>5, <2>6, <2>7
<1>14. CASE ConfigurationCheck
  <2>1. /\ UNCHANGED <<line, cwd, fs, folder, changed>>
        /\ Resolve(line.param)' = Resolve(line.param)
        /\ CheckedPath(line.param)' = CheckedPath(line.param)
    BY <1>14, SamePaths DEF ConfigurationCheck, Goto, Returned, Thrown, files, start
  <2>2. TypeOK'
    BY <1>14, <2>1 DEF ConfigurationCheck, Goto, Returned, Thrown, files, start, TypeOK, Steps
  <2>3. OfCommand'
    BY <1>14, <2>1 DEF ConfigurationCheck, Goto, Returned, Thrown, files, start, OfCommand, SendSteps, CompSteps
  <2>4. SendChecked'
    BY <1>14, <2>1 DEF ConfigurationCheck, Goto, Returned, Thrown, files, start, SendChecked, OfCommand, SendSteps, CompSteps, Directory, Exists
  <2>5. FolderMade'
    BY <1>14, <2>1 DEF ConfigurationCheck, Goto, Returned, Thrown, files, start, FolderMade, OfCommand, SendSteps, CompSteps
  <2>6. AbortExplained'
    BY <1>14, <2>1 DEF ConfigurationCheck, Goto, Returned, Thrown, files, start, AbortExplained, OfCommand, SendSteps, CompSteps
  <2>7. FolderExplained'
    BY <1>14, <2>1 DEF ConfigurationCheck, Goto, Returned, Thrown, files, start, FolderExplained, OfCommand, SendSteps, CompSteps
  <2> QED
    BY <2>2, <2>3, <2>4, <2>5, <2>6, <2>7
<1>15. CASE DoCompress
  <2>1. /\ UNCHANGED <<line, cwd, fs, folder, changed>>
        /\ Resolve(line.param)' = Resolve(line.param)
        /\ CheckedPath(line.param)' = CheckedPath(line.param)
    BY <1>15, SamePaths DEF DoCompress, Goto, Returned, Waits, files, start
  <2>2. TypeOK'
    <3>1. /\ pc' \in Steps /\ framed' \in BOOLEAN /\ astray' \in BOOLEAN
          /\ ret' \in {"ok", "failed", "exit", "lost"}
          /\ said' \in {"nothing", "no_file", "no_directory", "refused", "done"}
      BY <1>15 DEF DoCompress, Goto, Returned, Waits, TypeOK, Steps
    <3>2. UNCHANGED <<args, port, cwd, fs, folder, line, input, changed>>
      BY <1>15 DEF DoCompress, files, start
    <3> QED
      BY <3>1, <3>2 DEF TypeOK
  <2>3. OfCommand'
    BY <1>15, <2>1 DEF DoCompress, Goto, Returned, Waits, files, start, OfCommand, SendSteps, CompSteps, Kinds, Folders
  <2>4. SendChecked'
    BY <1>15, <2>1 DEF DoCompress, Goto, Returned, Waits, files, start, SendChecked, OfCommand, SendSteps, CompSteps, Directory, Exists, Kinds, Folders
  <2>5. FolderMade'
    BY <1>15, <2>1 DEF DoCompress, Goto, Returned, Waits, files, start, FolderMade, OfCommand, SendSteps, CompSteps, Kinds, Folders
  <2>6. AbortExplained'
    BY <1>15, <2>1 DEF DoCompress, Goto, Returned, Waits, files, start, AbortExplained, OfCommand, SendSteps, CompSteps, Kinds, Folders
  <2>7. FolderExplained'
    <3>1. Resolve(line.param) \in Paths
      BY <1>15, ParamIsPath DEF DoCompress, TypeOK, OfCommand, CompSteps
    <3>2. folder[Resolve(line.param)] \in Folders
      BY <3>1 DEF TypeOK
    <3>3. changed \/ folder[Resolve(line.param)] # "none"
      BY <1>15 DEF DoCompress, FolderMade
    <3>4. astray' => astray \/ folder[Resolve(line.param)] # "dir"
      BY <1>15 DEF DoCompress
    <3> QED
      BY <2>1, <3>2, <3>3, <3>4 DEF FolderExplained, Folders
  <2> QED
    BY <2>2, <2>3, <2>4, <2>5, <2>6, <2>7
<1>16. CASE ReadLine
  <2>1. pc' \in Steps \ {"aborted"} \/ changed'
    BY <1>16 DEF ReadLine, Goto, Returned, Thrown, files, start, Steps
  <2>2. TypeOK'
    BY <1>16, <2>1 DEF ReadLine, Goto, Returned, Thrown, files, start, TypeOK, Steps, Lines
  <2>3. OfCommand'
    BY <1>16, <2>1 DEF ReadLine, Goto, Returned, Thrown, files, start, OfCommand, SendSteps, CompSteps
  <2>4. SendChecked'
    BY <1>16, <2>1 DEF ReadLine, Goto, Returned, Thrown, files, start, SendChecked, OfCommand, SendSteps, CompSteps, Directory, Exists
  <2>5. FolderMade'
    BY <1>16, <2>1 DEF ReadLine, Goto, Returned, Thrown, files, start, FolderMade, OfCommand, SendSteps, CompSteps
  <2>6. AbortExplained'
    BY <1>16, <2>1 DEF ReadLine, Goto, Returned, Thrown, files, start, AbortExplained, OfCommand, SendSteps, CompSteps
  <2>7. FolderExplained'
    BY <1>16, <2>1 DEF ReadLine, Goto, Returned, Thrown, files, start, FolderExplained, OfCommand, SendSteps, CompSteps
  <2> QED
    BY <2>2, <2>3, <2>4, <2>5, <2>6, <2>7
<1>17. CASE InputEnds
  <2>1. /\ UNCHANGED <<line, cwd, fs, folder, changed>>
        /\ Resolve(line.param)' = Resolve(line.param)
        /\ CheckedPath(line.param)' = CheckedPath(line.param)
    BY <1>17, SamePaths DEF InputEnds, Goto, Returned, Thrown, files, start
  <2>2. TypeOK'
    BY <1>17 DEF InputEnds, files, start, TypeOK
  <2>3. OfCommand'
    BY <1>17, <2>1 DEF InputEnds, Goto, Returned, Thrown, files, start, OfCommand, SendSteps, CompSteps
  <2>4. SendChecked'
    BY <1>17, <2>1 DEF InputEnds, Goto, Returned, Thrown, files, start, SendChecked, OfCommand, SendSteps, CompSteps, Directory, Exists
  <2>5. FolderMade'
    BY <1>17, <2>1 DEF InputEnds, Goto, Returned, Thrown, files, start, FolderMade, OfCommand, SendSteps, CompSteps
  <2>6. AbortExplained'
    BY <1>17, <2>1 DEF InputEnds, Goto, Returned, Thrown, files, start, AbortExplained, OfCommand, SendSteps, CompSteps
  <2>7. FolderExplained'
    BY <1>17, <2>1 DEF InputEnds, Goto, Returned, Thrown, files, start, FolderExplained, OfCommand, SendSteps, CompSteps
  <2> QED
    BY <2>2, <2>3, <2>4, <2>5, <2>6, <2>7
<1>18. CASE OthersChange
  <2>1. pc' \in Steps \ {"aborted"} \/ changed'
    BY <1>18 DEF OthersChange, Goto, Returned, Thrown, files, start, Steps
  <2>2. TypeOK'
    BY <1>18, <2>1 DEF OthersChange, Goto, Returned, Thrown, files, start, TypeOK, Steps, Kinds, Folders
  <2>3. OfCommand'
    BY <1>18, <2>1 DEF OthersChange, Goto, Returned, Thrown, files, start, OfCommand, SendSteps, CompSteps, Kinds, Folders
  <2>4. SendChecked'
    BY <1>18, <2>1 DEF OthersChange, Goto, Returned, Thrown, files, start, SendChecked, OfCommand, SendSteps, CompSteps, Directory, Exists, Kinds, Folders
  <2>5. FolderMade'
    BY <1>18, <2>1 DEF OthersChange, Goto, Returned, Thrown, files, start, FolderMade, OfCommand, SendSteps, CompSteps, Kinds, Folders
  <2>6. AbortExplained'
    BY <1>18, <2>1 DEF OthersChange, Goto, Returned, Thrown, files, start, AbortExplained, OfCommand, SendSteps, CompSteps, Kinds, Folders
  <2>7. FolderExplained'
    BY <1>18, <2>1 DEF OthersChange, Goto, Returned, Thrown, files, start, FolderExplained, OfCommand, SendSteps, CompSteps, Kinds, Folders
  <2> QED
    BY <2>2, <2>3, <2>4, <2>5, <2>6, <2>7
<1>19. CASE WaitEnds
  <2>1. /\ UNCHANGED <<line, cwd, fs, folder, changed>>
        /\ Resolve(line.param)' = Resolve(line.param)
        /\ CheckedPath(line.param)' = CheckedPath(line.param)
    BY <1>19, SamePaths DEF WaitEnds, Goto, Returned, files, start
  <2>2. TypeOK'
    BY <1>19, <2>1 DEF WaitEnds, Goto, Returned, files, start, TypeOK, Steps
  <2>3. OfCommand'
    BY <1>19, <2>1 DEF WaitEnds, Goto, Returned, files, start, OfCommand, SendSteps, CompSteps
  <2>4. SendChecked'
    BY <1>19, <2>1 DEF WaitEnds, Goto, Returned, files, start, SendChecked, OfCommand, SendSteps, CompSteps, Directory, Exists
  <2>5. FolderMade'
    BY <1>19, <2>1 DEF WaitEnds, Goto, Returned, files, start, FolderMade, OfCommand, SendSteps, CompSteps
  <2>6. AbortExplained'
    BY <1>19, <2>1 DEF WaitEnds, Goto, Returned, files, start, AbortExplained, OfCommand, SendSteps, CompSteps
  <2>7. FolderExplained'
    BY <1>19, <2>1 DEF WaitEnds, Goto, Returned, files, start, FolderExplained, OfCommand, SendSteps, CompSteps
  <2> QED
    BY <2>2, <2>3, <2>4, <2>5, <2>6, <2>7
<1>20. CASE UNCHANGED vars
  BY <1>20, SamePaths DEF vars, files, start, TypeOK, OfCommand, SendChecked, FolderMade,
     AbortExplained, FolderExplained, Directory, Exists
<1> QED
  BY <1>1, <1>2, <1>3, <1>4, <1>5, <1>6, <1>7, <1>8, <1>9, <1>10, <1>11, <1>12, <1>13, <1>14, <1>15, <1>16, <1>17, <1>18, <1>19, <1>20 DEF Next, Starting, Answering

LEMMA Invariant == Spec => []IInv
BY InvInit, InvStep, PTL DEF Spec

(* The variables stay in their types; the port is one that was accepted.    *)
THEOREM TypeCorrect == Spec => []TypeOK
<1>1. IInv => TypeOK
  BY DEF IInv
<1> QED
  BY <1>1, Invariant, PTL

(* A send whose checks passed ends the client only for one of the reasons   *)
(* that AbortExplained lists, whatever the unwritten buffer held.           *)
THEOREM SendAborts == Spec => []AbortExplained
<1>1. IInv => AbortExplained
  BY DEF IInv
<1> QED
  BY <1>1, Invariant, PTL

(* The archive stays unread on the connection for want of a folder only for *)
(* one of the reasons that FolderExplained lists.                           *)
THEOREM ArchiveAstray == Spec => []FolderExplained
<1>1. IInv => FolderExplained
  BY DEF IInv
<1> QED
  BY <1>1, Invariant, PTL
-----------------------------------------------------------------------------
(* A set of numbers that is not empty has a least element: there is no      *)
(* infinite descent.                                                        *)
LEMMA LeastElement ==
  ASSUME NEW T \in SUBSET Nat, T # {}
  PROVE  \E x \in T : \A y \in T : x <= y
<1>1. IsWellFoundedOn(OpToRel(<, Nat), Nat)
  BY NatLessThanWellFounded
<1>2. \E x \in T : \A y \in T : ~ (<<y, x>> \in OpToRel(<, Nat))
  BY <1>1, WFMin
<1>3. \A x, y \in Nat : y < x => <<y, x>> \in OpToRel(<, Nat)
  BY DEF OpToRel
<1>4. PICK x \in T : \A y \in T : ~ (<<y, x>> \in OpToRel(<, Nat))
  BY <1>2
<1>6. \A y \in T : y \in Nat
  OBVIOUS
<1>5. ASSUME NEW y \in T PROVE x <= y
  <2>1. x \in Nat /\ y \in Nat
    BY <1>6
  <2>2. ~(y < x)
    BY <1>3, <1>4, <2>1
  <2> QED
    BY <2>1, <2>2
<1> QED
  BY <1>4, <1>5

(* A set that has 0 and with every number the next one has all numbers.     *)
LEMMA InductionOnNat ==
  ASSUME NEW S, 0 \in S, \A n \in Nat : n \in S => n + 1 \in S
  PROVE  Nat \subseteq S
<1> SUFFICES ASSUME Nat \ S # {} PROVE FALSE
  OBVIOUS
<1>1. PICK x \in Nat \ S : \A y \in Nat \ S : x <= y
  BY LeastElement
<1>2. x # 0 /\ x - 1 \in Nat /\ x - 1 \in S
  BY <1>1
<1> QED
  BY <1>1, <1>2

(* A recursion: the value at 0 is v0, any other one a step from the value   *)
(* before it. The step is a function of that value and of the place.        *)
IsStep(step, V) == step \in [V \X (Nat \ {0}) -> V]
Recurs(g, D, v0, step) ==
  \A i \in D : g[i] = IF i = 0 THEN v0 ELSE step[<<g[i - 1], i>>]

(* There is a function on 0 .. n that does so.                              *)
LEMMA RecursionUpTo ==
  ASSUME NEW V, NEW v0 \in V, NEW step, IsStep(step, V)
  PROVE  \A n \in Nat : \E g \in [0 .. n -> V] : Recurs(g, 0 .. n, v0, step)
<1> DEFINE S == {n \in Nat : \E g \in [0 .. n -> V] : Recurs(g, 0 .. n, v0, step)}
<1>1. 0 \in S
  <2>1. [i \in 0 .. 0 |-> v0] \in [0 .. 0 -> V]
    OBVIOUS
  <2>2. Recurs([i \in 0 .. 0 |-> v0], 0 .. 0, v0, step)
    BY DEF Recurs
  <2> QED
    BY <2>1, <2>2
<1>2. ASSUME NEW n \in Nat, n \in S PROVE n + 1 \in S
  <2>1. PICK g \in [0 .. n -> V] : Recurs(g, 0 .. n, v0, step)
    BY <1>2
  <2> DEFINE h == [i \in 0 .. n + 1 |-> IF i = n + 1 THEN step[<<g[n], n + 1>>] ELSE g[i]]
  <2>2. step[<<g[n], n + 1>>] \in V
    <3>1. <<g[n], n + 1>> \in V \X (Nat \ {0})
      OBVIOUS
    <3> QED
      BY <3>1 DEF IsStep
  <2>3. h \in [0 .. n + 1 -> V]
    BY <2>2
  <2>4. \A i \in 0 .. n : h[i] = g[i]
    OBVIOUS
  <2>5. h[n + 1] = step[<<g[n], n + 1>>]
    OBVIOUS
  <2> HIDE DEF h
  <2>6. ASSUME NEW i \in 0 .. n + 1
        PROVE  h[i] = IF i = 0 THEN v0 ELSE step[<<h[i - 1], i>>]
    <3>1. CASE i = n + 1
      <4>1. h[i - 1] = g[n] /\ i # 0
        BY <3>1, <2>4
      <4> QED
        BY <3>1, <4>1, <2>5
    <3>2. CASE i \in 0 .. n
      <4>1. g[i] = IF i = 0 THEN v0 ELSE step[<<g[i - 1], i>>]
        BY <3>2, <2>1 DEF Recurs
      <4>2. i # 0 => h[i - 1] = g[i - 1]
        BY <3>2, <2>4
      <4> QED
        BY <3>2, <4>1, <4>2, <2>4
    <3> QED
      BY <3>1, <3>2
  <2>7. Recurs(h, 0 .. n + 1, v0, step)
    BY <2>6 DEF Recurs
  <2> QED
    BY <2>3, <2>7
<1> HIDE DEF S
<1>3. Nat \subseteq S
  BY <1>1, <1>2, InductionOnNat
<1> QED
  BY <1>3 DEF S

(* Two such functions agree where both are defined.                         *)
LEMMA RecursionAgrees ==
  ASSUME NEW v0, NEW step, NEW m \in Nat, NEW n \in Nat, NEW g, NEW h,
         Recurs(g, 0 .. m, v0, step), Recurs(h, 0 .. n, v0, step)
  PROVE  \A i \in Nat : i <= m /\ i <= n => g[i] = h[i]
<1> DEFINE S == {i \in Nat : i <= m /\ i <= n => g[i] = h[i]}
<1>1. 0 \in S
  <2>0. 0 \in 0 .. m /\ 0 \in 0 .. n
    OBVIOUS
  <2>1. g[0] = v0 /\ h[0] = v0
    BY <2>0 DEF Recurs
  <2> QED
    BY <2>1
<1>2. ASSUME NEW i \in Nat, i \in S PROVE i + 1 \in S
  <2> SUFFICES ASSUME i + 1 <= m, i + 1 <= n PROVE g[i + 1] = h[i + 1]
    OBVIOUS
  <2>1. g[i] = h[i]
    BY <1>2
  <2>2. g[i + 1] = step[<<g[i], i + 1>>]
    BY DEF Recurs
  <2>3. h[i + 1] = step[<<h[i], i + 1>>]
    BY DEF Recurs
  <2> QED
    BY <2>1, <2>2, <2>3
<1> HIDE DEF S
<1>3. Nat \subseteq S
  BY <1>1, <1>2, InductionOnNat
<1> QED
  BY <1>3 DEF S

(* So there is one on all numbers.                                          *)
LEMMA RecursionOnNat ==
  ASSUME NEW V, NEW v0 \in V, NEW step, IsStep(step, V)
  PROVE  \E g \in [Nat -> V] : Recurs(g, Nat, v0, step)
<1> DEFINE to(n) == CHOOSE h \in [0 .. n -> V] : Recurs(h, 0 .. n, v0, step)
           g == [n \in Nat |-> to(n)[n]]
<1>1. ASSUME NEW n \in Nat PROVE to(n) \in [0 .. n -> V] /\ Recurs(to(n), 0 .. n, v0, step)
  BY RecursionUpTo
<1> HIDE DEF to
<1>2. g \in [Nat -> V]
  BY <1>1
<1>3. ASSUME NEW i \in Nat PROVE g[i] = IF i = 0 THEN v0 ELSE step[<<g[i - 1], i>>]
  <2>1. to(i)[i] = IF i = 0 THEN v0 ELSE step[<<to(i)[i - 1], i>>]
    BY <1>1 DEF Recurs
  <2>2. i # 0 => to(i)[i - 1] = to(i - 1)[i - 1]
    <3> SUFFICES ASSUME i # 0 PROVE to(i)[i - 1] = to(i - 1)[i - 1]
      OBVIOUS
    <3>1. i - 1 \in Nat
      OBVIOUS
    <3>2. Recurs(to(i), 0 .. i, v0, step) /\ Recurs(to(i - 1), 0 .. i - 1, v0, step)
      BY <1>1, <3>1
    <3> QED
      BY <3>1, <3>2, RecursionAgrees
  <2>3. g[i] = to(i)[i]
    OBVIOUS
  <2>4. i # 0 => g[i - 1] = to(i - 1)[i - 1]
    OBVIOUS
  <2> QED
    BY <2>1, <2>2, <2>3, <2>4
<1> QED
  BY <1>2, <1>3 DEF Recurs

(* TenTo is such a function: the powers of ten.                             *)
LEMMA TenToGrows == TenTo \in [Nat -> Nat] /\ TenTo[0] = 1 /\ \A k \in Nat : TenTo[k + 1] = 10 * TenTo[k]
<1> DEFINE V == Nat
           one == 1
           step == [p \in V \X (Nat \ {0}) |-> 10 * p[1]]
<1>1. IsStep(step, V) /\ one \in V
  BY DEF IsStep
<1>2. \A v \in V, i \in Nat \ {0} : step[<<v, i>>] = 10 * v
  OBVIOUS
<1> HIDE DEF step, V, one
<1>3. PICK g \in [Nat -> V] : Recurs(g, Nat, one, step)
  BY <1>1, RecursionOnNat
<1>4. ASSUME NEW i \in Nat PROVE g[i] = IF i = 0 THEN 1 ELSE 10 * g[i - 1]
  <2>1. i # 0 => g[i - 1] \in V
    OBVIOUS
  <2> QED
    BY <1>2, <1>3, <2>1 DEF one, Recurs
<1>5. g = [i \in Nat |-> IF i = 0 THEN 1 ELSE 10 * g[i - 1]]
  BY <1>4
<1>6. TenTo = [i \in Nat |-> IF i = 0 THEN 1 ELSE 10 * TenTo[i - 1]]
  BY <1>5 DEF TenTo
<1> HIDE DEF TenTo
<1>7. TenTo[0] = 1
  BY <1>6
<1>8. ASSUME NEW k \in Nat PROVE TenTo[k + 1] = 10 * TenTo[k]
  BY <1>6
<1> DEFINE S == {k \in Nat : TenTo[k] \in Nat}
<1>9. Nat \subseteq S
  <2>1. 0 \in S
    BY <1>7
  <2>2. \A k \in Nat : k \in S => k + 1 \in S
    BY <1>8
  <2> HIDE DEF S
  <2> QED
    BY <2>1, <2>2, InductionOnNat
<1> QED
  BY <1>6, <1>7, <1>8, <1>9

(* The number typed, digit by digit from the left.                          *)
LEMMA TypedSum ==
  ASSUME args \in Seq(Nat)
  PROVE  \E v \in [0 .. Len(args) -> Nat] :
           /\ Typed = v[Len(args)] /\ v[0] = 0
           /\ \A i \in 1 .. Len(args) : v[i] = 10 * v[i - 1] + args[i]
<1> DEFINE V == Nat
           zero == 0
           n == Len(args)
           digit(i) == IF i <= n THEN args[i] ELSE 0
           step == [p \in V \X (Nat \ {0}) |-> 10 * p[1] + digit(p[2])]
<1>0. n \in Nat /\ \A i \in 1 .. n : args[i] \in Nat
  OBVIOUS
<1>12. \A i \in Nat \ {0} : digit(i) \in V /\ (i <= n => digit(i) = args[i])
  BY <1>0
<1> HIDE DEF digit, n
<1>1. IsStep(step, V) /\ zero \in V
  BY <1>12 DEF IsStep
<1>2. \A v \in V, i \in Nat \ {0} : i <= n => step[<<v, i>>] = 10 * v + args[i]
  BY <1>12
<1> HIDE DEF step, V, zero
<1>3. PICK g \in [0 .. n -> V] : Recurs(g, 0 .. n, zero, step)
  BY <1>0, <1>1, RecursionUpTo
<1>4. ASSUME NEW i \in 0 .. n PROVE g[i] = IF i = 0 THEN 0 ELSE 10 * g[i - 1] + args[i]
  <2>1. g[i] = IF i = 0 THEN zero ELSE step[<<g[i - 1], i>>]
    BY <1>3 DEF Recurs
  <2>2. CASE i = 0
    BY <2>1, <2>2 DEF zero
  <2>3. CASE i # 0
    <3>1. g[i - 1] \in V /\ i \in Nat \ {0} /\ i <= n
      BY <1>0, <2>3
    <3>2. step[<<g[i - 1], i>>] = 10 * g[i - 1] + args[i]
      BY <1>2, <3>1
    <3> QED
      BY <2>1, <2>3, <3>2
  <2> QED
    BY <2>2, <2>3
<1>5. g = [i \in 0 .. n |-> IF i = 0 THEN 0 ELSE 10 * g[i - 1] + args[i]]
  BY <1>4
<1> DEFINE value == CHOOSE f : f = [i \in 0 .. n |-> IF i = 0 THEN 0 ELSE 10 * f[i - 1] + args[i]]
<1>6. Typed = value[n]
  BY DEF Typed, n
<1>7. value = [i \in 0 .. n |-> IF i = 0 THEN 0 ELSE 10 * value[i - 1] + args[i]]
  BY <1>5
<1> HIDE DEF value
<1>8. value[0] = 0
  BY <1>0, <1>7
<1>9. ASSUME NEW i \in 1 .. n PROVE value[i] = 10 * value[i - 1] + args[i]
  BY <1>0, <1>7
<1> DEFINE S == {i \in Nat : i <= n => value[i] \in Nat}
<1>10. Nat \subseteq S
  <2>1. 0 \in S
    BY <1>8
  <2>2. ASSUME NEW i \in Nat, i \in S PROVE i + 1 \in S
    <3> SUFFICES ASSUME i + 1 <= n PROVE value[i + 1] \in Nat
      OBVIOUS
    <3>1. value[i] \in Nat /\ i + 1 \in 1 .. n /\ (i + 1) - 1 = i
      BY <1>0, <2>2
    <3>2. value[i + 1] = 10 * value[i] + args[i + 1]
      BY <1>9, <3>1
    <3> QED
      BY <1>0, <3>1, <3>2
  <2> HIDE DEF S
  <2> QED
    BY <2>1, <2>2, InductionOnNat
<1>11. value \in [0 .. n -> Nat]
  <2>1. \A i \in 0 .. n : value[i] \in Nat
    BY <1>10
  <2> QED
    BY <1>7, <2>1
<1> QED
  BY <1>6, <1>8, <1>9, <1>11 DEF n

(* What is an int does not go round.                                        *)
LEMMA WrapInt ==
  /\ \A n \in Int : Wrap(n) \in Int
  /\ \A n \in 0 .. IntMax : Wrap(n) = n
<1>1. IntMax \in Nat
  BY ConsoleAssumption
<1>2. ASSUME NEW n \in Int PROVE Wrap(n) \in Int
  <2>1. (n + IntMax + 1) % (2 * (IntMax + 1)) \in Int
    BY <1>1
  <2> QED
    BY <1>1, <2>1 DEF Wrap, Word
<1>3. ASSUME NEW n \in 0 .. IntMax PROVE Wrap(n) = n
  <2>1. n + IntMax + 1 \in 0 .. 2 * (IntMax + 1) - 1
    BY <1>1
  <2>2. (n + IntMax + 1) % (2 * (IntMax + 1)) = n + IntMax + 1
    BY <1>1, <2>1
  <2> QED
    BY <1>1, <2>2 DEF Wrap, Word
<1> QED
  BY <1>2, <1>3

(* The power the code multiplies with is an integer, also where it is no    *)
(* power of ten.                                                            *)
LEMMA PowerInt == \A k \in Nat : Power(k) \in Int
BY TenToGrows, ConsoleAssumption DEF Power

(* What check_port() reads, digit by digit from the left.                   *)
LEMMA ReadSum ==
  ASSUME NEW digits \in Seq(Nat)
  PROVE  \E s \in [0 .. Len(digits) -> Int] :
           /\ PortValue(digits) = s[Len(digits)] /\ s[0] = 0
           /\ \A i \in 1 .. Len(digits) :
                s[i] = Wrap(s[i - 1] + Wrap(digits[i] * Power(Len(digits) - i)))
<1> DEFINE V == Int
           zero == 0
           n == Len(digits)
           term(i) == IF i <= n THEN Wrap(digits[i] * Power(n - i)) ELSE 0
           step == [p \in V \X (Nat \ {0}) |-> Wrap(p[1] + term(p[2]))]
<1>0. n \in Nat /\ \A i \in 1 .. n : digits[i] \in Nat
  OBVIOUS
<1>12. ASSUME NEW i \in Nat \ {0}
      PROVE  term(i) \in V /\ (i <= n => term(i) = Wrap(digits[i] * Power(n - i)))
  <2>1. CASE i <= n
    <3>1. digits[i] \in Nat /\ n - i \in Nat
      BY <1>0, <2>1
    <3>2. Power(n - i) \in Int
      BY <3>1, PowerInt
    <3>3. digits[i] * Power(n - i) \in Int
      BY <3>1, <3>2
    <3> QED
      BY <2>1, <3>3, WrapInt
  <2> QED
    BY <1>0, <2>1
<1> HIDE DEF term, n
<1>1. IsStep(step, V) /\ zero \in V
  <2>1. \A v \in Int, i \in Nat \ {0} : Wrap(v + term(i)) \in Int
    BY <1>12, WrapInt
  <2> QED
    BY <2>1 DEF IsStep
<1>2. ASSUME NEW v \in V, NEW i \in Nat \ {0}, i <= n
      PROVE  step[<<v, i>>] = Wrap(v + Wrap(digits[i] * Power(n - i)))
  BY <1>12, <1>2
<1> HIDE DEF step, V, zero
<1>3. PICK g \in [0 .. n -> V] : Recurs(g, 0 .. n, zero, step)
  BY <1>0, <1>1, RecursionUpTo
<1>4. ASSUME NEW i \in 0 .. n
      PROVE  g[i] = IF i = 0 THEN 0 ELSE Wrap(g[i - 1] + Wrap(digits[i] * Power(n - i)))
  <2>1. g[i] = IF i = 0 THEN zero ELSE step[<<g[i - 1], i>>]
    BY <1>3 DEF Recurs
  <2>2. CASE i = 0
    BY <2>1, <2>2 DEF zero
  <2>3. CASE i # 0
    <3>1. g[i - 1] \in V /\ i \in Nat \ {0} /\ i <= n
      BY <1>0, <2>3
    <3>2. step[<<g[i - 1], i>>] = Wrap(g[i - 1] + Wrap(digits[i] * Power(n - i)))
      BY <1>2, <3>1
    <3> QED
      BY <2>1, <2>3, <3>2
  <2> QED
    BY <2>2, <2>3
<1>5. g = [i \in 0 .. n |-> IF i = 0 THEN 0 ELSE Wrap(g[i - 1] + Wrap(digits[i] * Power(n - i)))]
  BY <1>4
<1> DEFINE sum == CHOOSE f : f = [i \in 0 .. n |->
                     IF i = 0 THEN 0 ELSE Wrap(f[i - 1] + Wrap(digits[i] * Power(n - i)))]
<1>6. PortValue(digits) = sum[n]
  BY DEF PortValue, n
<1>7. sum = [i \in 0 .. n |-> IF i = 0 THEN 0 ELSE Wrap(sum[i - 1] + Wrap(digits[i] * Power(n - i)))]
  BY <1>5
<1> HIDE DEF sum
<1>8. sum[0] = 0
  BY <1>0, <1>7
<1>9. ASSUME NEW i \in 1 .. n
      PROVE  sum[i] = Wrap(sum[i - 1] + Wrap(digits[i] * Power(n - i)))
  BY <1>0, <1>7
<1> DEFINE S == {i \in Nat : i <= n => sum[i] \in Int}
<1>10. Nat \subseteq S
  <2>1. 0 \in S
    BY <1>8
  <2>2. ASSUME NEW i \in Nat, i \in S PROVE i + 1 \in S
    <3> SUFFICES ASSUME i + 1 <= n PROVE sum[i + 1] \in Int
      OBVIOUS
    <3>1. sum[i] \in Int /\ i + 1 \in 1 .. n /\ (i + 1) - 1 = i
      BY <1>0, <2>2
    <3>2. term(i + 1) \in Int /\ term(i + 1) = Wrap(digits[i + 1] * Power(n - (i + 1)))
      BY <1>12, <3>1 DEF V
    <3>3. sum[i + 1] = Wrap(sum[i] + term(i + 1))
      BY <1>9, <3>1, <3>2
    <3> HIDE DEF sum
    <3>4. sum[i] + term(i + 1) \in Int
      BY <3>1, <3>2
    <3> QED
      BY <3>3, <3>4, WrapInt
  <2> HIDE DEF S
  <2> QED
    BY <2>1, <2>2, InductionOnNat
<1>11. sum \in [0 .. n -> Int]
  <2>1. \A i \in 0 .. n : sum[i] \in Int
    BY <1>10
  <2> QED
    BY <1>7, <2>1
<1> QED
  BY <1>6, <1>8, <1>9, <1>11 DEF n

(* The arithmetic of a digit at its place.                                  *)
LEMMA Products ==
  ASSUME NEW a \in Nat, NEW t \in Nat
  PROVE  /\ a * t \in Nat
         /\ \A u \in Nat : (10 * u + a) * t = u * (10 * t) + a * t
         /\ \A m \in Nat : a * t <= m /\ m < t => a = 0
<1>1. a * t \in Nat
  OBVIOUS
<1>2. ASSUME NEW u \in Nat PROVE (10 * u + a) * t = u * (10 * t) + a * t
  OBVIOUS
<1>3. ASSUME NEW m \in Nat, a * t <= m, m < t PROVE a = 0
  <2> SUFFICES ASSUME a >= 1 PROVE FALSE
    OBVIOUS
  <2>1. a * t = t + (a - 1) * t
    OBVIOUS
  <2>2. (a - 1) * t >= 0
    OBVIOUS
  <2> DEFINE p == (a - 1) * t
             q == a * t
  <2>3. p \in Int /\ q \in Int
    OBVIOUS
  <2> HIDE DEF p, q
  <2> QED
    BY <1>3, <2>1, <2>2, <2>3 DEF p, q
<1> QED
  BY <1>1, <1>2, <1>3

(* check_port() reads the number that was typed, if that is an int: after   *)
(* each digit its sum is what was typed so far at its place, which is no    *)
(* more than the whole. A power that is no int is only multiplied with a    *)
(* zero.                                                                    *)
LEMMA PortRead ==
  ASSUME args \in Seq(Nat), Typed <= IntMax
  PROVE  PortValue(args) = Typed
<1> DEFINE n == Len(args)
<1>0. n \in Nat /\ IntMax \in Nat /\ \A i \in 1 .. n : args[i] \in Nat
  BY ConsoleAssumption
<1>1. PICK v \in [0 .. n -> Nat] :
        /\ Typed = v[n] /\ v[0] = 0
        /\ \A i \in 1 .. n : v[i] = 10 * v[i - 1] + args[i]
  BY TypedSum
<1>2. PICK s \in [0 .. n -> Int] :
        /\ PortValue(args) = s[n] /\ s[0] = 0
        /\ \A i \in 1 .. n : s[i] = Wrap(s[i - 1] + Wrap(args[i] * Power(n - i)))
  BY ReadSum
<1> HIDE DEF n
<1> DEFINE placed(i) == v[i] * TenTo[n - i]
           term(i)   == args[i] * TenTo[n - i]
<1>3. ASSUME NEW i \in 0 .. n PROVE placed(i) \in Nat
  <2>1. v[i] \in Nat /\ n - i \in Nat
    BY <1>0
  <2>2. TenTo[n - i] \in Nat
    BY <2>1, TenToGrows
  <2> QED
    BY <2>1, <2>2, Products
<1>4. ASSUME NEW i \in 1 .. n
      PROVE  /\ term(i) \in Nat /\ placed(i) = placed(i - 1) + term(i)
             /\ term(i) <= IntMax => Wrap(args[i] * Power(n - i)) = term(i)
  <2> DEFINE t == TenTo[n - i]
             u == v[i - 1]
             a == args[i]
  <2>1. /\ i - 1 \in 0 .. n /\ n - i \in Nat /\ n - (i - 1) = (n - i) + 1
        /\ t \in Nat /\ TenTo[n - (i - 1)] = 10 * t /\ u \in Nat /\ a \in Nat
    <3>1. i - 1 \in 0 .. n /\ n - i \in Nat /\ n - (i - 1) = (n - i) + 1
      BY <1>0
    <3>2. t \in Nat /\ TenTo[(n - i) + 1] = 10 * t
      BY <3>1, TenToGrows
    <3>3. u \in Nat /\ a \in Nat
      BY <1>0, <3>1
    <3> QED
      BY <3>1, <3>2, <3>3
  <2>2. v[i] = 10 * u + a
    BY <1>1
  <2>3. Power(n - i) = IF t <= IntMax THEN t ELSE -(IntMax + 1)
    BY DEF Power
  <2>4. placed(i) = v[i] * t /\ placed(i - 1) = u * (10 * t) /\ term(i) = a * t
    BY <2>1
  <2> HIDE DEF t, u, placed, term
  <2>5. term(i) \in Nat /\ placed(i) = placed(i - 1) + term(i)
    BY <2>1, <2>2, <2>4, Products
  <2>6. ASSUME term(i) <= IntMax PROVE Wrap(a * Power(n - i)) = term(i)
    <3>1. CASE t <= IntMax
      <4>1. a * Power(n - i) = term(i)
        BY <2>3, <2>4, <3>1
      <4> QED
        BY <1>0, <2>5, <2>6, <4>1, WrapInt
    <3>2. CASE t > IntMax
      <4>1. a = 0
        BY <1>0, <2>1, <2>4, <2>6, <3>2, Products
      <4>2. Power(n - i) \in Int
        BY <2>1, PowerInt
      <4>3. a * Power(n - i) = 0 /\ term(i) = 0
        BY <2>1, <2>4, <4>1, <4>2
      <4> QED
        BY <1>0, <4>3, WrapInt
    <3> QED
      BY <1>0, <2>1, <3>1, <3>2
  <2> QED
    BY <2>5, <2>6
<1>5. placed(0) = 0 /\ placed(n) = Typed
  <2>1. v[0] = 0 /\ n - 0 = n /\ n - n = 0 /\ v[n] \in Nat
    BY <1>0, <1>1
  <2>2. TenTo[n] \in Nat /\ TenTo[0] = 1
    BY <1>0, TenToGrows
  <2> QED
    BY <1>1, <2>1, <2>2
<1> HIDE DEF placed, term
<1>6. ASSUME NEW i \in 0 .. n PROVE placed(i) <= Typed
  <2> DEFINE S == {k \in Nat : k <= n => placed(n - k) <= Typed}
  <2>1. 0 \in S
    BY <1>0, <1>3, <1>5
  <2>2. ASSUME NEW k \in Nat, k \in S PROVE k + 1 \in S
    <3> SUFFICES ASSUME k + 1 <= n PROVE placed(n - (k + 1)) <= Typed
      OBVIOUS
    <3>1. n - k \in 1 .. n /\ n - k \in 0 .. n /\ n \in 0 .. n /\ n - (k + 1) = (n - k) - 1
          /\ (n - k) - 1 \in 0 .. n
      BY <1>0
    <3>2. placed(n - k) <= Typed
      BY <1>0, <2>2
    <3>3. /\ placed(n - k) = placed((n - k) - 1) + term(n - k) /\ term(n - k) \in Nat
          /\ placed(n - k) \in Nat /\ placed((n - k) - 1) \in Nat /\ Typed \in Nat
      BY <1>3, <1>4, <1>5, <3>1
    <3>4. placed((n - k) - 1) <= Typed
      BY <3>2, <3>3
    <3> QED
      BY <3>1, <3>4
  <2> HIDE DEF S
  <2>3. Nat \subseteq S
    BY <2>1, <2>2, InductionOnNat
  <2>4. n - i \in S /\ n - (n - i) = i /\ n - i <= n
    BY <1>0, <2>3
  <2> QED
    BY <2>4 DEF S
<1> DEFINE S == {i \in Nat : i <= n => s[i] = placed(i)}
<1>7. 0 \in S
  BY <1>2, <1>5
<1>8. ASSUME NEW j \in Nat, j \in S PROVE j + 1 \in S
  <2> SUFFICES ASSUME j + 1 <= n PROVE s[j + 1] = placed(j + 1)
    OBVIOUS
  <2>1. /\ j + 1 \in 1 .. n /\ j + 1 \in 0 .. n /\ j \in 0 .. n /\ (j + 1) - 1 = j
        /\ n \in 0 .. n
    BY <1>0
  <2>2. s[j] = placed(j)
    BY <1>0, <1>8, <2>1
  <2>3. /\ term(j + 1) \in Nat /\ placed(j + 1) = placed(j) + term(j + 1)
        /\ placed(j) \in Nat /\ placed(j + 1) \in Nat
        /\ placed(j + 1) <= Typed /\ Typed \in Nat
    BY <1>3, <1>4, <1>5, <1>6, <2>1
  <2>4. placed(j + 1) <= IntMax /\ term(j + 1) <= IntMax
    BY <1>0, <2>3
  <2>5. Wrap(args[j + 1] * Power(n - (j + 1))) = term(j + 1)
    BY <1>4, <2>1, <2>4
  <2>6. s[j + 1] = Wrap(placed(j) + term(j + 1))
    BY <1>2, <2>1, <2>2, <2>5
  <2>7. placed(j + 1) \in 0 .. IntMax
    BY <1>0, <2>3, <2>4
  <2>8. Wrap(placed(j + 1)) = placed(j + 1)
    BY <2>7, WrapInt
  <2> QED
    BY <2>3, <2>6, <2>8
<1> HIDE DEF S
<1>9. n \in S
  BY <1>0, <1>7, <1>8, InductionOnNat
<1> QED
  BY <1>0, <1>2, <1>5, <1>9 DEF S
-----------------------------------------------------------------------------
(* The port's invariant: one is stored only by a check that accepted it,    *)
(* and a client that ends without one was refused.                          *)
PortInv ==
  /\ port # 0 => PortAccepted /\ port = PortValue(args)
  /\ pc = "args" => port = 0
  /\ pc \notin {"args", "exited"} => port # 0
  /\ pc = "exited" /\ port = 0 => said = "refused" \/ ~PortAccepted

LEMMA PortInit == Init => PortInv
BY DEF Init, PortInv

LEMMA PortStep == PortInv /\ [Next]_vars => PortInv'
<1> SUFFICES ASSUME PortInv, [Next]_vars PROVE PortInv'
  OBVIOUS
<1>1. args' = args
  BY DEF Next, Starting, Answering, vars, start, files, ParseParams, BadArguments, ClientConnect, Hello,
     ClientDisconnect, ParseCommand, Talk, SendIsDirectory, SendExists, DoSend,
     CompressIsDirectory, CompressGotPermissions, CreateDirectory, ConfigurationCheck,
     DoCompress, WaitEnds, ReadLine, InputEnds, OthersChange
<1>2. PortAccepted' = PortAccepted /\ PortValue(args)' = PortValue(args)
  BY <1>1 DEF PortAccepted, PortValue
<1>3. CASE ParseParams
  <2>1. CASE PortAccepted /\ port' = PortValue(args) /\ pc' = "connect"
    <3>1. port' # 0
      BY <2>1, ConsoleAssumption DEF PortAccepted
    <3> QED
      BY <1>2, <2>1, <3>1 DEF PortInv
  <2>2. CASE ~PortAccepted /\ port' = port /\ pc' = "exited"
    BY <1>2, <1>3, <2>2 DEF PortInv, ParseParams
  <2> QED
    BY <1>3, <2>1, <2>2 DEF ParseParams, Goto
<1>4. CASE BadArguments
  BY <1>2, <1>4 DEF PortInv, BadArguments, Goto, start
<1>5. ASSUME port' = port, pc' # "args", pc \notin {"args", "exited"} PROVE PortInv'
  BY <1>2, <1>5 DEF PortInv
<1>6. ASSUME port' = port, pc' = pc, said' = said PROVE PortInv'
  BY <1>2, <1>6 DEF PortInv
<1>7. CASE (Starting \/ Answering \/ WaitEnds) /\ ~ParseParams /\ ~BadArguments
  <2>1. port' = port /\ pc \notin {"args", "exited"} /\ pc' # "args"
    <3>1. CASE ClientConnect \/ Hello \/ ClientDisconnect
      BY <3>1 DEF ClientConnect, Hello, ClientDisconnect, Goto, start
    <3>2. CASE ParseCommand \/ Talk \/ WaitEnds
      BY <3>2 DEF ParseCommand, Talk, WaitEnds, Thrown, Returned, Waits, Goto, start
    <3>3. CASE SendIsDirectory \/ SendExists \/ DoSend
      BY <3>3 DEF SendIsDirectory, SendExists, DoSend, Returned, Waits, Goto, start
    <3>4. CASE CompressIsDirectory \/ CompressGotPermissions \/ CreateDirectory
      BY <3>4 DEF CompressIsDirectory, CompressGotPermissions, CreateDirectory, Returned, Goto, start
    <3>5. CASE ConfigurationCheck \/ DoCompress
      BY <3>5 DEF ConfigurationCheck, DoCompress, Returned, Waits, Goto, start
    <3> QED
      BY <1>7, <3>1, <3>2, <3>3, <3>4, <3>5 DEF Starting, Answering
  <2> QED
    BY <1>5, <2>1
<1>8. CASE ReadLine
  <2>1. port' = port /\ pc = "prompt" /\ pc' = "parse"
    BY <1>8 DEF ReadLine, Goto, start
  <2> QED
    BY <1>5, <2>1
<1>9. CASE InputEnds \/ OthersChange \/ UNCHANGED vars
  <2>1. port' = port /\ pc' = pc /\ said' = said
    BY <1>9 DEF InputEnds, OthersChange, vars, start
  <2> QED
    BY <1>6, <2>1
<1> QED
  BY <1>3, <1>4, <1>7, <1>8, <1>9 DEF Next

(* The port the client connects to is the one that was typed, and one in    *)
(* the range is not refused: for ints of any width and numbers of any       *)
(* length, the zeros before them included.                                  *)
THEOREM PortIsTyped == Spec => []PortAsTyped
<1>1. Spec => []PortInv
  BY PortInit, PortStep, PTL DEF Spec
<1>2. TypeOK /\ PortInv => PortAsTyped
  <2> SUFFICES ASSUME TypeOK, PortInv, Typed <= IntMax
               PROVE  /\ port # 0 => port = Typed
                      /\ pc = "exited" /\ port = 0 /\ said = "nothing"
                           /\ (\A i \in DOMAIN args : args[i] <= 9) =>
                              Typed \notin MIN_PORT .. MAX_PORT
    BY DEF PortAsTyped
  <2>1. args \in Seq(Nat)
    <3>1. args \in Seq(0 .. 10)
      BY ConsoleAssumption DEF TypeOK
    <3> QED
      BY <3>1
  <2>2. PortValue(args) = Typed
    BY <2>1, PortRead
  <2> QED
    BY <2>2 DEF PortInv, PortAccepted
<1> QED
  BY <1>1, <1>2, TypeCorrect, PTL
=============================================================================
