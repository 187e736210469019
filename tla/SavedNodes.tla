----------------------------- MODULE SavedNodes -----------------------------
(***************************************************************************)
(* `bos nodes` (src/nodes/manage_saved_nodes.js): the credentials of the   *)
(* saved nodes are in a file for each node.  A command registers or        *)
(* removes a node, encrypts the macaroons to GPG keys, or decrypts them.   *)
(*                                                                         *)
(* One command runs at a time.  It may be stopped at any moment, also      *)
(* within the writes, which go on together; a write that fails or is       *)
(* stopped may leave a file that cannot be parsed.                         *)
(***************************************************************************)
EXTENDS Naturals

CONSTANTS
  Saved,         \* the names of nodes
  GpgKeys,       \* what macaroons are encrypted to
  Unnamed,       \* no name is given
  FileJobs,      \* what users ask for
  FileRuns       \* commands that are run, one after another

\* A lock names keys, which are none of the words for the other states of a file
ASSUME FileJobsAssumption ==
  /\ Unnamed \notin Saved /\ FileRuns \in Nat \ {0}
  /\ GpgKeys \cap {"none", "empty", "torn", "plain"} = {}
  /\ \A j \in FileJobs :
       /\ j.node \in Saved \cup {Unnamed}
       /\ j.then = "lock" => j.to \in GpgKeys

VARIABLES
  fileJob,       \* the options of the command: first, then, node, to
  fileAt,        \* how far it is
  files,         \* [Saved -> what is in the directory of the node]
  form,          \* what the files that are written hold
  writing,       \* the nodes whose file is written
  failed,        \* a write failed
  fileTold,      \* what the user was told
  fileRun        \* the number of the command

fileVars == <<fileJob, fileAt, files, form, writing, failed, fileTold, fileRun>>

\* first: "register", "remove" or "none"; then: "lock", "unlock" or "none"
NoFileJob == [first |-> "none", then |-> "none", node |-> Unnamed, to |-> "plain"]

FileTypes ==
  /\ fileJob \in FileJobs \cup {NoFileJob}
  /\ fileAt \in {"off", "start", "check", "remove", "directory", "list", "decrypt", "encrypt",
                 "save", "write", "written", "hung", "ended"}
  /\ files \in [Saved -> {"none", "empty", "torn", "plain"} \cup GpgKeys]
  /\ form \in {"plain"} \cup GpgKeys /\ writing \subseteq Saved /\ failed \in BOOLEAN
  /\ fileTold \in {"none", "success", "error"} /\ fileRun \in 0 .. FileRuns

NothingWritten == form = "plain" /\ writing = {} /\ failed = FALSE /\ fileTold = "none"
NoFiles ==
  /\ fileJob = NoFileJob /\ fileAt = "off" /\ files = [n \in Saved |-> "none"]
  /\ NothingWritten /\ fileRun = 0
SavedNodesInit ==
  /\ fileJob \in FileJobs /\ fileAt = "start" /\ NothingWritten /\ fileRun = 1
  /\ files \in [Saved -> {"none", "plain"} \cup GpgKeys]

-----------------------------------------------------------------------------

Readable(n) == files[n] = "plain" \/ files[n] \in GpgKeys
Directories == {n \in Saved : files[n] # "none"}

\* A file that is missing, and one that cannot be parsed, is an error
AllReadable == \A n \in Directories : Readable(n)

Chosen == IF fileJob.node = Unnamed THEN Directories ELSE {fileJob.node}
Encrypted(ns) == {n \in ns : files[n] \in GpgKeys}

\* Mutant of Wrong: a macaroon that is encrypted is taken to be encrypted as asked
AnyKeys == {}
\* Encrypted to other keys than those asked for
Wrong == {n \in Encrypted(Chosen) : files[n] # fileJob.to}

Proceeds(a) == fileAt' = a /\ UNCHANGED fileTold
Tells(t) == fileAt' = "ended" /\ fileTold' = t
Writes(a, ns, f) == writing' = ns /\ form' = f /\ Proceeds(a)
WritesNothing == UNCHANGED <<form, writing, failed>>

\* A node to remove has to be named
StartJob ==
  /\ fileAt = "start" /\ fileJob.first # "register"
  /\ IF fileJob.first = "remove" /\ fileJob.node = Unnamed THEN Tells("error")
     ELSE Proceeds("check")
  /\ UNCHANGED <<fileJob, files, fileRun>> /\ WritesNothing

\* The credentials of the other node are pasted, the macaroon among them is decrypted, a
\* name is asked for; each step may be an error or be canceled.  A directory is made
RegisterNode ==
  /\ fileAt = "start" /\ fileJob.first = "register"
  /\ \/ Tells("error") /\ UNCHANGED <<files, form, writing>>
     \/ \E n \in Saved :
          /\ fileJob.node # Unnamed => n = fileJob.node
          /\ files' = [files EXCEPT ![n] = IF @ = "none" THEN "empty" ELSE @]
          /\ Writes("save", {n}, "plain")
  /\ UNCHANGED <<fileJob, failed, fileRun>>

CheckNode ==
  /\ fileAt = "check"
  /\ IF fileJob.node # Unnamed /\ ~Readable(fileJob.node) THEN Tells("error")
     ELSE IF fileJob.first = "remove" THEN Proceeds("remove") ELSE Proceeds("list")
  /\ UNCHANGED <<fileJob, files, fileRun>> /\ WritesNothing

\* The file is removed, then the directory: without its file it is an error to every
\* command that lists the nodes
RemoveCredentials ==
  /\ fileAt = "remove"
  /\ \/ Tells("error") /\ UNCHANGED files
     \/ files' = [files EXCEPT ![fileJob.node] = "empty"] /\ Proceeds("directory")
  /\ UNCHANGED <<fileJob, fileRun>> /\ WritesNothing
RemoveDirectory ==
  /\ fileAt = "directory"
  /\ \/ Tells("error") /\ UNCHANGED files
     \/ files' = [files EXCEPT ![fileJob.node] = "none"] /\ Proceeds("list")
  /\ UNCHANGED <<fileJob, fileRun>> /\ WritesNothing

\* The nodes are read, then the chosen ones; to lock none is an error
Unread ==
  \/ ~AllReadable
  \/ fileJob.then # "none" /\ \E n \in Chosen : ~Readable(n)
  \/ fileJob.then = "lock" /\ Chosen = {}

GetSavedNodes ==
  /\ fileAt = "list"
  /\ \/ Unread /\ Tells("error")
     \/ ~Unread /\ fileJob.then = "none" /\ Tells("success")
     \/ ~Unread /\ fileJob.then = "unlock" /\ Proceeds("decrypt")
     \/ ~Unread /\ fileJob.then = "lock" /\ Wrong # {} /\ Proceeds("decrypt")
     \/ ~Unread /\ fileJob.then = "lock" /\ Wrong = {} /\ Proceeds("encrypt")
  /\ UNCHANGED <<fileJob, files, fileRun>> /\ WritesNothing

-----------------------------------------------------------------------------
(* The macaroons                                                           *)

\* All that are to be decrypted are, one after another, before one is written.  GPG may
\* fail: nobody handles this error, and the process ends
Decrypt ==
  /\ fileAt = "decrypt"
  /\ \/ Tells("none") /\ UNCHANGED <<form, writing>>
     \/ Writes("write", IF fileJob.then = "lock" THEN Wrong ELSE Encrypted(Chosen), "plain")
  /\ UNCHANGED <<fileJob, files, failed, fileRun>>

\* Mutant of ToEncrypt: the first node only
OneToEncrypt ==
  LET plain == {n \in Chosen : files[n] = "plain"} IN
    IF plain = {} THEN {} ELSE {CHOOSE n \in plain : TRUE}
ToEncrypt == {n \in Chosen : files[n] = "plain"}

Encrypt ==
  /\ fileAt = "encrypt"
  /\ \/ Tells("error") /\ UNCHANGED <<form, writing>>
     \/ Writes("write", ToEncrypt, fileJob.to)
  /\ UNCHANGED <<fileJob, files, failed, fileRun>>

\* The files are written together; an error leaves a file as it was, or torn
WriteFile(n) ==
  /\ fileAt \in {"save", "write", "written"} /\ n \in writing
  /\ writing' = writing \ {n}
  /\ \/ files' = [files EXCEPT ![n] = form] /\ UNCHANGED failed
     \/ /\ failed' = TRUE
        /\ files' = [files EXCEPT ![n] = "torn"] \/ UNCHANGED files
  /\ UNCHANGED <<fileJob, fileAt, form, fileTold, fileRun>>

\* The first error is told while other writes go on
TellFailed ==
  /\ fileAt = "write" /\ failed /\ form # "plain"
  /\ fileAt' = "written" /\ fileTold' = "error"
  /\ UNCHANGED <<fileJob, files, fileRun>> /\ WritesNothing

\* When macaroons were decrypted nothing is called back: the command does not go on, and
\* an error ends the process
WritesDone ==
  /\ writing = {}
  /\ \/ fileAt = "save" /\ IF failed THEN Tells("error") ELSE Proceeds("check")
     \/ fileAt = "write" /\ form # "plain" /\ ~failed /\ Tells("success")
     \/ fileAt = "write" /\ form = "plain"
          /\ IF failed THEN Tells("none") ELSE Proceeds("hung")
     \/ fileAt = "written" /\ fileAt' = "ended" /\ UNCHANGED fileTold
  /\ UNCHANGED <<fileJob, files, fileRun>> /\ WritesNothing

-----------------------------------------------------------------------------

\* A file that is written when the process ends may be torn
StopFiles ==
  /\ fileAt \notin {"off", "ended", "hung"} /\ fileAt' = "ended"
  /\ \E torn \in SUBSET writing :
       files' = [n \in Saved |-> IF n \in torn THEN "torn" ELSE files[n]]
  /\ writing' = {}
  /\ UNCHANGED <<fileJob, form, failed, fileTold, fileRun>>

\* A command that hangs has nothing left to do: its process ends too
NextFileJob ==
  /\ fileAt \in {"ended", "hung"} /\ fileRun < FileRuns
  /\ fileJob' \in FileJobs /\ fileAt' = "start" /\ fileRun' = fileRun + 1
  /\ form' = "plain" /\ writing' = {} /\ failed' = FALSE /\ fileTold' = "none"
  /\ UNCHANGED files

SavedNodesNext ==
  \/ StartJob \/ RegisterNode \/ CheckNode \/ RemoveCredentials \/ RemoveDirectory
  \/ GetSavedNodes \/ Decrypt \/ Encrypt
  \/ \E n \in Saved : WriteFile(n)
  \/ TellFailed \/ WritesDone \/ StopFiles \/ NextFileJob

-----------------------------------------------------------------------------
(* Properties                                                              *)

\* When a command reports success it is true of the files, whatever earlier commands
\* left behind when they failed, hung or were stopped: all the chosen macaroons are
\* encrypted to the keys asked for and to no others (encrypt_saved_macaroons.js:70), a
\* node is registered or removed, and every node that is left can be used
SavedAsAsked ==
  fileTold = "success" =>
    /\ fileJob.then = "lock" => \A n \in Chosen : files[n] = fileJob.to
    /\ fileJob.first = "remove" => files[fileJob.node] = "none"
    /\ fileJob.first = "register" /\ fileJob.node # Unnamed => Readable(fileJob.node)
    /\ AllReadable
=============================================================================
