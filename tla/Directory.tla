------------------------------ MODULE Directory --------------------------------
(***************************************************************************)
(* cd, ls, mkdir, rm and the file that puts creates, as handle.c does them *)
(* for several sessions on one tree: the virtual path is computed from     *)
(* current_path and the argument, mapped below SERVER_BASE_DIR, and given  *)
(* to one system call.  cd checks the directory with opendir and changes   *)
(* current_path afterwards; ls opens the directory, reads one entry at a   *)
(* time while others change it, and puts them together in a buffer of      *)
(* fixed size.                                                             *)
(*                                                                         *)
(* A path is the sequence of its components, the root is <<>>; "/" as the  *)
(* first component of an argument makes it absolute.  PATH_MAX limits      *)
(* the number of components instead of characters.  pwd changes nothing    *)
(* and is left out.  Definitions marked "Fault" are seeded faults; Next    *)
(* uses none of them.                                                      *)
(***************************************************************************)
EXTENDS Naturals, Sequences, SequencesExt

CONSTANTS
    Sessions,    \* connections, each served by a worker
    Names,       \* names of files and directories
    Args,        \* arguments the users give
    PathMax,     \* PATH_MAX, in components
    NameLen,     \* NameLen[n]: characters of name n
    MaxText,     \* MAX_TEXT_PAYLOAD
    NoPath,      \* resolve_target_path has failed
    MaxCommands  \* bound: commands given in one run

ASSUME DirectoryAssumption ==
    /\ \A arg \in Args : /\ arg \in Seq(Names \cup {".", "..", "/"})
                          /\ \A i \in 2..Len(arg) : arg[i] # "/"
    /\ {".", "..", "/", "newline", "too long"} \cap Names = {}
    /\ NoPath \notin Seq(Names)
    /\ NameLen \in [Names -> Nat \ {0}]
    /\ PathMax \in Nat /\ MaxText \in Nat \ {0} /\ MaxCommands \in Nat

VARIABLES
    tree,         \* the files and directories below SERVER_BASE_DIR
    currentPath,  \* session->current_path
    pc,           \* where each worker is
    op, arg,      \* the command it handles
    target,       \* its target_virtual or next_virtual
    result,       \* the answer it is about to send; "FAILED" is an ERROR for want of
                  \* descriptors, memory or rights
    listing,      \* the text of an answer to ls: names and line ends
    lasting,      \* history: the names an ls has found and nobody has removed since opendir
    coming,       \* the names readdir may still return
    commands,     \* commands given so far
    removed       \* history: paths rm has ever removed

lsVars == <<listing, lasting, coming>>
vars   == <<tree, currentPath, pc, op, arg, target, result, lsVars, commands, removed>>

Ops == {"cd", "ls", "rm", "mkdir", "puts"}
Pcs == {"idle", "resolve", "call", "enter", "list", "reply"}

--------------------------------------------------------------------------------
(* Paths. *)

\* Fault: ".." on a directory below the root leaves it where it is.
PopOneLevelStays(path) == IF Len(path) <= 1 THEN path ELSE SubSeq(path, 1, Len(path) - 1)

PopOneLevel(path) == IF path = <<>> THEN path ELSE SubSeq(path, 1, Len(path) - 1)

\* Fault: ".." is a name like any other.
StepTokenDotDot(path, token) == IF token = "." THEN path ELSE Append(path, token)

StepToken(path, token) ==
    CASE token = "."  -> path
      [] token = ".." -> PopOneLevel(path)
      [] OTHER        -> Append(path, token)

\* The path after each token, from the root.
Walk(tokens) ==
    LET path[i \in 0..Len(tokens)] == IF i = 0 THEN <<>> ELSE StepToken(path[i - 1], tokens[i])
    IN  path

\* normalize_virtual_path: current path and argument in one, then token by token.
Normalize(current, a) ==
    IF a = <<>> \/ a[1] = "/" \/ Len(current) + Len(a) > PathMax
    THEN NoPath
    ELSE Walk(current \o a)[Len(current \o a)]

--------------------------------------------------------------------------------
(* The file system calls. *)

IsDir(p)  == p \in DOMAIN tree /\ tree[p] = "dir"
Parent(p) == SubSeq(p, 1, Len(p) - 1)
InDir(p)  == p = <<>> \/ IsDir(Parent(p))
HasEntries(p) == \E q \in DOMAIN tree : q # <<>> /\ Parent(q) = p

\* The tree when p has been made or, if it is there already, is a file all the same.
With(p, kind) == [q \in DOMAIN tree \cup {p} |-> IF q = p THEN kind ELSE tree[q]]

Init == /\ tree = [p \in {<<>>} |-> "dir"]
        /\ currentPath = [s \in Sessions |-> <<>>]
        /\ pc = [s \in Sessions |-> "idle"]
        /\ op = [s \in Sessions |-> "ls"]
        /\ arg = [s \in Sessions |-> <<>>]
        /\ target = [s \in Sessions |-> NoPath]
        /\ result = [s \in Sessions |-> "none"]
        /\ listing = [s \in Sessions |-> <<>>]
        /\ lasting = [s \in Sessions |-> {}]
        /\ coming = [s \in Sessions |-> {}]
        /\ commands = 0
        /\ removed = {}

Goto(s, l) == pc' = [pc EXCEPT ![s] = l]

\* The system call has returned: what to answer.
Report(s, answer) == /\ result' = [result EXCEPT ![s] = answer]
                     /\ Goto(s, "reply")
                     /\ UNCHANGED <<currentPath, op, arg, listing, commands>>

--------------------------------------------------------------------------------
\* handle_request: the next packet is command o with argument a.
Receive(s, o, a) == /\ pc[s] = "idle"
                    /\ commands < MaxCommands
                    /\ commands' = commands + 1
                    /\ op' = [op EXCEPT ![s] = o]
                    /\ arg' = [arg EXCEPT ![s] = a]
                    /\ Goto(s, "resolve")
                    /\ UNCHANGED <<tree, currentPath, target, result, lsVars, removed>>

\* resolve_target_path; ls takes the current path as it is.
Resolve(s) ==
    /\ pc[s] = "resolve"
    /\ target' = [target EXCEPT ![s] = IF op[s] = "ls" THEN currentPath[s]
                                       ELSE Normalize(currentPath[s], arg[s])]
    /\ IF target'[s] = NoPath
       THEN result' = [result EXCEPT ![s] = "ERROR"] /\ Goto(s, "reply")
       ELSE Goto(s, "call") /\ UNCHANGED result
    /\ UNCHANGED <<tree, currentPath, op, arg, lsVars, commands, removed>>

Calling(s, o) == pc[s] = "call" /\ op[s] = o

\* Fault: cd does not look at the result of opendir.
OpenDirForCdUnchecked(s) == /\ Calling(s, "cd")
                            /\ Goto(s, "enter")
                            /\ UNCHANGED <<tree, currentPath, op, arg, target, result, lsVars, commands, removed>>

\* handle_cd: opendir finds the directory.
OpenDirForCd(s) == /\ Calling(s, "cd") /\ IsDir(target[s])
                   /\ Goto(s, "enter")
                   /\ UNCHANGED <<tree, currentPath, op, arg, target, result, lsVars, commands, removed>>

\* handle_cd: current_path changes, whatever has happened to the directory since.
Enter(s) == /\ pc[s] = "enter"
            /\ currentPath' = [currentPath EXCEPT ![s] = target[s]]
            /\ result' = [result EXCEPT ![s] = "ACK"]
            /\ Goto(s, "reply")
            /\ UNCHANGED <<tree, op, arg, target, lsVars, commands, removed>>

OpenDirFails(s) == /\ Calling(s, "cd") \/ Calling(s, "ls")
                   /\ ~IsDir(target[s])
                   /\ Report(s, "ERROR")
                   /\ UNCHANGED <<tree, target, lasting, coming, removed>>

\* Any of the system calls fails for another reason.
CallFails(s) == /\ pc[s] = "call"
                /\ Report(s, "FAILED")
                /\ UNCHANGED <<tree, target, lasting, coming, removed>>

Entries(p) == {Last(q) : q \in {q \in DOMAIN tree : q # <<>> /\ Parent(q) = p}}

\* handle_ls: opendir finds the directory.
OpenDirForLs(s) == /\ Calling(s, "ls") /\ IsDir(target[s])
                   /\ lasting' = [lasting EXCEPT ![s] = Entries(target[s])]
                   /\ coming' = [coming EXCEPT ![s] = Entries(target[s])]
                   /\ Goto(s, "list")
                   /\ UNCHANGED <<tree, currentPath, op, arg, target, result, listing, commands, removed>>

\* t is reading the directory that p is in.
Reads(t, p) == pc[t] = "list" /\ p # <<>> /\ target[t] = Parent(p)

NewLine == "newline"
TooLong == <<"too long">>

Width(t) == IF t = NewLine THEN 1 ELSE NameLen[t]

\* Characters in the first i parts of a text of names and line ends, and in all of it.
UsedUpTo(text) ==
    LET used[i \in 0..Len(text)] == IF i = 0 THEN 0 ELSE used[i - 1] + Width(text[i])
    IN  used
Used(text) == UsedUpTo(text)[Len(text)]

\* Fault: > for >= in the test of what snprintf returns; the last character is lost.
AddEntryOffByOne(text, name) ==
    IF NameLen[name] > MaxText - Used(text) THEN TooLong
    ELSE IF NameLen[name] = MaxText - Used(text) THEN text
    ELSE text \o (IF Used(text) + NameLen[name] + 2 < MaxText THEN <<name, NewLine>> ELSE <<name>>)

\* snprintf at the end of result, and a line end if two more characters fit.
AddEntry(text, name) ==
    IF NameLen[name] >= MaxText - Used(text) THEN TooLong
    ELSE text \o (IF Used(text) + NameLen[name] + 2 < MaxText THEN <<name, NewLine>> ELSE <<name>>)

\* handle_ls: readdir returns one more name; a text that is too long is given up.
ReadEntry(s) ==
    /\ pc[s] = "list"
    /\ \E name \in coming[s] :
          LET text == AddEntry(listing[s], name)
          IN  /\ coming' = [coming EXCEPT ![s] = @ \ {name}]
              /\ IF text = TooLong
                 THEN Report(s, "ERROR")
                 ELSE /\ listing' = [listing EXCEPT ![s] = text]
                      /\ UNCHANGED <<currentPath, pc, op, arg, result, commands>>
    /\ UNCHANGED <<tree, target, lasting, removed>>

\* handle_ls: readdir returns NULL when no name is left that has been there all the time;
\* of the names made or removed meanwhile it may return any.
ListEnds(s) == /\ pc[s] = "list" /\ lasting[s] \cap coming[s] = {}
               /\ Report(s, "ACK")
               /\ UNCHANGED <<tree, target, lasting, coming, removed>>

\* A new entry p: who is reading its directory may come to it.
Make(p, kind) ==
    /\ tree' = With(p, kind)
    /\ coming' = [t \in Sessions |-> IF Reads(t, p) /\ p \notin DOMAIN tree
                                      THEN coming[t] \cup {Last(p)} ELSE coming[t]]

\* handle_mkdir.
MakeDir(s) == /\ Calling(s, "mkdir")
              /\ IF target[s] \notin DOMAIN tree /\ InDir(target[s])
                 THEN Make(target[s], "dir") /\ Report(s, "ACK")
                 ELSE UNCHANGED <<tree, coming>> /\ Report(s, "ERROR")
              /\ UNCHANGED <<target, lasting, removed>>

\* handle_puts: open(O_RDWR | O_CREAT); ACK stands for PUTS_RESP, what comes after it is
\* Upload's.
CreateFile(s) == /\ Calling(s, "puts")
                 /\ IF ~IsDir(target[s]) /\ InDir(target[s])
                    THEN Make(target[s], "file") /\ Report(s, "ACK")
                    ELSE UNCHANGED <<tree, coming>> /\ Report(s, "ERROR")
                 /\ UNCHANGED <<target, lasting, removed>>

\* handle_rm: remove takes files and empty directories, SERVER_BASE_DIR included.
\* A directory that is being listed meanwhile stays open, without a path.
RemovePath(s) ==
    /\ Calling(s, "rm")
    /\ LET p == target[s]
       IN  IF p \in DOMAIN tree /\ ~HasEntries(p)
           THEN /\ tree' = [q \in DOMAIN tree \ {p} |-> tree[q]]
                /\ removed' = removed \cup {p}
                /\ target' = [t \in Sessions |-> IF pc[t] = "list" /\ target[t] = p
                                                  THEN NoPath ELSE target[t]]
                /\ lasting' = [t \in Sessions |-> IF Reads(t, p)
                                                   THEN lasting[t] \ {Last(p)} ELSE lasting[t]]
                /\ Report(s, "ACK")
           ELSE UNCHANGED <<tree, target, lasting, removed>> /\ Report(s, "ERROR")
    /\ UNCHANGED coming

\* send_text_reply; the local variables of the handler are gone.
Reply(s) == /\ pc[s] = "reply"
            /\ Goto(s, "idle")
            /\ result' = [result EXCEPT ![s] = "none"]
            /\ target' = [target EXCEPT ![s] = NoPath]
            /\ op' = [op EXCEPT ![s] = "ls"]
            /\ arg' = [arg EXCEPT ![s] = <<>>]
            /\ listing' = [listing EXCEPT ![s] = <<>>]
            /\ lasting' = [lasting EXCEPT ![s] = {}]
            /\ coming' = [coming EXCEPT ![s] = {}]
            /\ UNCHANGED <<tree, currentPath, commands, removed>>

\* The client leaves and another takes the worker: a new session_t at the root.
NewSession(s) == /\ pc[s] = "idle" /\ currentPath[s] # <<>>
                 /\ currentPath' = [currentPath EXCEPT ![s] = <<>>]
                 /\ UNCHANGED <<tree, pc, op, arg, target, result, lsVars, commands, removed>>

User(s) == \/ \E o \in Ops \ {"ls"}, a \in Args : Receive(s, o, a)
           \/ Receive(s, "ls", <<>>)
           \/ NewSession(s)

Worker(s) == \/ Resolve(s)
             \/ OpenDirForCd(s)
             \/ OpenDirForLs(s)
             \/ OpenDirFails(s)
             \/ CallFails(s)
             \/ Enter(s)
             \/ ReadEntry(s)
             \/ ListEnds(s)
             \/ MakeDir(s)
             \/ CreateFile(s)
             \/ RemovePath(s)
             \/ Reply(s)

Next == \E s \in Sessions : User(s) \/ Worker(s)

Spec == Init /\ [][Next]_vars

--------------------------------------------------------------------------------
(* Properties. *)

IsPath(p) == p \in Seq(Names) /\ Len(p) <= PathMax

\* A target is a path of names: no ".." is left in it to lead out of SERVER_BASE_DIR.
TypeOK == /\ \A p \in DOMAIN tree : IsPath(p) /\ tree[p] \in {"dir", "file"}
          /\ \A s \in Sessions : /\ IsPath(currentPath[s])
                                 /\ target[s] = NoPath \/ IsPath(target[s])
          /\ pc \in [Sessions -> Pcs] /\ op \in [Sessions -> Ops]
          /\ result \in [Sessions -> {"none", "ACK", "ERROR", "FAILED"}]
          /\ \A s \in Sessions : listing[s] \in Seq(Names \cup {NewLine})
          /\ lasting \in [Sessions -> SUBSET Names] /\ coming \in [Sessions -> SUBSET Names]
          /\ commands \in 0..MaxCommands
          /\ \A p \in removed : IsPath(p)

\* A session stands in a directory that does not exist only if some rm has removed it:
\* handle_cd never leads to a place that was not there.
LostOnlyByRemoval ==
    \A s \in Sessions : IsDir(currentPath[s]) \/ currentPath[s] \in removed

\* A successful ls names every entry that has been in the directory from opendir to the
\* end of readdir, whatever others make and remove in it meanwhile, in full and on a line
\* of its own; where no room is left for a line end, the next name may follow directly.
ListingWhole ==
    [][\A s \in Sessions : pc[s] = "list" /\ result'[s] = "ACK" =>
          LET text == listing'[s]
          IN  \A name \in lasting[s] : \E i \in 1..Len(text) :
                 /\ text[i] = name
                 /\ i < Len(text) /\ text[i + 1] # NewLine => Used(SubSeq(text, 1, i)) + 2 >= MaxText]_vars

\* The instant of a command is its system call; a session that passed opendir in
\* handle_cd counts as moved, in handle_ls as answered.
DS == INSTANCE DirectoryService WITH
        cwd     <- [s \in Sessions |-> IF pc[s] = "enter" THEN target[s] ELSE currentPath[s]],
        command <- [s \in Sessions |-> IF pc[s] = "idle" THEN [op |-> "none", arg |-> <<>>]
                                       ELSE [op |-> op[s], arg |-> arg[s]]],
        answer  <- [s \in Sessions |-> IF pc[s] \in {"enter", "list"} THEN "ACK" ELSE result[s]]

\* Every command takes effect at one instant, although cd checks first and moves later
\* and other sessions change the tree meanwhile, or none if its call fails; token by token, normalize_virtual_path
\* finds the path DirectoryService defines at once.
ImplementsDirectoryService == DS!Spec
================================================================================
