--------------------------- MODULE DirectoryService ----------------------------
(***************************************************************************)
(* What the directory commands promise: each takes effect at one instant   *)
(* between its arrival and its answer, on the path a reader of the command *)
(* would expect, and the answer says whether it did.                       *)
(***************************************************************************)
EXTENDS Integers, Sequences, FiniteSets

CONSTANTS Sessions, Names, Args, PathMax

VARIABLES
    tree,     \* what exists under SERVER_BASE_DIR: a function from paths to "dir" or "file"
    cwd,      \* where each session stands
    command,  \* the command each session waits for, NoCommand if none
    answer    \* its outcome, "none" as long as it has not taken effect, "FAILED" if the
              \* system has refused what the tree allows

vars == <<tree, cwd, command, answer>>

NoCommand == [op |-> "none", arg |-> <<>>]

\* Names and steps up among the components i to j of t.
Down(t, i, j) == Cardinality({k \in i..j : t[k] \in Names})
Up(t, i, j)   == Cardinality({k \in i..j : t[k] = ".."})

\* Of the first n components of t those that are left standing: the names that no ".."
\* behind them takes away.
Standing(t, n) == {i \in 1..n : /\ t[i] \in Names
                                /\ \A j \in i..n : Up(t, i + 1, j) <= Down(t, i + 1, j)}

\* Where arg leads from path p: the components left standing, in their order.
Destination(p, arg) ==
    LET t == p \o arg
        standing == Standing(t, Len(t))
        Place(i) == Cardinality({j \in standing : j <= i})
    IN  [k \in 1..Cardinality(standing) |-> t[CHOOSE i \in standing : Place(i) = k]]

Acceptable(p, arg) == arg # <<>> /\ arg[1] # "/" /\ Len(p) + Len(arg) <= PathMax

IsDir(p)  == p \in DOMAIN tree /\ tree[p] = "dir"
Parent(p) == SubSeq(p, 1, Len(p) - 1)
Empty(p)  == \A q \in DOMAIN tree : q = <<>> \/ Parent(q) # p

\* The server's own directory always exists above SERVER_BASE_DIR.
HasParent(p) == p = <<>> \/ IsDir(Parent(p))

With(p, kind) == [q \in DOMAIN tree \cup {p} |-> IF q = p THEN kind ELSE tree[q]]
Without(p)    == [q \in DOMAIN tree \ {p} |-> tree[q]]

Init == /\ tree = [p \in {<<>>} |-> "dir"]
        /\ cwd = [s \in Sessions |-> <<>>]
        /\ command = [s \in Sessions |-> NoCommand]
        /\ answer = [s \in Sessions |-> "none"]

Ask(s, c) == /\ command[s] = NoCommand
             /\ command' = [command EXCEPT ![s] = c]
             /\ UNCHANGED <<tree, cwd, answer>>

Can(op, p) == CASE op = "cd"    -> IsDir(p)
                [] op = "ls"    -> IsDir(p)
                [] op = "mkdir" -> p \notin DOMAIN tree /\ HasParent(p)
                [] op = "puts"  -> ~IsDir(p) /\ HasParent(p)
                [] op = "rm"    -> p \in DOMAIN tree /\ (IsDir(p) => Empty(p))

Effect(s, op, p) == /\ tree' = CASE op = "mkdir" -> With(p, "dir")
                                 [] op = "puts"  -> With(p, "file")
                                 [] op = "rm"    -> Without(p)
                                 [] OTHER        -> tree
                    /\ cwd' = IF op = "cd" THEN [cwd EXCEPT ![s] = p] ELSE cwd

Do(s) == LET c == command[s]
             p == IF c.op = "ls" THEN cwd[s] ELSE Destination(cwd[s], c.arg)
         IN  /\ c # NoCommand /\ answer[s] = "none"
             /\ IF (c.op = "ls" \/ Acceptable(cwd[s], c.arg)) /\ Can(c.op, p)
                THEN answer' = [answer EXCEPT ![s] = "ACK"] /\ Effect(s, c.op, p)
                ELSE answer' = [answer EXCEPT ![s] = "ERROR"] /\ UNCHANGED <<tree, cwd>>
             /\ UNCHANGED command

\* The system refuses what could be done.
Fail(s) == LET c == command[s]
           IN  /\ c # NoCommand /\ answer[s] = "none"
               /\ c.op = "ls" \/ Acceptable(cwd[s], c.arg)
               /\ answer' = [answer EXCEPT ![s] = "FAILED"]
               /\ UNCHANGED <<tree, cwd, command>>

\* Too many names for one answer.
Refuse(s) == /\ command[s].op = "ls" /\ answer[s] = "ACK"
             /\ answer' = [answer EXCEPT ![s] = "ERROR"]
             /\ UNCHANGED <<tree, cwd, command>>

Answer(s) == /\ answer[s] # "none"
             /\ command' = [command EXCEPT ![s] = NoCommand]
             /\ answer' = [answer EXCEPT ![s] = "none"]
             /\ UNCHANGED <<tree, cwd>>

\* A new connection starts at the root.
Reconnect(s) == /\ command[s] = NoCommand
                /\ cwd' = [cwd EXCEPT ![s] = <<>>]
                /\ UNCHANGED <<tree, command, answer>>

Commands == [op : {"cd", "rm", "mkdir", "puts"}, arg : Args] \cup [op : {"ls"}, arg : {<<>>}]

Next == \E s \in Sessions : \/ \E c \in Commands : Ask(s, c)
                            \/ Do(s) \/ Fail(s) \/ Refuse(s)
                            \/ Answer(s)
                            \/ Reconnect(s)

Spec == Init /\ [][Next]_vars
================================================================================
