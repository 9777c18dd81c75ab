------------------------------- MODULE LogProofs -------------------------------
(***************************************************************************)
(* The safety properties of Log, for any number of workers and messages    *)
(* and any config.ini.                                                     *)
(***************************************************************************)
EXTENDS Log, TLAPS

Lines == Threads \X Nat

Types == /\ pc \in [Threads -> {"out", "lock", "print", "flush"}]
         /\ fp \in [Threads -> Streams \cup {"none"}]
         /\ calls \in [Threads -> Nat]
         /\ DOMAIN msg = Threads
         /\ \A t \in Threads : pc[t] # "out" =>
               /\ msg[t] \in Lines /\ msg[t][1] = t /\ msg[t][2] < calls[t]
         /\ out \in [Streams -> Seq(Lines)] /\ buffer \in [Streams -> Seq(Lines)]
         /\ stream \in Streams \cup {"none"}
         /\ workers \subseteq Workers

Starting == {"readLevel", "readFile", "initLog"}

\* There are workers only between init_thread_pool and the last join, and only they and
\* main, unless it waits or has done, are in log_write.
Alone == /\ mainPc \in Starting \cup {"start", "closeLog", "destroy", "exited"} => workers = {}
         /\ mainPc \in {"closeLog", "destroy", "exited"} => pc[Main] = "out"
         /\ \A t \in Workers : pc[t] # "out" => t \in workers

\* The mutex is held by who prints, and the stream it prints to is open.
Held == /\ \A t \in Threads : pc[t] \in {"print", "flush"} =>
              mutex = t /\ fp[t] \in Streams /\ (fp[t] = "file" => stream = "file")
        /\ stream = "file" => fileOpen /\ mainPc \notin Starting
        /\ mutex = "destroyed" => mainPc = "exited"

\* Nothing stays in a buffer when the mutex is free, and nothing goes to stdout once the
\* file is used.
Buffers == /\ alive => \A s \in Streams :
                 buffer[s] = <<>> \/ \E t \in Threads : pc[t] = "flush" /\ fp[t] = s
           /\ alive => \A t \in Threads : pc[t] = "flush" => buffer[fp[t]] = <<msg[t]>>
           /\ \A t \in Threads : pc[t] \in {"print", "flush"} /\ fp[t] = "stdout" => out["file"] = <<>>
           /\ mainPc \notin {"destroy", "exited"} /\ stream # "file" => out["file"] = <<>>

\* What is written is older than what a thread writes now.
Order == /\ \A i \in 1..Len(Written) : Written[i][2] < calls[Written[i][1]]
         /\ \A i \in 1..Len(Written), t \in Threads :
               pc[t] # "out" /\ Written[i][1] = t => Written[i][2] < msg[t][2]
         /\ ReturnedIsKept

LogInv == Types /\ Alone /\ Held /\ Buffers /\ Order

LEMMA WrittenType ==
    ASSUME Types
    PROVE  Written \in Seq(Lines)
  BY DEF Types, Written, Streams

LEMMA LogInit == Init => LogInv
  <1> SUFFICES ASSUME Init PROVE LogInv  OBVIOUS
  <1>1. Types
    <2>1. <<>> \in Seq(Lines)  OBVIOUS
    <2>2. out \in [Streams -> Seq(Lines)]
      <3>1. out = [s \in Streams |-> <<>>]  BY DEF Init
      <3> QED  BY <2>1, <3>1
    <2>3. buffer \in [Streams -> Seq(Lines)]
      <3>1. buffer = [s \in Streams |-> <<>>]  BY DEF Init
      <3> QED  BY <2>1, <3>1
    <2>4. /\ pc = [t \in Threads |-> "out"] /\ calls = [t \in Threads |-> 0]
          /\ fp = [t \in Threads |-> "none"] /\ DOMAIN msg = Threads
          /\ stream = "none" /\ workers = {}
      BY DEF Init
    <2> QED  BY <2>2, <2>3, <2>4 DEF Types
  <1>2. Alone /\ Held
    <2>1. \A t \in Threads : pc[t] = "out"  BY DEF Init
    <2>2. mainPc = "readLevel" /\ workers = {} /\ stream = "none" /\ mutex = "free"  BY DEF Init
    <2>3. Main \in Threads /\ Workers \subseteq Threads  BY DEF Threads
    <2> QED  BY <2>1, <2>2, <2>3 DEF Alone, Held
  <1>3. Buffers  BY DEF Init, Buffers, Streams
  <1>4. Order
    <2>1. out["stdout"] = <<>> /\ out["file"] = <<>>  BY DEF Init, Streams
    <2>2. Len(Written) = 0  BY <2>1 DEF Written
    <2>3. returned = {}  BY DEF Init
    <2> QED  BY <2>2, <2>3 DEF Order, ReturnedIsKept
  <1> QED  BY <1>1, <1>2, <1>3, <1>4 DEF LogInv

\* log_write is entered, by main or a worker.
LEMMA LogCall ==
    ASSUME LogInv, NEW t \in Threads, NEW l, Call(t, l),
           t = Main \/ t \in workers', workers' \in SUBSET Workers, workers \subseteq workers',
           mainPc' \in Starting \cup {"start"} => workers' = {},
           mainPc' \in Starting => mainPc \in Starting,
           mainPc \notin {"closeLog", "destroy", "exited"},
           mainPc' \notin {"closeLog", "destroy", "exited"}
    PROVE  LogInv'
  <1>1. /\ pc[t] = "out" /\ alive' = alive /\ returned' = returned
        /\ calls' = [calls EXCEPT ![t] = @ + 1]
        /\ UNCHANGED <<stream, mutex, fileOpen, buffer, out, fp>>
        /\ \/ UNCHANGED <<pc, msg>>
           \/ /\ pc' = [pc EXCEPT ![t] = "lock"]
              /\ msg' = [msg EXCEPT ![t] = <<t, calls[t]>>]
    BY DEF Call, logVars
  <1>2. /\ \A u \in Threads \ {t} : pc'[u] = pc[u] /\ msg'[u] = msg[u] /\ calls'[u] = calls[u]
        /\ calls'[t] = calls[t] + 1 /\ calls[t] \in Nat
        /\ \/ pc'[t] = "out"
           \/ pc'[t] = "lock" /\ msg'[t] = <<t, calls[t]>>
    <2>1. DOMAIN pc = Threads /\ DOMAIN msg = Threads /\ DOMAIN calls = Threads
      BY DEF LogInv, Types
    <2>2. calls[t] \in Nat  BY DEF LogInv, Types
    <2>3. /\ \A u \in Threads \ {t} : calls'[u] = calls[u]
          /\ calls'[t] = calls[t] + 1
      BY <1>1, <2>1
    <2>4. CASE UNCHANGED <<pc, msg>>  BY <1>1, <2>2, <2>3, <2>4
    <2>5. CASE pc' = [pc EXCEPT ![t] = "lock"] /\ msg' = [msg EXCEPT ![t] = <<t, calls[t]>>]
      BY <2>1, <2>2, <2>3, <2>5
    <2> QED  BY <1>1, <2>4, <2>5
  <1>3. Types'
    <2>1. <<t, calls[t]>> \in Lines /\ calls[t] \in Nat  BY DEF LogInv, Types, Lines
    <2>2. pc' \in [Threads -> {"out", "lock", "print", "flush"}] /\ DOMAIN msg' = Threads
      <3>1. CASE UNCHANGED <<pc, msg>>  BY <3>1 DEF LogInv, Types
      <3>2. CASE pc' = [pc EXCEPT ![t] = "lock"] /\ msg' = [msg EXCEPT ![t] = <<t, calls[t]>>]
        BY <3>2 DEF LogInv, Types
      <3> QED  BY <1>1, <3>1, <3>2
    <2>4. calls' \in [Threads -> Nat]
      <3>1. calls \in [Threads -> Nat] /\ calls[t] + 1 \in Nat  BY <1>2 DEF LogInv, Types
      <3> QED  BY <1>1, <3>1
    <2>3. \A u \in Threads : pc'[u] # "out" =>
             /\ msg'[u] \in Lines /\ msg'[u][1] = u /\ msg'[u][2] < calls'[u]
      <3>1. SUFFICES ASSUME NEW u \in Threads, pc'[u] # "out"
                     PROVE  msg'[u] \in Lines /\ msg'[u][1] = u /\ msg'[u][2] < calls'[u]
        OBVIOUS
      <3>2. CASE u = t  BY <1>2, <2>1, <3>1, <3>2
      <3>3. CASE u # t  BY <1>2, <3>1, <3>3 DEF LogInv, Types
      <3> QED  BY <3>2, <3>3
    <2> QED  BY <1>1, <2>2, <2>3, <2>4 DEF LogInv, Types
  <1>4. Alone'
    <2>1. ASSUME NEW u \in Workers, pc'[u] # "out" PROVE u \in workers'
      BY <1>2, <2>1, LogAssumption DEF LogInv, Alone, Threads
    <2> QED  BY <2>1 DEF Alone
  <1>5. Held'  BY <1>1, <1>2 DEF LogInv, Held
  <1>6. Buffers'  BY <1>1, <1>2 DEF LogInv, Buffers
  <1>7. Order'
    <2>1. Written' = Written  BY <1>1 DEF Written
    <2>2. \A i \in 1..Len(Written) : Written[i][1] \in Threads /\ Written[i][2] \in Nat
      BY WrittenType DEF LogInv, Lines
    <2>3. \A u \in Threads : calls[u] \in Nat  BY DEF LogInv, Types
    <2>4. ReturnedIsKept'  BY <1>1, <2>1 DEF LogInv, Order, ReturnedIsKept
    <2>5. \A i \in 1..Len(Written) : Written[i][2] < calls'[Written[i][1]]
      BY <1>2, <2>2, <2>3 DEF LogInv, Order
    <2>6. \A i \in 1..Len(Written), u \in Threads :
             pc'[u] # "out" /\ Written[i][1] = u => Written[i][2] < msg'[u][2]
      <3>1. SUFFICES ASSUME NEW i \in 1..Len(Written), NEW u \in Threads,
                            pc'[u] # "out", Written[i][1] = u
                     PROVE  Written[i][2] < msg'[u][2]
        OBVIOUS
      <3>2. CASE u = t  BY <1>2, <3>1, <3>2 DEF LogInv, Order
      <3>3. CASE u # t  BY <1>2, <3>1, <3>3 DEF LogInv, Order
      <3> QED  BY <3>2, <3>3
    <2> QED  BY <2>1, <2>4, <2>5, <2>6 DEF Order
  <1> QED  BY <1>3, <1>4, <1>5, <1>6, <1>7 DEF LogInv

\* main goes on, and nobody is in the log meanwhile but who was before.
LEMMA LogMain ==
    ASSUME LogInv, UNCHANGED <<callVars, out, buffer, returned>>,
           stream' \in Streams \cup {"none"}, workers' \subseteq Workers, alive' = alive,
           Alone', Held',
           mainPc' \notin {"destroy", "exited"} /\ stream' # "file" => out["file"] = <<>>
    PROVE  LogInv'
  <1>1. UNCHANGED <<pc, msg, fp, calls>>  BY DEF callVars
  <1>2. Types'  BY <1>1 DEF LogInv, Types
  <1>3. Buffers'  BY <1>1 DEF LogInv, Buffers
  <1>4. Order'
    <2>1. Written' = Written  BY DEF Written
    <2> QED  BY <1>1, <2>1 DEF LogInv, Order, ReturnedIsKept
  <1> QED  BY <1>2, <1>3, <1>4 DEF LogInv

LEMMA LogLock ==
    ASSUME LogInv, NEW t \in Threads, Lock(t)
    PROVE  LogInv'
  <1>1. /\ pc[t] = "lock" /\ mutex' = t /\ mutex \in {"free", "destroyed"}
        /\ fp' = [fp EXCEPT ![t] = IF stream = "none" THEN "stdout" ELSE stream]
        /\ pc' = [pc EXCEPT ![t] = "print"]
        /\ UNCHANGED <<mainPc, stream, fileOpen, buffer, out, msg, calls, workers, alive, returned>>
    BY DEF Lock, poolVars
  <1>2. /\ \A u \in Threads \ {t} : pc'[u] = pc[u] /\ fp'[u] = fp[u]
        /\ pc'[t] = "print" /\ fp'[t] = (IF stream = "none" THEN "stdout" ELSE stream)
        /\ fp'[t] \in Streams
    BY <1>1 DEF LogInv, Types, Streams
  <1>3. Types'  BY <1>1, <1>2 DEF LogInv, Types
  <1>4. Alone'  BY <1>1, <1>2 DEF LogInv, Alone, Threads
  \* Nobody else holds the mutex, and the log is not closed.
  <1>5. /\ \A u \in Threads : pc[u] \notin {"print", "flush"}
        /\ t # "destroyed"
    <2>1. \A u \in Threads : u \notin {"free", "destroyed"}  BY LogAssumption DEF Threads
    <2> QED  BY <1>1, <2>1 DEF LogInv, Held
  <1>6. Held'
    <2>1. fp'[t] = "file" => stream = "file"  BY <1>2
    <2> QED  BY <1>1, <1>2, <1>5, <2>1 DEF LogInv, Held
  <1>7. mainPc \notin {"destroy", "exited"}
    <2>1. CASE t = Main  BY <1>1, <2>1 DEF LogInv, Alone
    <2>2. CASE t \in Workers  BY <1>1, <2>2 DEF LogInv, Alone
    <2> QED  BY <2>1, <2>2 DEF Threads
  <1>8. Buffers'
    <2>1. fp'[t] = "stdout" => out["file"] = <<>>  BY <1>2, <1>7 DEF LogInv, Buffers
    <2> QED  BY <1>1, <1>2, <1>5, <2>1 DEF LogInv, Buffers
  <1>9. Order'
    <2>1. Written' = Written  BY <1>1 DEF Written
    <2>2. \A u \in Threads : pc'[u] # "out" => pc[u] # "out"  BY <1>1, <1>2
    <2> QED  BY <1>1, <2>1, <2>2 DEF LogInv, Order, ReturnedIsKept
  <1> QED  BY <1>3, <1>4, <1>6, <1>8, <1>9 DEF LogInv

LEMMA LogWriteLine ==
    ASSUME LogInv, NEW t \in Threads, WriteLine(t)
    PROVE  LogInv'
  <1>1. /\ pc[t] = "print" /\ alive
        /\ buffer' = [buffer EXCEPT ![fp[t]] = Append(@, msg[t])]
        /\ pc' = [pc EXCEPT ![t] = "flush"]
        /\ UNCHANGED <<mainPc, stream, mutex, fileOpen, out, msg, fp, calls, workers, alive, returned>>
    BY DEF WriteLine, poolVars
  <1>2. /\ \A u \in Threads \ {t} : pc'[u] = pc[u]
        /\ pc'[t] = "flush" /\ fp[t] \in Streams /\ msg[t] \in Lines
    BY <1>1 DEF LogInv, Types, Held
  <1>3. \A u \in Threads : pc[u] # "flush"  BY <1>1 DEF LogInv, Held
  <1>4. buffer[fp[t]] = <<>>  BY <1>1, <1>2, <1>3 DEF LogInv, Buffers
  <1>5. /\ buffer'[fp[t]] = <<msg[t]>>
        /\ \A s \in Streams \ {fp[t]} : buffer'[s] = buffer[s]
        /\ buffer' \in [Streams -> Seq(Lines)]
    <2>1. DOMAIN buffer = Streams /\ buffer \in [Streams -> Seq(Lines)]  BY DEF LogInv, Types
    <2>2. Append(<<>>, msg[t]) = <<msg[t]>> /\ <<msg[t]>> \in Seq(Lines)  BY <1>2
    <2>3. buffer' = [buffer EXCEPT ![fp[t]] = <<msg[t]>>]  BY <1>1, <1>4, <2>2
    <2> QED  BY <1>2, <2>1, <2>2, <2>3
  <1>6. Types'
    <2>1. pc' \in [Threads -> {"out", "lock", "print", "flush"}]  BY <1>1 DEF LogInv, Types
    <2> QED  BY <1>1, <1>2, <1>5, <2>1 DEF LogInv, Types
  <1>7. Alone'  BY <1>1, <1>2 DEF LogInv, Alone, Threads
  <1>8. Held'  BY <1>1, <1>2 DEF LogInv, Held
  <1>9. Buffers'  BY <1>1, <1>2, <1>3, <1>5 DEF LogInv, Buffers
  <1>10. Order'
    <2>1. Written' = Written  BY <1>1 DEF Written
    <2>2. \A u \in Threads : pc'[u] # "out" => pc[u] # "out"  BY <1>1, <1>2
    <2> QED  BY <1>1, <2>1, <2>2 DEF LogInv, Order, ReturnedIsKept
  <1> QED  BY <1>6, <1>7, <1>8, <1>9, <1>10 DEF LogInv

\* One line more.
OneMore(old, new, m) == /\ Len(new) = Len(old) + 1 /\ new[Len(old) + 1] = m
                        /\ \A i \in 1..Len(old) : new[i] = old[i]

LEMMA ConcatOne ==
    ASSUME NEW T, NEW p \in Seq(T), NEW q \in Seq(T), NEW m \in T
    PROVE  /\ OneMore(p \o q, p \o (q \o <<m>>), m)
           /\ q = <<>> => OneMore(p \o q, (p \o <<m>>) \o q, m)
  <1>1. OneMore(p \o q, p \o (q \o <<m>>), m)  BY DEF OneMore
  <1>2. q = <<>> => OneMore(p \o q, (p \o <<m>>) \o q, m)  BY DEF OneMore
  <1> QED  BY <1>1, <1>2

LEMMA LogFlush ==
    ASSUME LogInv, NEW t \in Threads, Flush(t)
    PROVE  LogInv'
  <1>1. /\ pc[t] = "flush" /\ alive /\ mutex' = "free"
        /\ out' = [out EXCEPT ![fp[t]] = @ \o buffer[fp[t]]]
        /\ buffer' = [buffer EXCEPT ![fp[t]] = <<>>]
        /\ pc' = [pc EXCEPT ![t] = "out"]
        /\ returned' = returned \cup {msg[t]}
        /\ UNCHANGED <<mainPc, stream, fileOpen, msg, fp, calls, workers, alive>>
    BY DEF Flush, Flushed, poolVars
  <1>2. /\ \A u \in Threads \ {t} : pc'[u] = pc[u]
        /\ pc'[t] = "out" /\ fp[t] \in Streams
        /\ msg[t] \in Lines /\ msg[t][1] = t /\ msg[t][2] < calls[t]
    BY <1>1 DEF LogInv, Types, Held
  <1>3. \A u \in Threads \ {t} : pc[u] \notin {"print", "flush"}  BY <1>1 DEF LogInv, Held
  <1>4. buffer[fp[t]] = <<msg[t]>>  BY <1>1 DEF LogInv, Buffers
  <1>5. /\ out'[fp[t]] = out[fp[t]] \o <<msg[t]>>
        /\ \A s \in Streams \ {fp[t]} : out'[s] = out[s] /\ buffer'[s] = buffer[s]
        /\ buffer'[fp[t]] = <<>>
    BY <1>1, <1>2, <1>4 DEF LogInv, Types
  <1>6. Types'
    <2>1. pc' \in [Threads -> {"out", "lock", "print", "flush"}]  BY <1>1 DEF LogInv, Types
    <2>2. out[fp[t]] \o <<msg[t]>> \in Seq(Lines)
      <3>1. out[fp[t]] \in Seq(Lines)  BY <1>2 DEF LogInv, Types
      <3> QED  BY <1>2, <3>1
    <2>3. out' \in [Streams -> Seq(Lines)]  BY <1>1, <1>4, <2>2 DEF LogInv, Types
    <2>4. buffer' \in [Streams -> Seq(Lines)]
      <3>1. <<>> \in Seq(Lines)  OBVIOUS
      <3> QED  BY <1>1, <3>1 DEF LogInv, Types
    <2> QED  BY <1>1, <1>2, <2>1, <2>3, <2>4 DEF LogInv, Types
  <1>7. Alone'  BY <1>1, <1>2 DEF LogInv, Alone, Threads
  <1>8. mutex # "destroyed"
    <2>1. t \notin {"free", "destroyed"}  BY LogAssumption DEF Threads
    <2> QED  BY <1>1, <2>1 DEF LogInv, Held
  <1>9. Held'  BY <1>1, <1>2, <1>3 DEF LogInv, Held
  <1>10. mainPc \notin {"destroy", "exited"}
    <2>1. CASE t = Main  BY <1>1, <2>1 DEF LogInv, Alone
    <2>2. CASE t \in Workers  BY <1>1, <2>2 DEF LogInv, Alone
    <2> QED  BY <2>1, <2>2 DEF Threads
  <1>11. Buffers'
    <2>1. stream # "file" => fp[t] = "stdout" \/ out["file"] = <<>>
      BY <1>2, <1>10 DEF LogInv, Buffers
    <2>2. \A s \in Streams : buffer'[s] = <<>>
      <3>1. SUFFICES ASSUME NEW s \in Streams, s # fp[t] PROVE buffer[s] = <<>>  BY <1>5
      <3> QED  BY <1>1, <1>3, <3>1 DEF LogInv, Buffers
    <2>3. \A u \in Threads : pc'[u] \notin {"print", "flush"}  BY <1>2, <1>3
    <2>4. stream # "file" => out'["file"] = <<>>
      <3>1. stream # "file" => fp[t] # "file" /\ out["file"] = <<>>
        BY <1>1, <1>10 DEF LogInv, Buffers, Held
      <3> QED  BY <1>5, <3>1 DEF Streams
    <2> QED  BY <1>1, <2>2, <2>3, <2>4 DEF Buffers
  <1>12. Order'
    <2>1. OneMore(Written, Written', msg[t])
      <3>1. out["stdout"] \in Seq(Lines) /\ out["file"] \in Seq(Lines)
        BY DEF LogInv, Types, Streams
      <3>2. CASE fp[t] = "file"
        <4>1. out'["file"] = out["file"] \o <<msg[t]>> /\ out'["stdout"] = out["stdout"]
          BY <1>5, <3>2 DEF Streams
        <4> QED  BY <1>2, <3>1, <4>1, ConcatOne DEF Written
      <3>3. CASE fp[t] = "stdout"
        <4>1. out'["stdout"] = out["stdout"] \o <<msg[t]>> /\ out'["file"] = out["file"]
          BY <1>5, <3>3 DEF Streams
        <4>2. out["file"] = <<>>  BY <1>1, <3>3 DEF LogInv, Buffers
        <4> QED  BY <1>2, <3>1, <4>1, <4>2, ConcatOne DEF Written
      <3> QED  BY <1>2, <3>2, <3>3 DEF Streams
    <2>2. Len(Written) \in Nat  BY WrittenType DEF LogInv
    <2>3. /\ Len(Written') = Len(Written) + 1 /\ Written'[Len(Written) + 1] = msg[t]
          /\ \A i \in 1..Len(Written) : Written'[i] = Written[i]
      BY <2>1 DEF OneMore
    <2>4. \A i \in 1..Len(Written') : Written'[i][2] < calls'[Written'[i][1]]
      BY <1>1, <1>2, <2>2, <2>3 DEF LogInv, Order
    <2>5. \A i \in 1..Len(Written'), u \in Threads :
             pc'[u] # "out" /\ Written'[i][1] = u => Written'[i][2] < msg'[u][2]
      <3>1. SUFFICES ASSUME NEW i \in 1..Len(Written'), NEW u \in Threads,
                            pc'[u] # "out", Written'[i][1] = u
                     PROVE  Written'[i][2] < msg[u][2]
        BY <1>1
      <3>2. u # t /\ pc[u] # "out"  BY <1>2, <3>1
      <3>3. i \in 1..Len(Written) /\ Written'[i] = Written[i]
        BY <1>2, <2>2, <2>3, <3>1, <3>2
      <3> QED  BY <3>1, <3>2, <3>3 DEF LogInv, Order
    <2>6. \A i, j \in 1..Len(Written') :
             i < j /\ Written'[i][1] = Written'[j][1] => Written'[i][2] < Written'[j][2]
      <3>1. SUFFICES ASSUME NEW i \in 1..Len(Written'), NEW j \in 1..Len(Written'), i < j,
                            Written'[i][1] = Written'[j][1]
                     PROVE  Written'[i][2] < Written'[j][2]
        OBVIOUS
      <3>2. i \in 1..Len(Written) /\ Written'[i] = Written[i]  BY <2>2, <2>3, <3>1
      <3>3. CASE j \in 1..Len(Written)
        BY <2>3, <3>1, <3>2, <3>3 DEF LogInv, Order, ReturnedIsKept
      <3>4. CASE j = Len(Written) + 1
        BY <1>1, <1>2, <2>3, <3>1, <3>2, <3>4 DEF LogInv, Order
      <3> QED  BY <2>2, <2>3, <3>3, <3>4
    <2>7. \A m \in returned' : m \in Range(Written')
      <3>1. Written' \in Seq(Lines) /\ Written \in Seq(Lines)
        BY <1>6 DEF LogInv, Types, Written, Streams
      <3>2. DOMAIN Written' = 1..Len(Written') /\ DOMAIN Written = 1..Len(Written)  BY <3>1
      <3>3. SUFFICES ASSUME NEW m \in returned' PROVE \E i \in 1..Len(Written') : Written'[i] = m
        BY <3>2 DEF Range
      <3>4. CASE m \in returned
        <4>1. \E i \in 1..Len(Written) : Written[i] = m
          BY <3>2, <3>4 DEF LogInv, Order, ReturnedIsKept, Range
        <4> QED  BY <2>2, <2>3, <4>1
      <3>5. CASE m = msg[t]  BY <2>2, <2>3, <3>5
      <3> QED  BY <1>1, <3>3, <3>4, <3>5
    <2> QED  BY <2>4, <2>5, <2>6, <2>7 DEF Order, ReturnedIsKept
  <1> QED  BY <1>6, <1>7, <1>9, <1>11, <1>12 DEF LogInv

LEMMA LogCloseLog ==
    ASSUME LogInv, CloseLog
    PROVE  LogInv'
  <1>1. /\ mainPc = "closeLog" /\ mainPc' = "destroy" /\ mutex = "free" /\ alive
        /\ stream' = "stdout"
        /\ IF stream = "file" THEN Flushed("file") ELSE UNCHANGED <<buffer, out>>
        /\ UNCHANGED <<mutex, callVars, workers, alive, returned>>
    BY DEF CloseLog, MainAt, poolVars
  <1>2. \A t \in Threads : pc[t] = "out"  BY <1>1 DEF LogInv, Alone, Threads
  <1>3. out' = out /\ buffer' = buffer
    <2>1. buffer["file"] = <<>> /\ out["file"] \in Seq(Lines)
      BY <1>1, <1>2 DEF LogInv, Buffers, Types, Streams
    <2>2. out["file"] \o buffer["file"] = out["file"]  BY <2>1
    <2> QED  BY <1>1, <2>1, <2>2 DEF Flushed, LogInv, Types
  <1>4. Alone'  BY <1>1, <1>2 DEF LogInv, Alone, callVars, Threads
  <1>5. Held'  BY <1>1, <1>2 DEF LogInv, Held, callVars
  <1> QED  BY <1>1, <1>3, <1>4, <1>5, LogMain DEF Streams, LogInv, Types

LEMMA LogCrash ==
    ASSUME LogInv, Crash
    PROVE  LogInv'
  <1>1. /\ alive' = FALSE /\ buffer' = [s \in Streams |-> <<>>]
        /\ UNCHANGED <<mainPc, stream, mutex, fileOpen, out, pc, msg, fp, calls, workers, returned>>
    BY DEF Crash, callVars, poolVars
  <1>2. buffer' \in [Streams -> Seq(Lines)]
    <2>1. <<>> \in Seq(Lines)  OBVIOUS
    <2> QED  BY <1>1, <2>1
  <1>3. Types'  BY <1>1, <1>2 DEF LogInv, Types
  <1>4. Alone' /\ Held'  BY <1>1 DEF LogInv, Alone, Held
  <1>5. Buffers'  BY <1>1 DEF LogInv, Buffers
  <1>6. Order'
    <2>1. Written' = Written  BY <1>1 DEF Written
    <2> QED  BY <1>1, <2>1 DEF LogInv, Order, ReturnedIsKept
  <1> QED  BY <1>3, <1>4, <1>5, <1>6 DEF LogInv

LEMMA LogNext == LogInv /\ [Next]_vars => LogInv'
  <1> SUFFICES ASSUME LogInv, [Next]_vars PROVE LogInv'  OBVIOUS
  <1>1. Main \in Threads /\ Workers \subseteq Threads  BY DEF Threads
  <1>2. workers \subseteq Workers  BY DEF LogInv, Types
  <1>3. ASSUME NEW t \in Threads, LogWrite(t) PROVE LogInv'
    BY <1>3, LogLock, LogWriteLine, LogFlush DEF LogWrite
  <1>4. CASE StopFd \/ \E l \in Levels : Accept(l)
    <2>1. PICK l \in Levels : Accept(l) \/ StopFd  BY <1>4 DEF Levels, DEBUG, ERROR
    <2>2. PICK k : Call(Main, k) /\ mainPc \in {"serve", "stopFds"} /\ mainPc' = mainPc /\ workers' = workers
      BY <2>1 DEF Accept, StopFd, MainAt, poolVars
    <2>3. mainPc \notin Starting \cup {"start", "closeLog", "destroy", "exited"}  BY <2>2 DEF Starting
    <2> QED  BY <1>1, <1>2, <2>2, <2>3, LogCall
  <1>5. CASE \E l \in Levels, t \in Workers : WorkerLogs(t, l)
    <2>1. PICK l \in Levels, t \in Workers : WorkerLogs(t, l)  BY <1>5
    <2>2. Call(t, l) /\ t \in workers /\ mainPc' = mainPc /\ workers' = workers
      BY <2>1 DEF WorkerLogs, poolVars
    <2>3. mainPc \notin Starting \cup {"start", "closeLog", "destroy", "exited"}
      BY <2>2 DEF LogInv, Alone
    <2> QED  BY <1>1, <1>2, <2>2, <2>3, LogCall
  <1>6. ASSUME NEW t \in Workers, WorkerEnds(t) PROVE LogInv'
    <2>1. /\ pc[t] = "out" /\ workers' = workers \ {t}
          /\ UNCHANGED <<mainPc, logVars, callVars, alive, returned>>
      BY <1>6 DEF WorkerEnds
    <2>2. UNCHANGED <<pc, stream, mutex, fileOpen, buffer, out, fp>>
      BY <2>1 DEF logVars, callVars
    <2>3. Alone' /\ Held'  BY <2>1, <2>2 DEF LogInv, Alone, Held
    <2>4. mainPc \notin {"destroy", "exited"} /\ stream # "file" => out["file"] = <<>>
      BY <1>6 DEF LogInv, Buffers, WorkerEnds
    <2> QED  BY <1>2, <2>1, <2>2, <2>3, <2>4, LogMain DEF LogInv, Types
  <1>7. CASE ReadLevel \/ ReadFile \/ Start \/ Shutdown
    <2>1. PICK l : Call(Main, l)  BY <1>7 DEF ReadLevel, ReadFile, Start, Shutdown
    <2>2. \/ /\ mainPc \in {"readLevel", "readFile"} /\ mainPc' \in {"readFile", "initLog"}
             /\ workers' = workers
          \/ mainPc = "start" /\ mainPc' = "serve" /\ workers' = Workers
          \/ mainPc = "serve" /\ mainPc' = "stop" /\ workers' = workers
      BY <1>7 DEF ReadLevel, ReadFile, Start, Shutdown, MainAt, poolVars
    <2>3. mainPc \in {"readLevel", "readFile"} => workers = {}
      BY DEF LogInv, Alone, Starting
    <2>4. /\ mainPc' \in Starting \cup {"start"} => workers' = {}
          /\ mainPc' \in Starting => mainPc \in Starting
          /\ mainPc \notin {"closeLog", "destroy", "exited"}
          /\ mainPc' \notin {"closeLog", "destroy", "exited"}
          /\ workers' \in SUBSET Workers /\ workers \subseteq workers'
      BY <1>2, <2>2, <2>3 DEF Starting
    <2> QED  BY <1>1, <2>1, <2>4, LogCall
  <1>8. CASE InitLog
    <2>1. /\ mainPc = "initLog" /\ pc[Main] = "out" /\ alive /\ mainPc' = "start"
          /\ stream' = IF fileOpen' THEN "file" ELSE "stdout"
          /\ UNCHANGED <<mutex, buffer, out, callVars, workers, alive, returned>>
      BY <1>8 DEF InitLog, MainAt, poolVars
    <2>2. \A t \in Threads : pc[t] = "out"  BY <2>1 DEF LogInv, Alone, Threads, Starting
    <2>3. out["file"] = <<>>  BY <2>1 DEF LogInv, Buffers, Held, Starting
    <2>4. Alone'  BY <2>1, <2>2 DEF LogInv, Alone, callVars, Threads, Starting
    <2>5. Held'  BY <2>1, <2>2 DEF LogInv, Held, callVars, Starting
    <2> QED  BY <1>2, <2>1, <2>3, <2>4, <2>5, LogMain DEF Streams
  <1>9. CASE StopPool \/ FdsStopped \/ JoinWorkers \/ DestroyMutex
    <2>1. /\ UNCHANGED <<callVars, out, buffer, returned, stream, fileOpen, workers, alive>>
          /\ pc[Main] = "out"
          /\ \/ mainPc' = "stopFds" /\ mainPc = "stop" /\ mutex' = mutex
             \/ mainPc' = "join" /\ mainPc = "stopFds" /\ mutex' = mutex
             \/ mainPc' = "closeLog" /\ workers = {} /\ mainPc = "join" /\ mutex' = mutex
             \/ mainPc' = "exited" /\ mainPc = "destroy" /\ mutex' = "destroyed"
      BY <1>9 DEF StopPool, FdsStopped, JoinWorkers, DestroyMutex, MainAt, poolVars, logVars
    <2>2. UNCHANGED <<pc, fp>>  BY <2>1 DEF callVars
    <2>3. Alone'  BY <2>1, <2>2 DEF LogInv, Alone, Starting
    <2>4. Held'
      <3>1. \A t \in Threads : mutex' # mutex => pc[t] = "out"
        BY <2>1 DEF LogInv, Alone, Threads
      <3> QED  BY <2>1, <2>2, <3>1 DEF LogInv, Held, Starting
    <2>5. mainPc' \notin {"destroy", "exited"} /\ stream' # "file" => out["file"] = <<>>
      BY <2>1 DEF LogInv, Buffers
    <2> QED  BY <1>2, <2>1, <2>3, <2>4, <2>5, LogMain DEF LogInv, Types
  <1>10. CASE CloseLog  BY <1>10, LogCloseLog
  <1>11. CASE Crash  BY <1>11, LogCrash
  <1>12. CASE UNCHANGED vars
    <2>1. /\ UNCHANGED <<callVars, out, buffer, returned, stream, workers, alive>>
          /\ UNCHANGED <<mainPc, pc, fp, mutex, fileOpen>>
      BY <1>12 DEF vars, callVars, logVars, poolVars
    <2>2. Alone' /\ Held'  BY <2>1 DEF LogInv, Alone, Held
    <2> QED  BY <1>2, <2>1, <2>2, LogMain DEF LogInv, Types, Buffers
  <1> QED
    BY <1>1, <1>3, <1>4, <1>5, <1>6, <1>7, <1>8, <1>9, <1>10, <1>11, <1>12 DEF Next

\* The log outlives its users: nobody prints to a closed file or reaches a mutex that has
\* been destroyed, because main joins all workers before it closes the log.
THEOREM LogOutlives == Spec => []LogOutlivesThreads
  <1>1. LogInv => LogOutlivesThreads
    BY DEF LogInv, LogOutlivesThreads, Held, Alone, Threads
  <1> QED  BY <1>1, LogInit, LogNext, PTL DEF Spec

\* A message is in the file before log_write returns, and the messages of a thread are in
\* the order of its calls: fflush is made before the mutex is given back.
THEOREM KeepsReturned == Spec => []ReturnedIsKept
  <1>1. LogInv => ReturnedIsKept  BY DEF LogInv, Order
  <1> QED  BY <1>1, LogInit, LogNext, PTL DEF Spec
================================================================================
