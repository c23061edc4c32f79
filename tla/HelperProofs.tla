------------------------------ MODULE HelperProofs ------------------------------
(***************************************************************************)
(* Proofs about the small components that the hub is made of, for any      *)
(* value of their constants: StatusSignal, Logger, FixCoder and            *)
(* FixSessionVerity.  Each part is about one of them only.                 *)
(***************************************************************************)
EXTENDS StatusSignal, Logger, FixCoder, FixSessionVerity, TLAPS

-----------------------------------------------------------------------------
(* StatusSignal                                                             *)

(* Every variable keeps its type; above all the pipe is never over-full,    *)
(* and never read below empty.                                              *)
THEOREM SignalTypes == SignalSpec => []SignalTypeOK
<1>1. SignalInit => SignalTypeOK
  <2>1. SignalInit => pipe \in 0 .. Capacity /\ signals \in Nat /\ dumps \in Nat
    BY SignalAssumption DEF SignalInit
  <2> QED
    BY <2>1 DEF SignalInit, SignalTypeOK
<1>2. SignalTypeOK /\ [SignalNext]_signalVars => SignalTypeOK'
  <2> SUFFICES ASSUME SignalTypeOK, [SignalNext]_signalVars
               PROVE  SignalTypeOK'
    OBVIOUS
  <2>0. Capacity \in Nat /\ pipe \in 0 .. Capacity
    BY SignalAssumption DEF SignalTypeOK
  <2> USE SignalAssumption DEF SignalTypeOK
  <2>1. CASE Signal
    BY <2>1 DEF Signal
  <2>2. CASE Deliver
    BY <2>2 DEF Deliver
  <2>3. CASE HandlerWrites
    <3>1. pipe' \in 0 .. Capacity
      BY <2>0, <2>3 DEF HandlerWrites
    <3> QED
      BY <2>3, <3>1 DEF HandlerWrites
  <2>4. CASE Activated
    BY <2>4 DEF Activated, Runs
  <2>5. CASE ReadByte
    <3>1. pipe' \in 0 .. Capacity /\ dumps' \in Nat
      BY <2>0, <2>5 DEF ReadByte
    <3> QED
      BY <2>5, <3>1 DEF ReadByte, Runs
  <2>6. CASE SlotReturns
    BY <2>6 DEF SlotReturns, Runs
  <2>7. CASE OtherSlot
    BY <2>7 DEF OtherSlot, Runs
  <2>8. CASE HandlerWaits \/ UNCHANGED signalVars
    BY <2>8 DEF HandlerWaits, signalVars
  <2> QED
    BY <2>1, <2>2, <2>3, <2>4, <2>5, <2>6, <2>7, <2>8 DEF SignalNext
<1> QED
  BY <1>1, <1>2, PTL DEF SignalSpec

(* The slot never blocks in read(): the byte that called it is still there, *)
(* wherever a signal interrupts the way to it (FixServer.cpp:47-51).        *)
THEOREM SlotNeverBlocks == SignalSpec => []ReadNeverBlocks
<1>1. SignalInit => ReadNeverBlocks
  BY DEF SignalInit, ReadNeverBlocks
<1>2. SignalTypeOK /\ ReadNeverBlocks /\ [SignalNext]_signalVars => ReadNeverBlocks'
  <2> SUFFICES ASSUME SignalTypeOK, ReadNeverBlocks, [SignalNext]_signalVars
               PROVE  ReadNeverBlocks'
    OBVIOUS
  <2> USE DEF SignalTypeOK, ReadNeverBlocks
  <2>1. CASE Signal \/ Deliver
    BY <2>1 DEF Signal, Deliver
  <2>2. CASE HandlerWrites
    BY <2>2 DEF HandlerWrites
  <2>3. CASE Activated \/ ReadByte
    BY <2>3 DEF Activated, ReadByte, Runs
  <2>4. CASE SlotReturns \/ OtherSlot
    BY <2>4 DEF SlotReturns, OtherSlot, Runs
  <2>5. CASE HandlerWaits \/ UNCHANGED signalVars
    BY <2>5 DEF HandlerWaits, signalVars
  <2> QED
    BY <2>1, <2>2, <2>3, <2>4, <2>5 DEF SignalNext
<1> QED
  BY <1>1, <1>2, SignalTypes, PTL DEF SignalSpec

(* There are never more dumps than signals: a signal that merges with a     *)
(* pending one adds no byte, and a byte is read once (FixServer.cpp:40-51). *)
THEOREM DumpsAreAskedFor == SignalSpec => []NoDumpUnasked
<1>1. SignalInit => NoDumpUnasked
  BY DEF SignalInit, NoDumpUnasked, Ones
<1>2. SignalTypeOK /\ NoDumpUnasked /\ [SignalNext]_signalVars => NoDumpUnasked'
  <2> SUFFICES ASSUME SignalTypeOK, NoDumpUnasked, [SignalNext]_signalVars
               PROVE  NoDumpUnasked'
    OBVIOUS
  <2> USE SignalAssumption DEF SignalTypeOK, NoDumpUnasked, Ones
  <2>1. CASE Signal
    BY <2>1 DEF Signal
  <2>2. CASE Deliver
    BY <2>2 DEF Deliver
  <2>3. CASE HandlerWrites
    BY <2>3 DEF HandlerWrites
  <2>4. CASE ReadByte
    BY <2>4 DEF ReadByte, Runs
  <2>5. CASE Activated \/ SlotReturns \/ OtherSlot
    BY <2>5 DEF Activated, SlotReturns, OtherSlot, Runs
  <2>6. CASE HandlerWaits \/ UNCHANGED signalVars
    BY <2>6 DEF HandlerWaits, signalVars
  <2> QED
    BY <2>1, <2>2, <2>3, <2>4, <2>5, <2>6 DEF SignalNext
<1> QED
  BY <1>1, <1>2, SignalTypes, PTL DEF SignalSpec

-----------------------------------------------------------------------------
(* Logger                                                                   *)

Inside == {"console", "file", "unlock"}   \* the scope of the lock_guard

-----------------------------------------------------------------------------
(* Types                                                                    *)

LEMMA DigitsType == ASSUME NEW n \in Nat PROVE Digits(n) \in Stamps
<1>1. n \div 2 \in Nat /\ n % 2 \in {0, 1}
  OBVIOUS
<1> QED
  BY <1>1 DEF Digits, Stamps

LEMMA LineType ==
  ASSUME LoggerTypeOK, NEW t \in Threads PROVE Line(t) \in Lines
BY DEF LoggerTypeOK, Line, Lines

LEMMA AppendType ==
  ASSUME NEW S, NEW s \in Seq(S), NEW e \in S
  PROVE  Append(s, e) \in Seq(S)
OBVIOUS

LEMMA LongerByOne ==
  ASSUME NEW S, NEW s \in Seq(S), NEW e \in S
  PROVE  /\ Len(Append(s, e)) = Len(s) + 1
         /\ Append(s, e)[Len(Append(s, e))] = e
         /\ \A i \in 1 .. Len(s) : Append(s, e)[i] = s[i]
OBVIOUS

LEMMA TypeStep ==
  ASSUME LoggerTypeOK, [LoggerNext]_loggerVars
  PROVE  LoggerTypeOK'
<1> USE LoggerAssumption DEF LoggerTypeOK
<1>1. CASE Tick
  BY <1>1 DEF Tick
<1>2. ASSUME NEW t \in Threads, Log(t) PROVE LoggerTypeOK'
  <2>1. PICK level \in UsedLevels :
          /\ pc' = [pc EXCEPT ![t] = IF ~initialized \/ level < minLevel THEN "out" ELSE "now"]
          /\ call' = [call EXCEPT ![t].level = level]
    BY <1>2 DEF Log, Goes, Enter
  <2>2. pc' \in [Threads -> Places]
    BY <2>1 DEF Places
  <2>3. call' \in [Threads -> LogCalls]
    BY <2>1 DEF LogCalls
  <2>4. calls' \in [Threads -> Nat]
    BY <1>2 DEF Log
  <2> QED
    BY <1>2, <2>2, <2>3, <2>4 DEF Log
<1>3. ASSUME NEW t \in Threads, Now(t) PROVE LoggerTypeOK'
  BY <1>3, DigitsType DEF Now, Goes, Places, LogCalls
<1>4. ASSUME NEW t \in Threads, LocalTime(t) PROVE LoggerTypeOK'
  BY <1>4 DEF LocalTime, Goes, Places, LogCalls
<1>5. ASSUME NEW t \in Threads, PutTime(t) PROVE LoggerTypeOK'
  <2>1. PICK stamp : stamp \in {<<tm[1], call[t].stamp[2]>>, <<call[t].stamp[1], tm[2]>>}
                      /\ call' = [call EXCEPT ![t].stamp = stamp]
    BY <1>5 DEF PutTime
  <2>2. stamp \in Stamps
    BY <2>1 DEF LogCalls, Stamps
  <2>3. call' \in [Threads -> LogCalls]
    BY <2>1, <2>2 DEF LogCalls
  <2>4. pc' \in [Threads -> Places]
    BY <1>5 DEF PutTime, Goes, Places
  <2> QED
    BY <1>5, <2>3, <2>4 DEF PutTime
<1>6. ASSUME NEW t \in Threads, Lock(t) \/ Unlock(t) PROVE LoggerTypeOK'
  BY <1>6 DEF Lock, Unlock, Goes, Places
<1>7. ASSUME NEW t \in Threads, WriteConsole(t) PROVE LoggerTypeOK'
  BY <1>7, LineType DEF WriteConsole, Goes, Places
<1>8. ASSUME NEW t \in Threads, WriteFile(t) PROVE LoggerTypeOK'
  <2>1. pc' \in [Threads -> Places]
    BY <1>8 DEF WriteFile, Goes, Places
  <2>2. file' \in Seq(Lines)
    <3>1. file' = file \/ file' = Append(file, Line(t))
      BY <1>8 DEF WriteFile
    <3>2. file \in Seq(Lines) /\ Line(t) \in Lines
      BY LineType
    <3>3. Append(file, Line(t)) \in Seq(Lines)
      BY <3>2, AppendType
    <3> QED
      BY <3>1, <3>2, <3>3
  <2>3. logFile' \in {"closed", "good", "bad"}
    BY <1>8 DEF WriteFile
  <2> QED
    BY <1>8, <2>1, <2>2, <2>3 DEF WriteFile
<1>9. CASE \E level \in UsedLevels : InitCall(level)
  BY <1>9 DEF InitCall, Goes, Places
<1>10. CASE Open
  BY <1>10 DEF Open, Goes, Places
<1>11. CASE Ready
  <2>1. pc' \in [Threads -> Places]
    BY <1>11 DEF Ready, Goes, Places
  <2>2. call' \in [Threads -> LogCalls]
    <3>1. INFO \in Levels
      BY DEF INFO, Levels, DEBUG, ERROR
    <3> QED
      BY <1>11, <3>1 DEF Ready, Enter, LogCalls
  <2> QED
    BY <1>11, <2>1, <2>2 DEF Ready
<1>12. CASE AllDone \/ UNCHANGED loggerVars
  BY <1>12 DEF AllDone, loggerVars
<1> QED
  BY <1>1, <1>2, <1>3, <1>4, <1>5, <1>6, <1>7, <1>8, <1>9, <1>10, <1>11, <1>12
     DEF LoggerNext, Step, InitSteps

(* Every variable keeps its type.                                           *)
THEOREM LoggerTypes == LoggerSpec => []LoggerTypeOK
<1>1. ASSUME LoggerInit PROVE LoggerTypeOK
  <2>1. INFO \in Levels /\ <<0, 0>> \in Stamps
    BY DEF INFO, Levels, DEBUG, ERROR, Stamps
  <2>2. NoCall \in LogCalls
    BY <2>1 DEF NoCall, LogCalls
  <2>3. call \in [Threads -> LogCalls] /\ pc \in [Threads -> Places]
    BY <1>1, <2>2 DEF LoggerInit, Places
  <2>4. console \in Seq(Lines) /\ file \in Seq(Lines)
    BY <1>1 DEF LoggerInit
  <2>5. clock \in Nat /\ calls \in [Threads -> Nat]
    BY <1>1 DEF LoggerInit
  <2> QED
    BY <1>1, <2>1, <2>3, <2>4, <2>5 DEF LoggerInit, LoggerTypeOK
<1> QED
  BY <1>1, TypeStep, PTL DEF LoggerSpec

-----------------------------------------------------------------------------
(* The mutex, and the start                                                 *)

(* Who holds the mutex is in the scope of its lock_guard, and nobody else.  *)
OneInside == \A t \in Threads : pc[t] \in Inside <=> mutex = t

(* Before init is done nothing is written, and only init is under way.      *)
NothingBefore ==
  /\ \A t \in Threads : pc[t] \in {"open", "ready"} => t = Main /\ ~initialized
  /\ ~initialized =>
       /\ console = <<>> /\ file = <<>>
       /\ \A t \in Threads : pc[t] \in {"out", "open", "ready"}

(* The file is a copy; while it is healthy it lacks the line that a thread  *)
(* has written to the console and is about to write to it, and no other.    *)
Copies ==
  logFile # "closed" =>
    /\ Len(file) <= Len(console)
    /\ \A i \in 1 .. Len(file) : file[i] = console[i]
    /\ logFile = "good" =>
         /\ (\A t \in Threads : pc[t] # "file") => Len(file) = Len(console)
         /\ \A t \in Threads : pc[t] = "file" =>
              Len(console) = Len(file) + 1 /\ console[Len(console)] = Line(t)

LoggerInv == LoggerTypeOK /\ OneInside /\ NothingBefore /\ Copies

LEMMA MutexStep ==
  ASSUME LoggerInv, [LoggerNext]_loggerVars
  PROVE  OneInside'
<1> USE LoggerAssumption DEF LoggerInv, LoggerTypeOK, OneInside, Inside
<1>1. ASSUME NEW t \in Threads, Log(t) \/ Now(t) \/ LocalTime(t) \/ PutTime(t) PROVE OneInside'
  BY <1>1 DEF Log, Now, LocalTime, PutTime, Goes
<1>2. ASSUME NEW t \in Threads, Lock(t) PROVE OneInside'
  BY <1>2 DEF Lock, Goes
<1>3. ASSUME NEW t \in Threads, WriteConsole(t) \/ WriteFile(t) PROVE OneInside'
  BY <1>3 DEF WriteConsole, WriteFile, Goes
<1>4. ASSUME NEW t \in Threads, Unlock(t) PROVE OneInside'
  BY <1>4 DEF Unlock, Goes
<1>5. CASE InitSteps
  BY <1>5 DEF InitSteps, InitCall, Open, Ready, Goes
<1>6. CASE Tick \/ AllDone \/ UNCHANGED loggerVars
  BY <1>6 DEF Tick, AllDone, loggerVars
<1> QED
  BY <1>1, <1>2, <1>3, <1>4, <1>5, <1>6 DEF LoggerNext, Step

LEMMA StartStep ==
  ASSUME LoggerInv, [LoggerNext]_loggerVars
  PROVE  NothingBefore'
<1> USE LoggerAssumption DEF LoggerInv, LoggerTypeOK, NothingBefore
<1>1. ASSUME NEW t \in Threads, Log(t) PROVE NothingBefore'
  BY <1>1 DEF Log, Goes
<1>2. ASSUME NEW t \in Threads, Now(t) \/ LocalTime(t) \/ PutTime(t) PROVE NothingBefore'
  BY <1>2 DEF Now, LocalTime, PutTime, Goes
<1>3. ASSUME NEW t \in Threads, Lock(t) \/ Unlock(t) PROVE NothingBefore'
  BY <1>3 DEF Lock, Unlock, Goes
<1>4. ASSUME NEW t \in Threads, WriteConsole(t) PROVE NothingBefore'
  BY <1>4 DEF WriteConsole, Goes
<1>5. ASSUME NEW t \in Threads, WriteFile(t) PROVE NothingBefore'
  BY <1>5 DEF WriteFile, Goes
<1>6. ASSUME NEW level \in UsedLevels, InitCall(level) PROVE NothingBefore'
  BY <1>6 DEF InitCall, Goes
<1>7. CASE Open
  <2>1. ~initialized /\ UNCHANGED <<initialized, console, file>>
    BY <1>7 DEF Open, Goes
  <2>2. pc' = [pc EXCEPT ![Main] = "ready"]
    BY <1>7 DEF Open, Goes
  <2> QED
    BY <2>1, <2>2
<1>8. CASE Ready
  <2>1. /\ initialized'
        /\ \A u \in Threads \ {Main} : pc'[u] = pc[u]
        /\ pc'[Main] \notin {"open", "ready"}
    BY <1>8 DEF Ready, Goes
  <2> QED
    BY <2>1
<1>9. CASE Tick \/ AllDone \/ UNCHANGED loggerVars
  BY <1>9 DEF Tick, AllDone, loggerVars
<1> QED
  BY <1>1, <1>2, <1>3, <1>4, <1>5, <1>6, <1>7, <1>8, <1>9 DEF LoggerNext, Step, InitSteps

-----------------------------------------------------------------------------
(* The copy                                                                 *)

(* A step that writes nothing, and moves no thread to or from its write to  *)
(* the file.                                                                *)
LEMMA QuietStep ==
  ASSUME Copies, UNCHANGED <<logFile, console, file>>,
         \A t \in Threads : /\ pc'[t] = "file" <=> pc[t] = "file"
                            /\ pc[t] = "file" => Line(t)' = Line(t)
  PROVE  Copies'
BY DEF Copies

LEMMA CopyStep ==
  ASSUME LoggerInv, [LoggerNext]_loggerVars
  PROVE  Copies'
<1> USE LoggerAssumption DEF LoggerInv, LoggerTypeOK
<1>1. ASSUME NEW t \in Threads,
             Log(t) \/ Now(t) \/ LocalTime(t) \/ PutTime(t) \/ Lock(t) \/ Unlock(t)
      PROVE  Copies'
  <2>1. UNCHANGED <<logFile, console, file>>
    BY <1>1 DEF Log, Now, LocalTime, PutTime, Lock, Unlock
  <2>2. /\ pc[t] # "file" /\ pc'[t] # "file"
        /\ \A u \in Threads \ {t} : pc'[u] = pc[u]
    BY <1>1 DEF Log, Now, LocalTime, PutTime, Lock, Unlock, Goes
  <2>3. \A u \in Threads \ {t} : call'[u] = call[u] /\ calls'[u] = calls[u]
    BY <1>1 DEF Log, Now, LocalTime, PutTime, Lock, Unlock, Enter
  <2> QED
    BY <2>1, <2>2, <2>3, QuietStep DEF Line
<1>2. ASSUME NEW t \in Threads, WriteConsole(t) PROVE Copies'
  <2>1. /\ console' = Append(console, Line(t)) /\ UNCHANGED <<file, logFile, call, calls>>
        /\ pc[t] = "console" /\ pc' = [pc EXCEPT ![t] = "file"]
    BY <1>2 DEF WriteConsole, Goes
  <2>2. Line(t)' = Line(t) /\ Line(t) \in Lines
    BY <2>1, LineType DEF Line
  <2>3. \A u \in Threads : pc[u] # "file" /\ (u # t => pc'[u] # "file")
    BY <2>1 DEF OneInside, Inside
  <2>4. /\ Len(console') = Len(console) + 1
        /\ console'[Len(console')] = Line(t)
        /\ \A i \in 1 .. Len(console) : console'[i] = console[i]
    BY <2>1, <2>2
  <2>5. Len(console) \in Nat /\ Len(file) \in Nat
    OBVIOUS
  <2> QED
    BY <2>1, <2>2, <2>3, <2>4, <2>5 DEF Copies
<1>3. ASSUME NEW t \in Threads, WriteFile(t) PROVE Copies'
  <2>1. /\ UNCHANGED <<console, call, calls>>
        /\ pc[t] = "file" /\ pc' = [pc EXCEPT ![t] = "unlock"]
    BY <1>3 DEF WriteFile, Goes
  <2>2. \A u \in Threads : pc'[u] # "file"
    BY <2>1 DEF OneInside, Inside
  <2>3. Len(console) \in Nat /\ Len(file) \in Nat
    OBVIOUS
  <2>4. CASE logFile = "good" /\ file' = Append(file, Line(t)) /\ UNCHANGED logFile
    <3>1. Len(console) = Len(file) + 1 /\ console[Len(console)] = Line(t)
      BY <2>1, <2>4 DEF Copies
    <3>2. /\ Len(file') = Len(file) + 1
          /\ file'[Len(file')] = Line(t)
          /\ \A i \in 1 .. Len(file) : file'[i] = file[i]
      <4>1. Line(t) \in Lines /\ file \in Seq(Lines)
        BY LineType
      <4> QED
        BY <2>4, <4>1, LongerByOne
    <3>3. /\ Len(file) <= Len(console)
          /\ \A i \in 1 .. Len(file) : file[i] = console[i]
      BY <2>4 DEF Copies
    <3>4. Len(file') = Len(console') /\ console' = console
      BY <2>1, <3>1, <3>2
    <3>5. ASSUME NEW i \in 1 .. Len(file') PROVE file'[i] = console'[i]
      <4>1. i \in 1 .. Len(file) \/ i = Len(file')
        BY <2>3, <3>2
      <4>2. CASE i \in 1 .. Len(file)
        BY <3>2, <3>3, <3>4, <4>2
      <4>3. CASE i = Len(file')
        BY <3>1, <3>2, <3>4, <4>3
      <4> QED
        BY <4>1, <4>2, <4>3
    <3>6. Len(file') <= Len(console')
      BY <2>3, <3>1, <3>2, <3>4
    <3> QED
      BY ONLY <2>2, <3>4, <3>5, <3>6 DEF Copies
  <2>5. CASE UNCHANGED file /\ logFile' # "good" /\ (logFile' # "closed" => logFile # "closed")
    <3>1. SUFFICES ASSUME logFile' # "closed"
                   PROVE  Len(file) <= Len(console) /\ \A i \in 1 .. Len(file) : file[i] = console[i]
      BY <2>1, <2>5 DEF Copies
    <3> QED
      BY <2>5, <3>1 DEF Copies
  <2>6. \/ logFile = "good" /\ file' = Append(file, Line(t)) /\ UNCHANGED logFile
        \/ UNCHANGED file /\ logFile' # "good" /\ (logFile' # "closed" => logFile # "closed")
    BY <1>3 DEF WriteFile
  <2> QED
    BY <2>4, <2>5, <2>6
<1>4. ASSUME NEW level \in UsedLevels, InitCall(level) PROVE Copies'
  BY <1>4, QuietStep DEF InitCall, Goes, Line
<1>5. CASE Open
  <2>1. console' = <<>> /\ file' = <<>>
    BY <1>5 DEF Open, Goes, NothingBefore
  <2>2. \A u \in Threads : pc'[u] # "file"
    BY <1>5 DEF Open, Goes, NothingBefore
  <2> QED
    BY <2>1, <2>2 DEF Copies
<1>6. CASE Ready
  BY <1>6, QuietStep DEF Ready, Goes, Enter, Line
<1>7. CASE Tick \/ AllDone \/ UNCHANGED loggerVars
  BY <1>7, QuietStep DEF Tick, AllDone, loggerVars, Line
<1> QED
  BY <1>1, <1>2, <1>3, <1>4, <1>5, <1>6, <1>7 DEF LoggerNext, Step, InitSteps

LEMMA CopyMeansFollows ==
  ASSUME LoggerInv PROVE FileFollowsConsole
<1>1. mutex = Nobody => \A t \in Threads : pc[t] # "file"
  BY LoggerAssumption DEF LoggerInv, OneInside, Inside
<1> QED
  BY <1>1 DEF LoggerInv, Copies, FileFollowsConsole

(* Whatever threads log while init runs and writes fail, the file is a      *)
(* prefix of the console's lines, and between two lines, while it is        *)
(* healthy, all of them (Logger.cpp:77-88).                                 *)
THEOREM FileIsACopy == LoggerSpec => []FileFollowsConsole
<1>1. ASSUME LoggerInit PROVE OneInside /\ NothingBefore /\ Copies
  <2>1. OneInside
    BY <1>1, LoggerAssumption DEF LoggerInit, OneInside, Inside
  <2>2. NothingBefore
    BY <1>1 DEF LoggerInit, NothingBefore
  <2>3. Copies
    BY <1>1 DEF LoggerInit, Copies
  <2> QED
    BY <2>1, <2>2, <2>3
<1>2. LoggerTypeOK /\ OneInside /\ NothingBefore /\ Copies /\ [LoggerNext]_loggerVars
        => OneInside' /\ NothingBefore' /\ Copies'
  BY MutexStep, StartStep, CopyStep DEF LoggerInv
<1>3. LoggerTypeOK /\ OneInside /\ NothingBefore /\ Copies => FileFollowsConsole
  BY CopyMeansFollows DEF LoggerInv
<1> QED
  BY <1>1, <1>2, <1>3, LoggerTypes, PTL DEF LoggerSpec

-----------------------------------------------------------------------------
(* FixCoder                                                                 *)

Reading == {"TransformMessage", "GetTargetCompID"}

(* What a thread does is on its way through the call it has begun.          *)
CallsAreKnown ==
  /\ DOMAIN op = Callers /\ DOMAIN route = Callers
  /\ \A t \in Callers :
       /\ at[t] = "lock" => op[t] \in Reading \cup {"AddRoute"}
       /\ at[t] \in {"first", "second"} => op[t] = "AddRoute"
       /\ at[t] = "target" => op[t] \in Reading
       /\ at[t] \in {"behalf", "set"} => op[t] = "TransformMessage"
       /\ at[t] \in {"lock", "first", "second"} /\ op[t] = "AddRoute" => route[t] \in Routes

(* One thread at a time touches the tables.                                 *)
OneHolds == \A t \in Callers : at[t] \in {"first", "second", "target", "behalf"} <=> held = t

TableInv == CoderTypeOK /\ CallsAreKnown /\ OneHolds

LEMMA RouteType == ASSUME NEW r \in Routes PROVE r[1] \in CompIds /\ r[2] \in CustomIds /\ r = <<r[1], r[2]>>
BY CoderAssumption

LEMMA TableStep ==
  ASSUME TableInv, [CoderNext]_coderVars
  PROVE  TableInv'
<1> USE DEF TableInv, Reading
<1>1. ASSUME NEW t \in Callers, AddRoute(t) PROVE TableInv'
  <2>1. CoderTypeOK'
    BY <1>1, CoderAssumption DEF AddRoute, Begins, tables, CoderTypeOK
  <2>2. CallsAreKnown'
    BY <1>1 DEF AddRoute, Begins, tables, CoderTypeOK, CallsAreKnown
  <2>3. OneHolds'
    BY <1>1 DEF AddRoute, Begins, CoderTypeOK, OneHolds
  <2> QED
    BY <2>1, <2>2, <2>3
<1>2. ASSUME NEW t \in Callers, TransformMessage(t) \/ GetTargetCompID(t) PROVE TableInv'
  <2>1. /\ at[t] = "out" /\ asked[t] < MaxAsked
        /\ asked' = [asked EXCEPT ![t] = @ + 1]
        /\ UNCHANGED <<compIdToCustomId, customIdToCompId, held, route>>
    BY <1>2 DEF TransformMessage, GetTargetCompID, Begins, tables
  <2>2. PICK place \in {"lock", "out"}, name \in Reading :
          at' = [at EXCEPT ![t] = place] /\ op' = [op EXCEPT ![t] = name]
    BY <1>2 DEF TransformMessage, GetTargetCompID, Begins, Passes
  <2>3. CoderTypeOK'
    BY <2>1, <2>2, CoderAssumption DEF CoderTypeOK
  <2>4. CallsAreKnown'
    BY <2>1, <2>2 DEF CoderTypeOK, CallsAreKnown
  <2>5. OneHolds'
    BY <2>1, <2>2 DEF CoderTypeOK, OneHolds
  <2> QED
    BY <2>3, <2>4, <2>5
<1>3. ASSUME NEW t \in Callers, TakeLock(t) PROVE TableInv'
  <2>1. CoderTypeOK'
    BY <1>3 DEF TakeLock, tables, CoderTypeOK
  <2>2. CallsAreKnown'
    BY <1>3 DEF TakeLock, CoderTypeOK, CallsAreKnown
  <2>3. OneHolds'
    BY <1>3, CoderAssumption DEF TakeLock, CoderTypeOK, OneHolds
  <2> QED
    BY <2>1, <2>2, <2>3
<1>4. ASSUME NEW t \in Callers, WriteCustomId(t) PROVE TableInv'
  <2>1. route[t] \in Routes
    BY <1>4 DEF WriteCustomId, CallsAreKnown
  <2>2. CoderTypeOK'
    BY <1>4, <2>1, RouteType DEF WriteCustomId, CoderTypeOK
  <2>3. CallsAreKnown'
    BY <1>4 DEF WriteCustomId, CoderTypeOK, CallsAreKnown
  <2>4. OneHolds'
    BY <1>4 DEF WriteCustomId, CoderTypeOK, OneHolds
  <2> QED
    BY <2>2, <2>3, <2>4
<1>5. ASSUME NEW t \in Callers, WriteCompId(t) PROVE TableInv'
  <2>1. route[t] \in Routes
    BY <1>5 DEF WriteCompId, CallsAreKnown
  <2>2. CoderTypeOK'
    BY <1>5, <2>1, RouteType DEF WriteCompId, CoderTypeOK
  <2>3. CallsAreKnown'
    BY <1>5 DEF WriteCompId, CoderTypeOK, CallsAreKnown
  <2>4. OneHolds'
    BY <1>5, CoderAssumption DEF WriteCompId, CoderTypeOK, OneHolds
  <2> QED
    BY <2>2, <2>3, <2>4
<1>6. ASSUME NEW t \in Callers, FindTarget(t) \/ FindOnBehalfOf(t) PROVE TableInv'
  <2>1. /\ UNCHANGED <<compIdToCustomId, customIdToCompId, op, route, asked>>
        /\ \/ at[t] \in {"target", "behalf"} /\ held' = NoCaller /\ at' = [at EXCEPT ![t] = "out"]
           \/ at[t] = "behalf" /\ held' = NoCaller /\ at' = [at EXCEPT ![t] = "set"]
           \/ /\ at[t] = "target" /\ op[t] # "GetTargetCompID"
              /\ UNCHANGED held /\ at' = [at EXCEPT ![t] = "behalf"]
    BY <1>6 DEF FindTarget, FindOnBehalfOf, Leaves, tables
  <2>2. CoderTypeOK'
    BY <2>1 DEF CoderTypeOK
  <2>3. CallsAreKnown'
    BY <2>1 DEF CoderTypeOK, CallsAreKnown
  <2>4. OneHolds'
    BY <2>1, CoderAssumption DEF CoderTypeOK, OneHolds
  <2> QED
    BY <2>2, <2>3, <2>4
<1>7. ASSUME NEW t \in Callers, SetTags(t) PROVE TableInv'
  <2>1. CoderTypeOK'
    BY <1>7 DEF SetTags, tables, CoderTypeOK
  <2>2. CallsAreKnown'
    BY <1>7 DEF SetTags, CoderTypeOK, CallsAreKnown
  <2>3. OneHolds'
    BY <1>7 DEF SetTags, CoderTypeOK, OneHolds
  <2> QED
    BY <2>1, <2>2, <2>3
<1>8. CASE UNCHANGED coderVars
  BY <1>8 DEF coderVars, tables, CoderTypeOK, CallsAreKnown, OneHolds
<1> QED
  BY <1>1, <1>2, <1>3, <1>4, <1>5, <1>6, <1>7, <1>8 DEF CoderNext, Steps, CallsDone

LEMMA TableInit == ASSUME CoderInit PROVE TableInv
<1>1. CoderTypeOK
  BY CoderAssumption DEF CoderInit, CoderTypeOK
<1>2. CallsAreKnown
  BY DEF CoderInit, CallsAreKnown
<1>3. OneHolds
  BY CoderAssumption DEF CoderInit, OneHolds
<1> QED
  BY <1>1, <1>2, <1>3 DEF TableInv

LEMMA TablesAlways == CoderSpec => []TableInv
BY TableInit, TableStep, PTL DEF CoderSpec

-----------------------------------------------------------------------------
(* The route registered last                                                *)

(* A route between its two assignments is there in one direction; the last  *)
(* one complete is there in the other whatever is being registered, since   *)
(* that assignment comes second.                                            *)
LastInv ==
  /\ \A t \in Callers : at[t] = "second" => compIdToCustomId[route[t][1]] = route[t][2]
  /\ last[1] # None =>
       /\ last \in Routes
       /\ customIdToCompId[last[2]] = last[1]
       /\ (\A t \in Callers : at[t] # "second") => compIdToCustomId[last[1]] = last[2]

LEMMA LastStep ==
  ASSUME TableInv, LastInv, [CoderNext]_coderVars
  PROVE  LastInv'
<1> USE DEF TableInv, CoderTypeOK
<1>1. ASSUME NEW t \in Callers, WriteCustomId(t) PROVE LastInv'
  <2>1. /\ route[t] \in Routes /\ UNCHANGED <<customIdToCompId, route, last>>
        /\ compIdToCustomId' = [compIdToCustomId EXCEPT ![route[t][1]] = route[t][2]]
        /\ at[t] = "first" /\ at' = [at EXCEPT ![t] = "second"]
    BY <1>1 DEF WriteCustomId, CallsAreKnown
  <2>2. \A u \in Callers \ {t} : at'[u] # "second"
    BY <2>1 DEF OneHolds
  <2>3. compIdToCustomId'[route[t][1]] = route[t][2]
    BY <2>1, RouteType
  <2> QED
    BY <2>1, <2>2, <2>3 DEF LastInv
<1>2. ASSUME NEW t \in Callers, WriteCompId(t) PROVE LastInv'
  <2>1. /\ route[t] \in Routes /\ last' = route[t] /\ UNCHANGED <<compIdToCustomId, route>>
        /\ customIdToCompId' = [customIdToCompId EXCEPT ![route[t][2]] = route[t][1]]
        /\ at[t] = "second" /\ at' = [at EXCEPT ![t] = "out"]
    BY <1>2 DEF WriteCompId, CallsAreKnown
  <2>2. customIdToCompId'[route[t][2]] = route[t][1]
    BY <2>1, RouteType
  <2> QED
    BY <2>1, <2>2 DEF LastInv
<1>3. ASSUME UNCHANGED <<compIdToCustomId, customIdToCompId, last>>,
             \A t \in Callers : /\ at'[t] = "second" <=> at[t] = "second"
                                /\ at[t] = "second" => route'[t] = route[t]
      PROVE  LastInv'
  BY <1>3 DEF LastInv
<1>4. ASSUME NEW t \in Callers, AddRoute(t) PROVE LastInv'
  BY <1>4, <1>3 DEF AddRoute, Begins, tables, CallsAreKnown
<1>5. ASSUME NEW t \in Callers,
             TransformMessage(t) \/ GetTargetCompID(t) \/ TakeLock(t) \/ FindTarget(t)
               \/ FindOnBehalfOf(t) \/ SetTags(t)
      PROVE  LastInv'
  <2>1. UNCHANGED <<compIdToCustomId, customIdToCompId, last, route>>
    BY <1>5 DEF TransformMessage, GetTargetCompID, TakeLock, FindTarget, FindOnBehalfOf, SetTags, tables
  <2>2. PICK place \in {"lock", "out", "first", "target", "behalf", "set"} :
          at[t] # "second" /\ at' = [at EXCEPT ![t] = place]
    BY <1>5 DEF TransformMessage, GetTargetCompID, Begins, Passes, TakeLock, FindTarget,
                FindOnBehalfOf, Leaves, SetTags
  <2> QED
    BY <2>1, <2>2, <1>3
<1>6. CASE UNCHANGED coderVars
  BY <1>6, <1>3 DEF coderVars, tables
<1> QED
  BY <1>1, <1>2, <1>4, <1>5, <1>6 DEF CoderNext, Steps, CallsDone

(* Between registrations the route registered last holds in both            *)
(* directions, however many threads register at once (FixCode.cpp:10-14).   *)
THEOREM LastRegistrationHolds == CoderSpec => []LastRouteHolds
<1>1. CoderInit => LastInv
  BY DEF CoderInit, LastInv
<1>2. TableInv /\ LastInv /\ [CoderNext]_coderVars => LastInv'
  BY LastStep
<1>3. LastInv => LastRouteHolds
  BY DEF LastInv, LastRouteHolds
<1> QED
  BY <1>1, <1>2, <1>3, TablesAlways, PTL DEF CoderSpec

-----------------------------------------------------------------------------
(* Answers from one table                                                   *)

Target(tb, m) == Lookup(tb[2], GetTagValue(m, TAG_DELIVER_TO_COMP_ID))
Behalf(tb, m) == Lookup(tb[1], GetTagValue(m, TAG_SENDER_COMP_ID))

(* The tables in force are those in the object but while a route is half    *)
(* registered.                                                              *)
InForceInv ==
  /\ DOMAIN inForce[1] = CompIds /\ DOMAIN inForce[2] = CustomIds
  /\ (\A t \in Callers : at[t] # "second") => inForce = tables

(* A thread has seen the tables in force since its call began, and holds    *)
(* what it found in them.                                                   *)
HoldsFound(t) ==
  /\ at[t] # "out" => inForce \in seen[t]
  /\ at[t] # "out" /\ op[t] \in Reading => msg[t] = given[t]
  /\ at[t] = "behalf" => /\ found[t][1] = Target(tables, msg[t])
                         /\ found[t][1] # None
  /\ at[t] = "set" => \E tb \in seen[t] :
                        /\ found[t][1] = Target(tb, msg[t]) /\ found[t][1] # None
                        /\ found[t][2] = Behalf(tb, msg[t]) /\ found[t][2] # None

Answered(t) ==
  at[t] = "out" /\ op[t] \in Reading =>
    \E tb \in seen[t] :
      [msg |-> msg[t], result |-> result[t]] = Answer(op[t], given[t], tb[1], tb[2])

FunctionsOfThreads ==
  /\ DOMAIN msg = Callers /\ DOMAIN given = Callers /\ DOMAIN found = Callers
  /\ DOMAIN result = Callers /\ DOMAIN seen = Callers

AnswerInv ==
  FunctionsOfThreads /\ InForceInv /\ \A t \in Callers : HoldsFound(t) /\ Answered(t)

(* What the answer is, by cases.                                            *)
LEMMA RefusedAnswer ==
  ASSUME NEW m, NEW tb, NEW name \in Reading,
         Target(tb, m) = None \/ (name = "TransformMessage" /\ Behalf(tb, m) = None)
  PROVE  Answer(name, m, tb[1], tb[2]) = [msg |-> m, result |-> "error"]
BY DEF Answer, Target, Behalf, Reading

LEMMA TargetAnswer ==
  ASSUME NEW m, NEW tb, Target(tb, m) # None
  PROVE  Answer("GetTargetCompID", m, tb[1], tb[2]) = [msg |-> m, result |-> Target(tb, m)]
BY DEF Answer, Target

LEMMA TransformedAnswer ==
  ASSUME NEW m, NEW tb, Target(tb, m) # None, Behalf(tb, m) # None
  PROVE  Answer("TransformMessage", m, tb[1], tb[2])
           = [msg |-> Transformed(m, Target(tb, m), Behalf(tb, m)), result |-> "ok"]
BY DEF Answer, Target, Behalf

(* A message that lacks a tag is refused by any table: no id is empty.      *)
LEMMA IncompleteAnswer ==
  ASSUME InForceInv, NEW m, NEW name \in Reading,
         \/ GetTagValue(m, TAG_DELIVER_TO_COMP_ID) = Empty
         \/ name = "TransformMessage" /\ GetTagValue(m, TAG_SENDER_COMP_ID) = Empty
  PROVE  Answer(name, m, inForce[1], inForce[2]) = [msg |-> m, result |-> "error"]
<1>1. Empty \notin CompIds /\ Empty \notin CustomIds
  BY CoderAssumption
<1>2. Target(inForce, m) = None \/ (name = "TransformMessage" /\ Behalf(inForce, m) = None)
  BY <1>1 DEF InForceInv, Target, Behalf, Lookup
<1> QED
  BY <1>2, RefusedAnswer

(* A step of one thread that leaves the tables alone, and the other threads.*)
LEMMA OthersKeep ==
  ASSUME AnswerInv, NEW t \in Callers,
         UNCHANGED <<compIdToCustomId, customIdToCompId, inForce>>,
         at[t] # "second", at'[t] # "second",
         FunctionsOfThreads',
         \A u \in Callers \ {t} :
           /\ at'[u] = at[u] /\ op'[u] = op[u] /\ msg'[u] = msg[u] /\ given'[u] = given[u]
           /\ found'[u] = found[u] /\ result'[u] = result[u] /\ seen'[u] = seen[u],
         HoldsFound(t)', Answered(t)'
  PROVE  AnswerInv'
<1>1. InForceInv'
  BY DEF AnswerInv, InForceInv, tables
<1>2. \A u \in Callers \ {t} : HoldsFound(u)' /\ Answered(u)'
  BY DEF AnswerInv, HoldsFound, Answered, tables, Target, Behalf
<1> QED
  BY <1>1, <1>2 DEF AnswerInv

LEMMA AnswerStep ==
  ASSUME TableInv, AnswerInv, [CoderNext]_coderVars
  PROVE  AnswerInv'
<1> USE DEF TableInv, CoderTypeOK
<1>1. ASSUME NEW t \in Callers, AddRoute(t) PROVE AnswerInv'
  <2>1. /\ UNCHANGED <<compIdToCustomId, customIdToCompId, inForce, msg, found, result, given>>
        /\ at[t] = "out" /\ at' = [at EXCEPT ![t] = "lock"]
        /\ op' = [op EXCEPT ![t] = "AddRoute"] /\ seen' = [seen EXCEPT ![t] = {inForce}]
    BY <1>1 DEF AddRoute, Begins, tables
  <2>2. HoldsFound(t)' /\ Answered(t)'
    BY <2>1 DEF AnswerInv, FunctionsOfThreads, CallsAreKnown, HoldsFound, Answered, Reading
  <2> QED
    BY <2>1, <2>2, OthersKeep DEF AnswerInv, FunctionsOfThreads, CallsAreKnown
<1>2. ASSUME NEW t \in Callers, TransformMessage(t) \/ GetTargetCompID(t) PROVE AnswerInv'
  <2>1. PICK m \in Messages, name \in Reading :
          /\ Begins(t, name)
          /\ \/ /\ name = "TransformMessage"
                /\ Passes(t, m, {TAG_SENDER_COMP_ID, TAG_DELIVER_TO_COMP_ID})
             \/ Passes(t, m, {TAG_DELIVER_TO_COMP_ID})
    BY <1>2 DEF TransformMessage, GetTargetCompID, Reading
  <2>2. UNCHANGED <<compIdToCustomId, customIdToCompId, inForce, found>>
    BY <1>2 DEF TransformMessage, GetTargetCompID, tables
  <2>3. at[t] = "out" /\ op' = [op EXCEPT ![t] = name] /\ seen' = [seen EXCEPT ![t] = {inForce}]
    BY <2>1 DEF Begins
  <2>4. /\ msg' = [msg EXCEPT ![t] = m] /\ given' = [given EXCEPT ![t] = m]
        /\ \/ at' = [at EXCEPT ![t] = "lock"] /\ result' = [result EXCEPT ![t] = "none"]
           \/ /\ at' = [at EXCEPT ![t] = "out"] /\ result' = [result EXCEPT ![t] = "error"]
              /\ \/ name = "TransformMessage" /\ GetTagValue(m, TAG_SENDER_COMP_ID) = Empty
                 \/ GetTagValue(m, TAG_DELIVER_TO_COMP_ID) = Empty
    BY <2>1 DEF Passes
  <2>5. HoldsFound(t)'
    BY <2>2, <2>3, <2>4 DEF AnswerInv, FunctionsOfThreads, CallsAreKnown, HoldsFound
  <2>6. Answered(t)'
    <3>1. CASE at' = [at EXCEPT ![t] = "lock"]
      BY <3>1 DEF Answered
    <3>2. CASE /\ at' = [at EXCEPT ![t] = "out"] /\ result' = [result EXCEPT ![t] = "error"]
               /\ \/ name = "TransformMessage" /\ GetTagValue(m, TAG_SENDER_COMP_ID) = Empty
                  \/ GetTagValue(m, TAG_DELIVER_TO_COMP_ID) = Empty
      <4>1. Answer(name, m, inForce[1], inForce[2]) = [msg |-> m, result |-> "error"]
        BY <3>2, IncompleteAnswer DEF AnswerInv
      <4>2. /\ op'[t] = name /\ msg'[t] = m /\ given'[t] = m
            /\ result'[t] = "error" /\ seen'[t] = {inForce}
        BY <2>3, <2>4, <3>2 DEF AnswerInv, FunctionsOfThreads, CallsAreKnown
      <4> QED
        BY <4>1, <4>2 DEF Answered
    <3> QED
      BY <2>4, <3>1, <3>2
  <2> QED
    BY <2>2, <2>3, <2>4, <2>5, <2>6, OthersKeep DEF AnswerInv, FunctionsOfThreads, CallsAreKnown
<1>3. ASSUME NEW t \in Callers, TakeLock(t) PROVE AnswerInv'
  <2>1. /\ UNCHANGED <<compIdToCustomId, customIdToCompId, inForce, op, msg, found, result, given, seen>>
        /\ at[t] = "lock"
        /\ \E place \in {"first", "target"} : at' = [at EXCEPT ![t] = place]
    BY <1>3 DEF TakeLock, tables
  <2>2. HoldsFound(t)' /\ Answered(t)'
    BY <2>1 DEF AnswerInv, HoldsFound, Answered
  <2> QED
    BY <2>1, <2>2, OthersKeep DEF AnswerInv, FunctionsOfThreads
<1>4. ASSUME NEW t \in Callers, WriteCustomId(t) PROVE AnswerInv'
  <2>1. /\ UNCHANGED <<customIdToCompId, inForce, op, msg, found, result, given, seen>>
        /\ at[t] = "first" /\ at' = [at EXCEPT ![t] = "second"]
    BY <1>4 DEF WriteCustomId
  <2>2. \A u \in Callers : at[u] # "behalf" /\ at'[u] # "behalf"
    BY <2>1 DEF OneHolds
  <2>3. InForceInv'
    BY <2>1 DEF AnswerInv, InForceInv
  <2>4. \A u \in Callers : HoldsFound(u)' /\ Answered(u)'
    BY <2>1, <2>2 DEF AnswerInv, HoldsFound, Answered
  <2> QED
    BY <2>1, <2>3, <2>4 DEF AnswerInv, FunctionsOfThreads
<1>5. ASSUME NEW t \in Callers, WriteCompId(t) PROVE AnswerInv'
  <2>1. /\ UNCHANGED <<compIdToCustomId, op, msg, found, result, given>>
        /\ at[t] = "second" /\ at' = [at EXCEPT ![t] = "out"]
        /\ inForce' = <<compIdToCustomId, customIdToCompId'>>
        /\ seen' = [u \in Callers |-> IF at'[u] = "out" THEN seen[u] ELSE seen[u] \cup {inForce'}]
    BY <1>5 DEF WriteCompId
  <2>2. \A u \in Callers : at'[u] # "behalf"
    BY <2>1 DEF OneHolds
  <2>3. op[t] = "AddRoute"
    BY <2>1 DEF CallsAreKnown
  <2>4. InForceInv'
    <3>1. customIdToCompId' \in [CustomIds -> CompIds \cup {None}]
      BY <1>5, TableStep DEF coderVars, CoderNext, Steps
    <3> QED
      BY <2>1, <3>1 DEF InForceInv, tables
  <2>5. \A u \in Callers : HoldsFound(u)'
    BY <2>1, <2>2 DEF AnswerInv, HoldsFound
  <2>6. \A u \in Callers : Answered(u)'
    BY <2>1, <2>3 DEF AnswerInv, Answered, Reading
  <2> QED
    BY <2>1, <2>4, <2>5, <2>6 DEF AnswerInv, FunctionsOfThreads
<1>6. ASSUME NEW t \in Callers, FindTarget(t) PROVE AnswerInv'
  <2> DEFINE compId == Target(tables, msg[t])
  <2>1. /\ UNCHANGED <<compIdToCustomId, customIdToCompId, inForce, op, msg, given, seen>>
        /\ at[t] = "target" /\ found' = [found EXCEPT ![t] = <<compId, @[2]>>]
        /\ \/ /\ compId = None
              /\ at' = [at EXCEPT ![t] = "out"] /\ result' = [result EXCEPT ![t] = "error"]
           \/ /\ compId # None /\ op[t] = "GetTargetCompID"
              /\ at' = [at EXCEPT ![t] = "out"] /\ result' = [result EXCEPT ![t] = compId]
           \/ /\ compId # None /\ op[t] # "GetTargetCompID"
              /\ at' = [at EXCEPT ![t] = "behalf"] /\ UNCHANGED result
    BY <1>6 DEF FindTarget, Leaves, tables, Target
  <2>2. op[t] \in Reading /\ msg[t] = given[t] /\ inForce \in seen[t]
    BY <2>1 DEF AnswerInv, HoldsFound, CallsAreKnown
  <2>3. inForce = tables
    BY <2>1 DEF AnswerInv, InForceInv, OneHolds
  <2>4. HoldsFound(t)'
    BY <2>1, <2>2 DEF AnswerInv, FunctionsOfThreads, HoldsFound, tables, Target
  <2>5. Answered(t)'
    <3>1. CASE compId = None
      BY <2>1, <2>2, <2>3, <3>1, RefusedAnswer DEF AnswerInv, FunctionsOfThreads, Answered
    <3>2. CASE compId # None /\ op[t] = "GetTargetCompID"
      BY <2>1, <2>2, <2>3, <3>2, TargetAnswer DEF AnswerInv, FunctionsOfThreads, Answered
    <3>3. CASE at' = [at EXCEPT ![t] = "behalf"]
      BY <3>3 DEF Answered
    <3> QED
      BY <2>1, <3>1, <3>2, <3>3
  <2> QED
    BY <2>1, <2>4, <2>5, OthersKeep DEF AnswerInv, FunctionsOfThreads
<1>7. ASSUME NEW t \in Callers, FindOnBehalfOf(t) PROVE AnswerInv'
  <2> DEFINE customId == Behalf(tables, msg[t])
  <2>1. /\ UNCHANGED <<compIdToCustomId, customIdToCompId, inForce, op, msg, given, seen>>
        /\ at[t] = "behalf" /\ found' = [found EXCEPT ![t] = <<@[1], customId>>]
        /\ \/ /\ customId = None
              /\ at' = [at EXCEPT ![t] = "out"] /\ result' = [result EXCEPT ![t] = "error"]
           \/ /\ customId # None
              /\ at' = [at EXCEPT ![t] = "set"] /\ result' = [result EXCEPT ![t] = @]
    BY <1>7 DEF FindOnBehalfOf, Leaves, tables, Behalf
  <2>2. /\ op[t] = "TransformMessage" /\ msg[t] = given[t] /\ inForce \in seen[t]
        /\ found[t][1] = Target(tables, msg[t]) /\ found[t][1] # None
    BY <2>1 DEF AnswerInv, HoldsFound, CallsAreKnown, Reading
  <2>3. inForce = tables
    BY <2>1 DEF AnswerInv, InForceInv, OneHolds
  <2>4. HoldsFound(t)'
    BY <2>1, <2>2, <2>3 DEF AnswerInv, FunctionsOfThreads, HoldsFound
  <2>5. Answered(t)'
    <3>1. CASE customId = None
      BY <2>1, <2>2, <2>3, <3>1, RefusedAnswer DEF AnswerInv, FunctionsOfThreads, Answered, Reading
    <3>2. CASE at' = [at EXCEPT ![t] = "set"]
      BY <3>2 DEF Answered
    <3> QED
      BY <2>1, <3>1, <3>2
  <2> QED
    BY <2>1, <2>4, <2>5, OthersKeep DEF AnswerInv, FunctionsOfThreads
<1>8. ASSUME NEW t \in Callers, SetTags(t) PROVE AnswerInv'
  <2>1. /\ UNCHANGED <<compIdToCustomId, customIdToCompId, inForce, op, found, given, seen>>
        /\ at[t] = "set" /\ at' = [at EXCEPT ![t] = "out"]
        /\ msg' = [msg EXCEPT ![t] = Transformed(@, found[t][1], found[t][2])]
        /\ result' = [result EXCEPT ![t] = "ok"]
    BY <1>8 DEF SetTags, tables
  <2>2. PICK tb \in seen[t] :
          /\ found[t][1] = Target(tb, msg[t]) /\ found[t][1] # None
          /\ found[t][2] = Behalf(tb, msg[t]) /\ found[t][2] # None
    BY <2>1 DEF AnswerInv, HoldsFound
  <2>3. op[t] = "TransformMessage" /\ msg[t] = given[t]
    BY <2>1 DEF AnswerInv, HoldsFound, CallsAreKnown, Reading
  <2>4. Answered(t)'
    BY <2>1, <2>2, <2>3, TransformedAnswer DEF AnswerInv, FunctionsOfThreads, Answered
  <2>5. HoldsFound(t)'
    BY <2>1 DEF HoldsFound
  <2> QED
    BY <2>1, <2>4, <2>5, OthersKeep DEF AnswerInv, FunctionsOfThreads
<1>9. CASE UNCHANGED coderVars
  BY <1>9 DEF coderVars, tables, AnswerInv, FunctionsOfThreads, InForceInv, HoldsFound, Answered,
              Target, Behalf
<1> QED
  BY <1>1, <1>2, <1>3, <1>4, <1>5, <1>6, <1>7, <1>8, <1>9 DEF CoderNext, Steps, CallsDone

LEMMA AnswerInit == ASSUME CoderInit PROVE AnswerInv
<1>1. FunctionsOfThreads
  BY DEF CoderInit, FunctionsOfThreads
<1>2. InForceInv
  BY DEF CoderInit, InForceInv, tables
<1>3. \A t \in Callers : HoldsFound(t) /\ Answered(t)
  BY DEF CoderInit, HoldsFound, Answered, Reading
<1> QED
  BY <1>1, <1>2, <1>3 DEF AnswerInv

(* Every call answers as the two functions do on one state of both tables   *)
(* that was in force during the call, for any number of threads that        *)
(* register and ask (FixCode.cpp:16-85).                                    *)
THEOREM OneTableAnswers == CoderSpec => []AnswersFromOneTable
<1>1. AnswerInv => AnswersFromOneTable
  BY DEF AnswerInv, Answered, AnswersFromOneTable, Reading
<1> QED
  BY <1>1, AnswerInit, AnswerStep, TablesAlways, PTL DEF CoderSpec

-----------------------------------------------------------------------------
(* FixSessionVerity                                                         *)

(* What validate compares with was registered: the table holds pairs of     *)
(* `registered' only.                                                       *)
TableIsRegistered ==
  /\ allowedPairs \in [Senders -> Targets \cup {NoTarget}]
  /\ \A s \in Senders :
       allowedPairs[s] # NoTarget => <<s, allowedPairs[s]>> \in registered

LEMMA HeaderTags ==
  ASSUME NEW h \in Headers, TAG_SENDER_COMP_ID \in DOMAIN h
  PROVE  h[TAG_SENDER_COMP_ID] \in Senders
BY DEF Headers

LEMMA RegisteredStep ==
  ASSUME TableIsRegistered, AcceptedWereRegistered, [VerityNext]_verityVars
  PROVE  TableIsRegistered' /\ AcceptedWereRegistered'
<1>1. ASSUME NEW s \in Senders, NEW t \in Targets, addAllowedPair(s, t)
      PROVE  TableIsRegistered' /\ AcceptedWereRegistered'
  <2>1. TableIsRegistered'
    BY <1>1 DEF addAllowedPair, TableIsRegistered
  <2>2. AcceptedWereRegistered'
    BY <1>1 DEF addAllowedPair, AcceptedWereRegistered
  <2> QED
    BY <2>1, <2>2
<1>2. ASSUME NEW h \in Headers, validate(h)
      PROVE  TableIsRegistered' /\ AcceptedWereRegistered'
  <2>1. TableIsRegistered'
    BY <1>2 DEF validate, TableIsRegistered
  <2>2. ASSUME Accepts(h)
        PROVE  <<GetTagValue(h, TAG_SENDER_COMP_ID), GetTagValue(h, TAG_TARGET_COMP_ID)>>
                 \in registered
    <3>1. /\ h[TAG_SENDER_COMP_ID] \in Senders
          /\ GetTagValue(h, TAG_SENDER_COMP_ID) = h[TAG_SENDER_COMP_ID]
          /\ GetTagValue(h, TAG_TARGET_COMP_ID) = h[TAG_TARGET_COMP_ID]
      BY <2>2, HeaderTags DEF Accepts, GetTagValue
    <3> QED
      BY <2>2, <3>1 DEF Accepts, TableIsRegistered
  <2>3. AcceptedWereRegistered'
    BY <1>2, <2>2 DEF validate, AcceptedWereRegistered, HeaderPair
  <2> QED
    BY <2>1, <2>3
<1>3. CASE UNCHANGED verityVars
  BY <1>3 DEF verityVars, TableIsRegistered, AcceptedWereRegistered, HeaderPair
<1> QED
  BY <1>1, <1>2, <1>3 DEF VerityNext

(* Whatever pairs are registered, and in whatever order, validate accepts a *)
(* header only if it names a pair that was registered                       *)
(* (FixSessionVerity.cpp:26-44).                                            *)
THEOREM OnlyRegisteredAccepted == VeritySpec => []AcceptedWereRegistered
<1>1. VerityInit => TableIsRegistered /\ AcceptedWereRegistered
  BY DEF VerityInit, TableIsRegistered, AcceptedWereRegistered
<1>2. TableIsRegistered /\ AcceptedWereRegistered /\ [VerityNext]_verityVars
        => TableIsRegistered' /\ AcceptedWereRegistered'
  BY RegisteredStep
<1> QED
  BY <1>1, <1>2, PTL DEF VeritySpec
=============================================================================
