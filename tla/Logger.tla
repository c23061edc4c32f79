-------------------------------- MODULE Logger --------------------------------
(***************************************************************************)
(* The logger that hub and clients share (common/Logger.cpp): threads that *)
(* call log(), the stamp taken through localtime()'s static buffer, the    *)
(* mutex around the two outputs, and init().                               *)
(***************************************************************************)
EXTENDS Naturals, Sequences

CONSTANTS
  Threads,      (* callers                                                  *)
  Main,         (* the one that calls init()                                *)
  Nobody,       (* the mutex is free                                        *)
  UsedLevels,   (* levels the calls choose from                             *)
  MaxCalls,     (* bound: calls of each thread                              *)
  MaxClock      (* bound: ticks of the clock                                *)

DEBUG == 0
INFO  == 1
WARN  == 2
ERROR == 3
Levels == DEBUG .. ERROR

ASSUME LoggerAssumption ==
  /\ Main \in Threads /\ Nobody \notin Threads
  /\ UsedLevels \subseteq Levels
  /\ MaxCalls \in Nat /\ MaxClock \in Nat

VARIABLES
  initialized,  (* initialized_                                             *)
  minLevel,     (* minLevel_                                                *)
  logFile,      (* logFile_: "closed", "good", or "bad" after a failure     *)
  mutex,        (* who holds mutex_                                         *)
  clock,        (* the system's time, in two digits                         *)
  tm,           (* localtime()'s static buffer: <<high digit, low digit>>   *)
  pc,           (* where each thread is                                     *)
  call,         (* what it logs: level, time taken, stamp formatted so far  *)
  calls,        (* calls it has made                                        *)
  console, file (* lines written, oldest first                              *)

loggerVars == <<initialized, minLevel, logFile, mutex, clock, tm, pc, call, calls,
          console, file>>

NoCall == [level |-> INFO, at |-> <<0, 0>>, stamp |-> <<0, 0>>]

LoggerInit ==
  /\ initialized = FALSE /\ minLevel = INFO /\ logFile = "closed"
  /\ mutex = Nobody
  /\ clock = 0 /\ tm = <<0, 0>>
  /\ pc = [t \in Threads |-> "out"]
  /\ call = [t \in Threads |-> NoCall]
  /\ calls = [t \in Threads |-> 0]
  /\ console = <<>> /\ file = <<>>

Digits(n) == <<n \div 2, n % 2>>

Goes(t, from, to) == pc[t] = from /\ pc' = [pc EXCEPT ![t] = to]

Tick ==
  /\ clock < MaxClock
  /\ clock' = clock + 1
  /\ UNCHANGED <<initialized, minLevel, logFile, mutex, tm, pc, call, calls,
                 console, file>>

(* log(): the early return.                                                 *)
Enter(t, level) == [call EXCEPT ![t].level = level]

Log(t) == \E level \in UsedLevels :
  /\ calls[t] < MaxCalls
  /\ Goes(t, "out", IF ~initialized \/ level < minLevel THEN "out" ELSE "now")
  /\ calls' = [calls EXCEPT ![t] = @ + 1]
  /\ call' = Enter(t, level)
  /\ UNCHANGED <<initialized, minLevel, logFile, mutex, clock, tm, console, file>>

(* system_clock::now()                                                      *)
Now(t) ==
  /\ Goes(t, "now", "localtime")
  /\ call' = [call EXCEPT ![t].at = Digits(clock)]
  /\ UNCHANGED <<initialized, minLevel, logFile, mutex, clock, tm, calls, console, file>>

LocalTime(t) ==
  /\ Goes(t, "localtime", "high")
  /\ tm' = call[t].at
  /\ UNCHANGED <<initialized, minLevel, logFile, mutex, clock, call, calls, console, file>>

(* put_time() reads the buffer field by field; another thread's localtime() *)
(* may come in between.                                                     *)
PutTime(t) ==
  /\ \/ /\ Goes(t, "high", "low")
        /\ call' = [call EXCEPT ![t].stamp = <<tm[1], @[2]>>]
     \/ /\ Goes(t, "low", "lock")
        /\ call' = [call EXCEPT ![t].stamp = <<@[1], tm[2]>>]
  /\ UNCHANGED <<initialized, minLevel, logFile, mutex, clock, tm, calls, console, file>>

(* Faulty variant: the mutex is not taken.                                  *)
Lock_None(t) ==
  /\ Goes(t, "lock", "console")
  /\ UNCHANGED <<initialized, minLevel, logFile, mutex, clock, tm, call, calls,
                 console, file>>

Lock(t) ==
  /\ mutex = Nobody
  /\ Goes(t, "lock", "console")
  /\ mutex' = t
  /\ UNCHANGED <<initialized, minLevel, logFile, clock, tm, call, calls, console, file>>

Line(t) == [by |-> t, n |-> calls[t], said |-> call[t]]

WriteConsole(t) ==
  /\ Goes(t, "console", "file")
  /\ console' = Append(console, Line(t))
  /\ UNCHANGED <<initialized, minLevel, logFile, mutex, clock, tm, call, calls, file>>

(* A write that fails leaves the stream bad, and a bad stream drops every   *)
(* later line.                                                              *)
WriteFile(t) ==
  /\ Goes(t, "file", "unlock")
  /\ \/ logFile = "good" /\ file' = Append(file, Line(t)) /\ UNCHANGED logFile
     \/ logFile = "good" /\ logFile' = "bad" /\ UNCHANGED file
     \/ logFile # "good" /\ UNCHANGED <<file, logFile>>
  /\ UNCHANGED <<initialized, minLevel, mutex, clock, tm, call, calls, console>>

Unlock(t) ==
  /\ Goes(t, "unlock", "out")
  /\ mutex' = Nobody
  /\ UNCHANGED <<initialized, minLevel, logFile, clock, tm, call, calls, console, file>>

(* init(): only the first call does anything; it ends in a call of info().  *)
InitCall(level) ==
  /\ calls[Main] < MaxCalls
  /\ Goes(Main, "out", IF initialized THEN "out" ELSE "open")
  /\ minLevel' = IF initialized THEN minLevel ELSE level
  /\ calls' = [calls EXCEPT ![Main] = @ + 1]
  /\ UNCHANGED <<initialized, logFile, mutex, clock, tm, call, console, file>>

Open ==
  /\ Goes(Main, "open", "ready")
  /\ logFile' \in {"good", "closed"}
  /\ UNCHANGED <<initialized, minLevel, mutex, clock, tm, call, calls, console, file>>

Ready ==
  /\ initialized' = TRUE
  /\ Goes(Main, "ready", IF INFO < minLevel THEN "out" ELSE "now")
  /\ call' = Enter(Main, INFO)
  /\ UNCHANGED <<minLevel, logFile, mutex, clock, tm, calls, console, file>>

Step(t) ==
  \/ Log(t) \/ Now(t) \/ LocalTime(t) \/ PutTime(t)
  \/ Lock(t) \/ WriteConsole(t) \/ WriteFile(t) \/ Unlock(t)

InitSteps == (\E level \in UsedLevels : InitCall(level)) \/ Open \/ Ready

AllDone == /\ \A t \in Threads : pc[t] = "out" /\ calls[t] = MaxCalls
           /\ UNCHANGED loggerVars

LoggerNext == Tick \/ (\E t \in Threads : Step(t)) \/ InitSteps \/ AllDone

LoggerSpec == LoggerInit /\ [][LoggerNext]_loggerVars

-----------------------------------------------------------------------------
(* Properties                                                               *)

Stamps == Nat \X {0, 1}
LogCalls  == [level : Levels, at : Stamps, stamp : Stamps]
Lines  == [by : Threads, n : Nat, said : LogCalls]
Places == {"out", "now", "localtime", "high", "low", "lock", "console", "file",
           "unlock", "open", "ready"}

(* Every variable has its type.                                             *)
LoggerTypeOK ==
  /\ initialized \in BOOLEAN
  /\ minLevel \in Levels
  /\ logFile \in {"closed", "good", "bad"}
  /\ mutex \in Threads \cup {Nobody}
  /\ clock \in Nat
  /\ tm \in Stamps
  /\ pc \in [Threads -> Places]
  /\ call \in [Threads -> LogCalls]
  /\ calls \in [Threads -> Nat]
  /\ console \in Seq(Lines)
  /\ file \in Seq(Lines)

(* The log file says what the console said, in the same order and without a *)
(* gap, up to the line where it stops: at most the line being written while *)
(* the file is healthy, anything once a write has failed (Logger.cpp:75-87).*)
FileFollowsConsole ==
  logFile # "closed" =>
    /\ Len(file) <= Len(console)
    /\ \A i \in 1 .. Len(file) : file[i] = console[i]
    /\ logFile = "good" /\ mutex = Nobody => Len(file) = Len(console)

=============================================================================
