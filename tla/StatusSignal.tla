------------------------------ MODULE StatusSignal ------------------------------
(***************************************************************************)
(* SIGUSR1 in the hub: the handler interrupts the hub's only thread        *)
(* wherever it is and writes a byte into a pipe; the event loop sees the   *)
(* pipe readable, reads one byte and dumps the sessions                    *)
(* (server/src/FixServer.cpp, setupSignalHandlers to handleStatusSignal).  *)
(***************************************************************************)
EXTENDS Naturals

CONSTANTS
  Capacity,     (* bytes the pipe holds                                     *)
  MaxSignals    (* bound: signals sent                                      *)

ASSUME SignalAssumption == Capacity \in Nat \ {0} /\ MaxSignals \in Nat

VARIABLES
  pending,    (* SIGUSR1 is pending: further ones merge with it             *)
  handling,   (* the thread is in statusSignalHandler                       *)
  pipe,       (* bytes in the pipe                                          *)
  thread,     (* what the signal interrupts: "poll", "slot" (another slot), *)
              (* "read" and "dump" of handleStatusSignal                    *)
  signals,    (* signals sent so far                                        *)
  dumps,      (* dumps begun so far                                         *)
  waiting     (* a signal was sent and no dump has begun since              *)

signalVars == <<pending, handling, pipe, thread, signals, dumps, waiting>>

SignalInit ==
  /\ pending = FALSE /\ handling = FALSE
  /\ pipe = 0
  /\ thread = "poll"
  /\ signals = 0 /\ dumps = 0 /\ waiting = FALSE

Signal ==
  /\ signals < MaxSignals
  /\ signals' = signals + 1
  /\ pending' = TRUE /\ waiting' = TRUE
  /\ UNCHANGED <<handling, pipe, thread, dumps>>

(* The signal is blocked while its handler runs.                            *)
Deliver ==
  /\ pending /\ ~handling
  /\ pending' = FALSE /\ handling' = TRUE
  /\ UNCHANGED <<pipe, thread, signals, dumps, waiting>>

(* Faulty variant: the handler forgets the byte when the thread is busy.    *)
HandlerWrites_WhenPolling ==
  /\ handling
  /\ pipe < Capacity
  /\ pipe' = IF thread = "poll" THEN pipe + 1 ELSE pipe
  /\ handling' = FALSE
  /\ UNCHANGED <<pending, thread, signals, dumps, waiting>>

HandlerWrites ==
  /\ handling
  /\ pipe < Capacity
  /\ pipe' = pipe + 1
  /\ handling' = FALSE
  /\ UNCHANGED <<pending, thread, signals, dumps, waiting>>

(* write() to a full pipe in blocking mode waits for room, which only the   *)
(* thread that it keeps waiting could make.                                 *)
HandlerIsStuck == handling /\ pipe = Capacity
HandlerWaits   == HandlerIsStuck /\ UNCHANGED signalVars

(* The thread's own steps; in the handler it takes none.                    *)
Runs(from, to) == ~handling /\ thread = from /\ thread' = to

(* Faulty variant: the slot is called without a byte to read.               *)
Activated_Always ==
  /\ Runs("poll", "read")
  /\ UNCHANGED <<pending, handling, pipe, signals, dumps, waiting>>

(* The notifier of the pipe's read end.                                     *)
Activated ==
  /\ Runs("poll", "read") /\ pipe > 0
  /\ UNCHANGED <<pending, handling, pipe, signals, dumps, waiting>>

(* Faulty variant: the byte stays in the pipe.                              *)
ReadByte_Peeks ==
  /\ Runs("read", "dump") /\ pipe > 0
  /\ dumps' = dumps + 1 /\ waiting' = FALSE
  /\ UNCHANGED <<pending, handling, pipe, signals>>

ReadByte ==
  /\ Runs("read", "dump") /\ pipe > 0
  /\ pipe' = pipe - 1
  /\ dumps' = dumps + 1 /\ waiting' = FALSE
  /\ UNCHANGED <<pending, handling, signals>>

SlotReturns ==
  /\ Runs("dump", "poll") \/ Runs("slot", "poll")
  /\ UNCHANGED <<pending, handling, pipe, signals, dumps, waiting>>

OtherSlot ==
  /\ Runs("poll", "slot")
  /\ UNCHANGED <<pending, handling, pipe, signals, dumps, waiting>>

SignalNext ==
  \/ Signal \/ Deliver \/ HandlerWrites \/ HandlerWaits
  \/ Activated \/ ReadByte \/ SlotReturns \/ OtherSlot

SignalSpec == SignalInit /\ [][SignalNext]_signalVars

(* The kernel delivers, the thread runs, and the event loop comes to the    *)
(* pipe although other slots run again and again.                           *)
SignalFairness ==
  /\ WF_signalVars(Deliver) /\ WF_signalVars(HandlerWrites)
  /\ WF_signalVars(ReadByte) /\ WF_signalVars(SlotReturns)
  /\ SF_signalVars(Activated)

-----------------------------------------------------------------------------
(* Properties                                                               *)

(* Every variable has its type.                                             *)
SignalTypeOK ==
  /\ pending \in BOOLEAN /\ handling \in BOOLEAN
  /\ pipe \in 0 .. Capacity
  /\ thread \in {"poll", "slot", "read", "dump"}
  /\ signals \in Nat /\ dumps \in Nat
  /\ waiting \in BOOLEAN

(* handleStatusSignal never blocks in read(): it is called only when there  *)
(* is a byte for it, and nobody else takes it (FixServer.cpp:51).           *)
ReadNeverBlocks == thread = "read" => pipe > 0

(* Each dump was asked for: there are no more dumps than signals, however   *)
(* signals merge and bytes pile up (FixServer.cpp:42-51).                   *)
Ones(b) == IF b THEN 1 ELSE 0
NoDumpUnasked == dumps + pipe + Ones(pending) + Ones(handling) <= signals

(* Who asks for a dump gets one that begins after the request, although     *)
(* signals merge and one dump may answer several (README.md:19), unless the *)
(* signals come so much faster than the loop reads their bytes that one of  *)
(* them finds the pipe full: its handler never returns (FixServer.cpp:44).  *)
RequestIsAnswered == waiting ~> ~waiting \/ HandlerIsStuck

=============================================================================
