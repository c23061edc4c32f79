----------------------------- MODULE MessageStore -----------------------------
(***************************************************************************)
(* common/MessageStore.cpp, one action per file operation.  The caller is  *)
(* the hub's only thread, so one call runs at a time; what may come        *)
(* between two steps of a call is the death of the process, and any step   *)
(* may fail as the file system pleases.                                    *)
(*                                                                         *)
(* A message is its ticket (the number of the storeMessage call) and       *)
(* whether all of its bytes are in the file.  A file is named by a clock   *)
(* reading.  Files that are no messages are left out: nothing writes one.  *)
(***************************************************************************)
EXTENDS Integers, Sequences, FiniteSets

CONSTANTS
  Targets,        (* the CompIDs messages are stored for                    *)
  NoTarget,       (* no call is running                                     *)
  NoFile,         (* no file of that name in a directory                    *)
  Faults,         (* the operations that may fail                           *)
  ClockMaySlip,   (* the system clock may be set back                       *)
  MaxClock, MaxTickets, MaxHanded  (* bounds: clock readings, storeMessage  *)
                  (* calls, messages returned per target                    *)

Times  == 0 .. MaxClock
Stored == [n : Nat \ {0}, whole : BOOLEAN]
Operations == {"init", "mkdir", "create", "write", "list", "open", "remove"}

ASSUME StoreAssumption ==
  /\ NoTarget \notin Targets
  /\ NoFile \notin Stored
  /\ Faults \subseteq Operations
  /\ ClockMaySlip \in BOOLEAN
  /\ MaxClock \in Nat
  /\ MaxTickets \in Nat

VARIABLES
  pc,         (* the next step of the call; "idle", or "down" after a crash *)
  ready,      (* initialized_                                               *)
  clock,      (* system_clock, in milliseconds                              *)
  dirs,       (* the targets whose directory exists                         *)
  files,      (* <storagePath_>/<target>/<milliseconds>.fix                 *)
  target,     (* targetCompId of the call                                   *)
  name,       (* the file being written, or read and removed                *)
  todo,       (* the names in `files' of getAndClearQueuedMessages not yet  *)
              (* looked at; the loop takes the least one                    *)
  messages,   (* `messages' of getAndClearQueuedMessages                    *)
  issued,     (* storeMessage calls so far                                  *)
  accepted,   (* the tickets for which storeMessage returned true           *)
  handed,     (* what getAndClearQueuedMessages has returned, per target    *)
  lost,       (* tickets whose file was truncated by another message, or    *)
              (* whose process died after removing it                       *)
  torn,       (* tickets hit by a write error or a crash while written      *)
  again,      (* tickets whose file could not be removed                    *)
  skipped     (* tickets whose file could not be opened                     *)

callVars  == <<target, name, todo, messages>>
storeVars == <<ready, clock, dirs, files>>
fateVars  == <<accepted, handed, lost, torn, again, skipped>>
vars == <<pc, storeVars, callVars, issued, fateVars>>

EmptyDir == [t \in Times |-> NoFile]

Init ==
  /\ pc = "down"
  /\ ready = FALSE
  /\ clock = 0
  /\ dirs = {}
  /\ files = [c \in Targets |-> EmptyDir]
  /\ target = NoTarget /\ name = 0 /\ todo = {} /\ messages = <<>>
  /\ issued = 0
  /\ accepted = {} /\ handed = [c \in Targets |-> <<>>]
  /\ lost = {} /\ torn = {} /\ again = {} /\ skipped = {}

FileNames(c) == {t \in Times : files[c][t] # NoFile}
TicketsIn(s) == {s[i].n : i \in DOMAIN s}
KeptTickets(c) == {files[c][t].n : t \in FileNames(c)}

Fails(op) == op \in Faults

(* MessageStore::init, called once by FixServer::start.                     *)
InitStore ==
  /\ pc = "down"
  /\ pc' = "idle"
  /\ ready' \in {TRUE} \cup (IF Fails("init") THEN {FALSE} ELSE {})
  /\ UNCHANGED <<clock, dirs, files, callVars, issued, fateVars>>

-----------------------------------------------------------------------------
(* storeMessage                                                             *)

CallStore(c) ==
  /\ pc = "idle"
  /\ issued < MaxTickets
  /\ issued' = issued + 1
  /\ IF ready
       THEN /\ target' = c
            /\ pc' = IF c \in dirs THEN "create" ELSE "mkdir"
       ELSE UNCHANGED <<target, pc>>           (* returns false             *)
  /\ UNCHANGED <<storeVars, name, todo, messages, fateVars>>

(* A filesystem_error is caught and the call returns false.                 *)
StoreFails(op) ==
  /\ Fails(op)
  /\ pc' = "idle" /\ target' = NoTarget
  /\ UNCHANGED <<storeVars, name, todo, messages, issued, fateVars>>

MakeDirectory ==
  /\ pc = "mkdir"
  /\ dirs' = dirs \cup {target}
  /\ pc' = "create"
  /\ UNCHANGED <<ready, clock, files, callVars, issued, fateVars>>

(* Faulty variant: a name that is taken is not overwritten but left alone.  *)
CreateFile_KeepsOld ==
  /\ pc = "create"
  /\ name' = clock
  /\ pc' = "write"
  /\ files' = IF files[target][clock] = NoFile
                THEN [files EXCEPT ![target][clock] =
                        [n |-> issued, whole |-> FALSE]]
                ELSE files
  /\ UNCHANGED <<ready, clock, dirs, target, todo, messages, issued, accepted,
                 handed, lost, torn, again, skipped>>

(* ofstream opens the file named by the clock, truncating one that has the  *)
(* same name.                                                               *)
CreateFile ==
  /\ pc = "create"
  /\ name' = clock
  /\ files' = [files EXCEPT ![target][clock] = [n |-> issued, whole |-> FALSE]]
  /\ lost' = lost \cup (IF files[target][clock] = NoFile
                          THEN {} ELSE {files[target][clock].n})
  /\ pc' = "write"
  /\ UNCHANGED <<ready, clock, dirs, target, todo, messages, issued, accepted,
                 handed, torn, again, skipped>>

(* `file << rawMessage' may leave all, some or none of it in the stream's   *)
(* buffer.                                                                  *)
WriteFile ==
  /\ pc = "write"
  /\ \E done \in BOOLEAN : files' = [files EXCEPT ![target][name].whole = done]
  /\ pc' = "close"
  /\ UNCHANGED <<ready, clock, dirs, callVars, issued, fateVars>>

(* Faulty variant: the stream is not closed before the call returns.        *)
CloseFile_Unflushed ==
  /\ pc = "close"
  /\ UNCHANGED <<files, torn>>
  /\ accepted' = accepted \cup {issued}
  /\ pc' = "idle" /\ target' = NoTarget
  /\ UNCHANGED <<ready, clock, dirs, name, todo, messages, issued, handed,
                 lost, again, skipped>>

(* close() flushes; an error of it or of the write before sets a bit of the *)
(* stream that nobody looks at: the call returns true.                      *)
CloseFile ==
  /\ pc = "close"
  /\ \/ /\ files' = [files EXCEPT ![target][name].whole = TRUE]
        /\ UNCHANGED torn
     \/ /\ Fails("write")
        /\ files' = [files EXCEPT ![target][name].whole = FALSE]
        /\ torn' = torn \cup {issued}
  /\ accepted' = accepted \cup {issued}
  /\ pc' = "idle" /\ target' = NoTarget
  /\ UNCHANGED <<ready, clock, dirs, name, todo, messages, issued, handed,
                 lost, again, skipped>>

-----------------------------------------------------------------------------
(* getAndClearQueuedMessages                                                *)

(* Not initialised, or no directory: it returns nothing at once.            *)
CallFetch(c) ==
  /\ pc = "idle"
  /\ ready /\ c \in dirs
  /\ Len(handed[c]) + Cardinality(FileNames(c)) <= MaxHanded
  /\ target' = c
  /\ pc' = "list"
  /\ UNCHANGED <<storeVars, name, todo, messages, issued, fateVars>>

ListDirectory ==
  /\ pc = "list"
  /\ \/ /\ todo' = FileNames(target)
        /\ pc' = "read"
     \/ /\ Fails("list")
        /\ pc' = "return"
        /\ UNCHANGED todo
  /\ UNCHANGED <<storeVars, target, name, messages, issued, fateVars>>

Least(t) == t \in todo /\ \A u \in todo : t <= u

(* Faulty variant: the directory's order instead of the sorted one.         *)
ReadFile_AnyOrder(t) ==
  /\ pc = "read"
  /\ t \in todo
  /\ name' = t
  /\ messages' = Append(messages, files[target][t])
  /\ pc' = "remove"
  /\ UNCHANGED <<storeVars, target, todo, issued, fateVars>>

ReadFile(t) ==
  /\ pc = "read"
  /\ Least(t)
  /\ name' = t
  /\ messages' = Append(messages, files[target][t])
  /\ pc' = "remove"
  /\ UNCHANGED <<storeVars, target, todo, issued, fateVars>>

(* A file that does not open is passed over and stays.                      *)
SkipFile(t) ==
  /\ pc = "read"
  /\ Least(t)
  /\ Fails("open")
  /\ todo' = todo \ {t}
  /\ skipped' = skipped \cup {files[target][t].n}
  /\ UNCHANGED <<pc, storeVars, target, name, messages, issued, accepted, handed,
                 lost, torn, again>>

(* Faulty variant: read but not removed.                                    *)
RemoveFile_Keeps ==
  /\ pc = "remove"
  /\ todo' = todo \ {name}
  /\ pc' = "read"
  /\ UNCHANGED <<storeVars, target, name, messages, issued, fateVars>>

(* fs::remove; when it throws, the catch ends the loop and the message just *)
(* read is returned although its file stays.                                *)
RemoveFile ==
  /\ pc = "remove"
  /\ \/ /\ files' = [files EXCEPT ![target][name] = NoFile]
        /\ todo' = todo \ {name}
        /\ pc' = "read"
        /\ UNCHANGED again
     \/ /\ Fails("remove")
        /\ again' = again \cup {files[target][name].n}
        /\ pc' = "return"
        /\ UNCHANGED <<files, todo>>
  /\ UNCHANGED <<ready, clock, dirs, target, name, messages, issued, accepted,
                 handed, lost, torn, skipped>>

Return ==
  /\ pc = "return" \/ (pc = "read" /\ todo = {})
  /\ handed' = [handed EXCEPT ![target] = @ \o messages]
  /\ messages' = <<>> /\ todo' = {}
  /\ pc' = "idle" /\ target' = NoTarget
  /\ UNCHANGED <<storeVars, name, issued, accepted, lost, torn, again,
                 skipped>>

-----------------------------------------------------------------------------
(* The environment                                                          *)

Tick ==
  /\ \E t \in Times : (ClockMaySlip \/ t > clock) /\ clock' = t
  /\ UNCHANGED <<pc, ready, dirs, files, callVars, issued, fateVars>>

(* The process dies, of itself or of an exception that no handler names     *)
(* (ios_base::failure of a read, filesystem_error of the fs::exists that    *)
(* precedes the try): the files stay as they are.                           *)
Crash ==
  /\ pc # "down"
  /\ pc' = "down" /\ ready' = FALSE
  /\ torn' = IF pc \in {"write", "close"} /\ ~files[target][name].whole
               THEN torn \cup {issued} ELSE torn
  /\ lost' = IF target \in Targets
               THEN lost \cup (TicketsIn(messages) \ KeptTickets(target))
               ELSE lost
  /\ target' = NoTarget /\ messages' = <<>> /\ todo' = {}
  /\ UNCHANGED <<clock, dirs, files, name, issued, accepted, handed, again,
                 skipped>>

(* The steps of a call that runs.                                           *)
Step ==
  \/ MakeDirectory \/ CreateFile \/ WriteFile \/ CloseFile
  \/ (pc = "mkdir" /\ StoreFails("mkdir"))
  \/ (pc = "create" /\ StoreFails("create"))
  \/ ListDirectory \/ RemoveFile \/ Return
  \/ \E t \in Times : ReadFile(t) \/ SkipFile(t)

Next ==
  \/ InitStore \/ Step \/ Tick \/ Crash
  \/ \E c \in Targets : CallStore(c) \/ CallFetch(c)

Spec == Init /\ [][Next]_vars

-----------------------------------------------------------------------------
(* Properties                                                               *)

(* Every variable has its type.                                             *)
TypeOK ==
  /\ pc \in {"down", "idle", "mkdir", "create", "write", "close", "list",
             "read", "remove", "return"}
  /\ ready \in BOOLEAN
  /\ clock \in Times
  /\ dirs \subseteq Targets
  /\ files \in [Targets -> [Times -> Stored \cup {NoFile}]]
  /\ target \in Targets \cup {NoTarget}
  /\ name \in Times
  /\ todo \subseteq Times
  /\ messages \in Seq(Stored)
  /\ issued \in Nat
  /\ accepted \subseteq Nat
  /\ handed \in [Targets -> Seq(Stored)]
  /\ lost \subseteq Nat /\ torn \subseteq Nat /\ again \subseteq Nat
  /\ skipped \subseteq Nat

BeingWritten(c, t) == pc \in {"write", "close"} /\ c = target /\ t = name

(* A message that storeMessage accepted is in a file, on its way out of     *)
(* getAndClearQueuedMessages, or was returned by it, whatever failed or     *)
(* crashed in between; it is gone only when a later message took its file   *)
(* name or a crash fell between removing its file and returning             *)
(* (MessageStore.cpp:53 and :92).                                           *)
NothingUnaccounted ==
  \A n \in accepted :
    \/ n \in lost
    \/ \E c \in Targets : n \in KeptTickets(c) \cup TicketsIn(handed[c])
    \/ n \in TicketsIn(messages)

(* A message of which a part is missing comes only from a crash or a write  *)
(* error during its own storeMessage: no other call, and no failure         *)
(* elsewhere, damages what is in a file or handed over                      *)
(* (MessageStore.cpp:53-57).                                                *)
TornOnlyByFailure ==
  /\ \A c \in Targets : \A t \in FileNames(c) :
       ~files[c][t].whole =>
         files[c][t].n \in torn \/ BeingWritten(c, t)
  /\ \A c \in Targets : \A i \in DOMAIN handed[c] :
       ~handed[c][i].whole => handed[c][i].n \in torn

(* A message is returned once, whatever crashes and restarts come between,  *)
(* unless its file could not be removed (MessageStore.cpp:92).              *)
ReturnedOnce ==
  \A c, d \in Targets : \A i \in DOMAIN handed[c], j \in DOMAIN handed[d] :
    handed[c][i].n = handed[d][j].n /\ <<c, i>> # <<d, j>>
      => handed[c][i].n \in again

(* Successive calls return the messages of a target in the order they were  *)
(* stored (README.md:18), whatever crashes and fails in between: an older   *)
(* message comes after a younger one only if its file once did not open,    *)
(* and a message comes twice only if its file could not be removed          *)
(* (MessageStore.cpp:86-95).                                                *)
HandedInOrder ==
  \A c \in Targets : \A i, j \in DOMAIN handed[c] :
    i < j => LET first == handed[c][i].n
                 later == handed[c][j].n
             IN \/ first < later
                \/ first > later /\ later \in skipped
                \/ first = later /\ later \in again

-----------------------------------------------------------------------------
(* The store implements OfflineQueue: what is read stays kept until it is   *)
(* returned.                                                                *)
Numbers(s) == [i \in DOMAIN s |-> s[i].n]

Queue == INSTANCE OfflineQueue WITH
  Owners <- Targets,
  last   <- issued,
  kept   <- [c \in Targets |-> KeptTickets(c) \cup
               (IF c = target THEN TicketsIn(messages) ELSE {})],
  handed <- [c \in Targets |-> Numbers(handed[c])]

(* Seen from outside a call takes effect at once: failures, crashes and     *)
(* restarts between its steps show only as a torn newest message, as        *)
(* messages that stay kept, or as the loss of some that were about to be    *)
(* returned (MessageStore.cpp:53-57, :80-97).                               *)
RefinesQueue == Queue!QueueSpec
=============================================================================
