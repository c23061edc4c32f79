-------------------------- MODULE MessageStoreProofs --------------------------
(***************************************************************************)
(* Proofs about MessageStore, for any set of targets, any failing          *)
(* operations, any clock and any number of messages.                       *)
(***************************************************************************)
EXTENDS MessageStore, FiniteSetTheorems, SequenceTheorems, TLAPS

-----------------------------------------------------------------------------
(* Writing and removing one file                                            *)

Directories == [Targets -> [Times -> Stored \cup {NoFile}]]

FileType == files \in Directories

(* The directories fs with f in the place of the file t of c.               *)
Put(fs, c, t, f) == [fs EXCEPT ![c][t] = f]

LEMMA FileSet ==
  ASSUME NEW fs \in Directories, NEW c \in Targets, NEW t \in Times,
         NEW f \in Stored \cup {NoFile}
  PROVE  /\ Put(fs, c, t, f) \in Directories
         /\ Put(fs, c, t, f)[c][t] = f
         /\ \A d \in Targets, u \in Times :
              (d # c \/ u # t) => Put(fs, c, t, f)[d][u] = fs[d][u]
BY DEF Directories, Put

(* The same file, all of it there or not.                                   *)
Mark(f, b) == [n |-> f.n, whole |-> b]

SetWhole(fs, c, t, b) == [fs EXCEPT ![c][t].whole = b]

LEMMA WholeSet ==
  ASSUME NEW fs \in Directories, NEW c \in Targets, NEW t \in Times,
         fs[c][t] \in Stored, NEW b \in BOOLEAN
  PROVE  /\ Mark(fs[c][t], b) \in Stored
         /\ Mark(fs[c][t], b).n = fs[c][t].n /\ Mark(fs[c][t], b).whole = b
         /\ SetWhole(fs, c, t, b) = Put(fs, c, t, Mark(fs[c][t], b))
<1>1. Mark(fs[c][t], b) \in Stored /\ Mark(fs[c][t], b) = [fs[c][t] EXCEPT !.whole = b]
  BY DEF Stored, Mark
<1>2. Mark(fs[c][t], b).n = fs[c][t].n /\ Mark(fs[c][t], b).whole = b
  BY DEF Mark
<1>3. [fs EXCEPT ![c][t].whole = b]
        = [fs EXCEPT ![c] = [fs[c] EXCEPT ![t] = [fs[c][t] EXCEPT !.whole = b]]]
  OBVIOUS
<1>4. [fs EXCEPT ![c][t].whole = b] = [fs EXCEPT ![c] = [fs[c] EXCEPT ![t] = Mark(fs[c][t], b)]]
  BY <1>1, <1>3, Zenon
<1>5. SetWhole(fs, c, t, b) = Put(fs, c, t, Mark(fs[c][t], b))
  BY <1>4 DEF Put, SetWhole
<1> QED
  BY <1>1, <1>2, <1>5, Zenon

LEMMA SeqAppend ==
  ASSUME NEW S, NEW s \in Seq(S), NEW e \in S
  PROVE  /\ Append(s, e) \in Seq(S)
         /\ Len(Append(s, e)) = Len(s) + 1
         /\ Append(s, e)[Len(s) + 1] = e
         /\ \A i \in 1 .. Len(s) : Append(s, e)[i] = s[i]
OBVIOUS

LEMMA SeqConcat ==
  ASSUME NEW S, NEW s \in Seq(S), NEW r \in Seq(S)
  PROVE  /\ s \o r \in Seq(S)
         /\ Len(s \o r) = Len(s) + Len(r)
         /\ \A i \in 1 .. Len(s) : (s \o r)[i] = s[i]
         /\ \A i \in 1 .. Len(r) : (s \o r)[Len(s) + i] = r[i]
         /\ \A k \in (1 .. Len(s) + Len(r)) \ (1 .. Len(s)) :
              k - Len(s) \in 1 .. Len(r) /\ (s \o r)[k] = r[k - Len(s)]
OBVIOUS

LEMMA StoredType ==
  ASSUME NEW f \in Stored
  PROVE  f.n \in Nat /\ f.n # 0 /\ f.whole \in BOOLEAN /\ f # NoFile
BY StoreAssumption DEF Stored

-----------------------------------------------------------------------------
(* Types, and where a call is                                               *)

Calling == {"mkdir", "create", "write", "close", "list", "read", "remove", "return"}
Fetching == {"list", "read", "remove", "return"}

(* A call has a target; the file it writes is its own ticket's, the files   *)
(* it has yet to read are there, and the one it is about to remove is what  *)
(* it read last.                                                            *)
CallInv ==
  /\ pc \in Calling => target \in Targets
  /\ pc \notin Calling => target = NoTarget
  /\ pc \notin Fetching => messages = <<>>
  /\ pc \in {"mkdir", "create", "write", "close"} => issued # 0
  /\ pc \in {"write", "close"} =>
       files[target][name] # NoFile /\ files[target][name].n = issued
  /\ pc \in {"read", "remove"} => \A t \in todo : files[target][t] # NoFile
  /\ pc = "remove" => /\ name \in todo
                      /\ messages # <<>> /\ messages[Len(messages)] = files[target][name]

StoreInv == TypeOK /\ CallInv

LEMMA StoreInit == ASSUME Init PROVE StoreInv
<1>1. 0 \in Times /\ EmptyDir \in [Times -> Stored \cup {NoFile}]
  BY StoreAssumption DEF Times, EmptyDir
<1>2. /\ files \in [Targets -> [Times -> Stored \cup {NoFile}]]
      /\ messages \in Seq(Stored) /\ handed \in [Targets -> Seq(Stored)]
  BY <1>1 DEF Init
<1>3. TypeOK
  BY <1>1, <1>2 DEF Init, TypeOK
<1>4. CallInv
  BY DEF Init, CallInv, Calling, Fetching
<1> QED
  BY <1>3, <1>4 DEF StoreInv

LEMMA StoreStep == ASSUME StoreInv, [Next]_vars PROVE StoreInv'
<1> USE DEF StoreInv
<1>0. FileType /\ (\A c \in Targets, t \in Times : files[c][t] \in Stored \cup {NoFile})
  BY DEF TypeOK, FileType, Directories
<1>1. CASE InitStore
  <2>1. TypeOK'
    BY <1>1 DEF InitStore, TypeOK, callVars, fateVars
  <2>2. CallInv'
    BY <1>1 DEF InitStore, CallInv, Calling, Fetching, callVars, fateVars
  <2> QED
    BY <2>1, <2>2
<1>2. ASSUME NEW c \in Targets, CallStore(c) PROVE StoreInv'
  <2>1. TypeOK'
    BY <1>2 DEF CallStore, TypeOK, storeVars, fateVars
  <2>2. CallInv'
    BY <1>2 DEF CallStore, TypeOK, CallInv, Calling, Fetching, storeVars, fateVars
  <2> QED
    BY <2>1, <2>2
<1>3. ASSUME NEW c \in Targets, CallFetch(c) PROVE StoreInv'
  <2>1. TypeOK'
    BY <1>3 DEF CallFetch, TypeOK, storeVars, fateVars
  <2>2. CallInv'
    BY <1>3 DEF CallFetch, CallInv, Calling, Fetching, storeVars, fateVars
  <2> QED
    BY <2>1, <2>2
<1>4. ASSUME NEW op, pc \in {"mkdir", "create"}, StoreFails(op) PROVE StoreInv'
  <2>1. TypeOK'
    BY <1>4 DEF StoreFails, TypeOK, storeVars, fateVars
  <2>2. CallInv'
    BY <1>4 DEF StoreFails, CallInv, Calling, Fetching, storeVars, fateVars
  <2> QED
    BY <2>1, <2>2
<1>5. CASE MakeDirectory
  <2>1. TypeOK'
    BY <1>5 DEF MakeDirectory, TypeOK, CallInv, Calling, callVars, fateVars
  <2>2. CallInv'
    BY <1>5 DEF MakeDirectory, CallInv, Calling, Fetching, callVars, fateVars
  <2> QED
    BY <2>1, <2>2
<1>6. CASE CreateFile
  <2> DEFINE f == [n |-> issued, whole |-> FALSE]
  <2>1. target \in Targets /\ clock \in Times /\ issued \in Nat /\ issued # 0
    BY <1>6 DEF CreateFile, CallInv, Calling, TypeOK
  <2>2. f \in Stored /\ f.n = issued
    BY <2>1 DEF Stored
  <2>3. f # NoFile
    BY <2>2, StoredType
  <2>a. files' = Put(files, target, clock, f)
    BY <1>6 DEF CreateFile, Put
  <2>b. files \in Directories /\ f \in Stored \cup {NoFile}
    BY <1>0, <2>2 DEF FileType
  <2> HIDE DEF f
  <2>4. FileType' /\ files'[target][clock] = f
    BY <2>1, <2>a, <2>b, FileSet DEF FileType
  <2>5. lost' \subseteq Nat
    <3>1. files[target][clock] # NoFile => files[target][clock].n \in Nat
      BY <1>0, <2>1, StoredType
    <3>2. lost \subseteq Nat /\ (lost' = lost \/ (/\ files[target][clock] # NoFile
                                              /\ lost' = lost \cup {files[target][clock].n}))
      BY <1>6 DEF CreateFile, TypeOK
    <3>3. CASE files[target][clock] # NoFile /\ lost' = lost \cup {files[target][clock].n}
      BY <3>1, <3>2, <3>3
    <3> QED
      BY <3>2, <3>3
  <2>6. TypeOK'
    BY <1>6, <2>1, <2>4, <2>5 DEF CreateFile, TypeOK, FileType, Directories
  <2>7. CallInv'
    BY <1>6, <2>1, <2>2, <2>3, <2>4 DEF CreateFile, CallInv, Calling, Fetching
  <2> QED
    BY <2>6, <2>7
<1>7. CASE WriteFile
  <2>1. target \in Targets /\ name \in Times /\ files[target][name] \in Stored
    BY <1>0, <1>7 DEF WriteFile, CallInv, Calling, TypeOK
  <2>2. PICK done \in BOOLEAN : files' = SetWhole(files, target, name, done)
    BY <1>7 DEF WriteFile, SetWhole
  <2> DEFINE f == Mark(files[target][name], done)
  <2>a. f \in Stored /\ f.n = files[target][name].n /\ files' = Put(files, target, name, f)
    BY <1>0, <2>1, <2>2, WholeSet DEF FileType
  <2> HIDE DEF f
  <2>3. FileType' /\ f \in Stored /\ files'[target][name] = f
    BY <1>0, <2>1, <2>a, FileSet DEF FileType
  <2>4. f # NoFile /\ f.n = issued
    BY <1>7, <2>a, StoredType DEF WriteFile, CallInv
  <2>5. TypeOK'
    BY <1>7, <2>3 DEF WriteFile, TypeOK, FileType, Directories, callVars, fateVars
  <2>6. CallInv'
    BY <1>7, <2>3, <2>4 DEF WriteFile, CallInv, Calling, Fetching, callVars, fateVars
  <2> QED
    BY <2>5, <2>6
<1>8. CASE CloseFile
  <2>1. target \in Targets /\ name \in Times /\ files[target][name] \in Stored
    BY <1>0, <1>8 DEF CloseFile, CallInv, Calling, TypeOK
  <2>2. PICK done \in BOOLEAN : files' = SetWhole(files, target, name, done)
    BY <1>8 DEF CloseFile, SetWhole
  <2> DEFINE f == Mark(files[target][name], done)
  <2>a. f \in Stored /\ files' = Put(files, target, name, f)
    BY <1>0, <2>1, <2>2, WholeSet DEF FileType
  <2> HIDE DEF f
  <2>3. FileType'
    BY <1>0, <2>1, <2>a, FileSet DEF FileType
  <2>4. accepted' \subseteq Nat /\ torn' \subseteq Nat
    BY <1>8 DEF CloseFile, TypeOK
  <2>5. TypeOK'
    BY <1>8, <2>3, <2>4 DEF CloseFile, TypeOK, FileType, Directories
  <2>6. CallInv'
    BY <1>8 DEF CloseFile, CallInv, Calling, Fetching
  <2> QED
    BY <2>5, <2>6
<1>9. CASE ListDirectory
  <2>1. todo' \subseteq Times /\ pc' \in {"read", "return"}
        /\ (pc' = "read" => \A t \in todo' : files[target][t] # NoFile)
    BY <1>9 DEF ListDirectory, FileNames, TypeOK
  <2>2. TypeOK'
    BY <1>9, <2>1 DEF ListDirectory, TypeOK, storeVars, fateVars
  <2>3. CallInv'
    BY <1>9, <2>1 DEF ListDirectory, CallInv, Calling, Fetching, storeVars, fateVars
  <2> QED
    BY <2>2, <2>3
<1>10. ASSUME NEW t \in Times, ReadFile(t) PROVE StoreInv'
  <2>1. target \in Targets /\ t \in todo /\ files[target][t] \in Stored
    BY <1>0, <1>10 DEF ReadFile, Least, CallInv, Calling
  <2>2. messages \in Seq(Stored) /\ messages' = Append(messages, files[target][t])
    BY <1>10 DEF ReadFile, TypeOK
  <2>3. /\ messages' \in Seq(Stored) /\ Len(messages') = Len(messages) + 1
        /\ messages'[Len(messages) + 1] = files[target][t]
    BY <2>1, <2>2, SeqAppend
  <2>4. messages' # <<>> /\ messages'[Len(messages')] = files[target][t]
    BY <2>2, <2>3
  <2>5. TypeOK'
    BY <1>10, <2>3 DEF ReadFile, TypeOK, storeVars, fateVars
  <2>6. CallInv'
    BY <1>10, <2>1, <2>4 DEF ReadFile, CallInv, Calling, Fetching, storeVars, fateVars
  <2> QED
    BY <2>5, <2>6
<1>11. ASSUME NEW t \in Times, SkipFile(t) PROVE StoreInv'
  <2>1. target \in Targets /\ t \in todo /\ files[target][t].n \in Nat
    BY <1>0, <1>11, StoredType DEF SkipFile, Least, CallInv, Calling
  <2>2. TypeOK'
    BY <1>11, <2>1 DEF SkipFile, TypeOK, storeVars
  <2>3. CallInv'
    BY <1>11 DEF SkipFile, CallInv, Calling, Fetching, storeVars
  <2> QED
    BY <2>2, <2>3
<1>12. CASE RemoveFile
  <2>1. /\ target \in Targets /\ name \in Times /\ name \in todo
        /\ files[target][name] \in Stored /\ files[target][name].n \in Nat
    BY <1>0, <1>12, StoredType DEF RemoveFile, CallInv, Calling, TypeOK
  <2>2. CASE /\ files' = [files EXCEPT ![target][name] = NoFile]
             /\ todo' = todo \ {name} /\ pc' = "read" /\ again' = again
    <3>1. FileType' /\ \A u \in Times : u # name => files'[target][u] = files[target][u]
      <4>1. files' = Put(files, target, name, NoFile)
        BY <2>2 DEF Put
      <4> QED
        BY <1>0, <2>1, <4>1, FileSet DEF FileType
    <3>2. TypeOK'
      BY <1>12, <2>2, <3>1 DEF RemoveFile, TypeOK, FileType, Directories
    <3>3. CallInv'
      BY <1>12, <2>1, <2>2, <3>1 DEF RemoveFile, CallInv, Calling, Fetching, TypeOK
    <3> QED
      BY <3>2, <3>3
  <2>3. CASE /\ again' = again \cup {files[target][name].n}
             /\ pc' = "return" /\ files' = files /\ todo' = todo
    <3>1. again' \subseteq Nat
      BY <2>1, <2>3 DEF TypeOK
    <3>2. TypeOK'
      BY <1>12, <2>3, <3>1 DEF RemoveFile, TypeOK
    <3>3. CallInv'
      BY <1>12, <2>1, <2>3 DEF RemoveFile, CallInv, Calling, Fetching
    <3> QED
      BY <3>2, <3>3
  <2> QED
    BY <1>12, <2>2, <2>3 DEF RemoveFile
<1>13. CASE Return
  <2>1. target \in Targets /\ messages \in Seq(Stored) /\ handed[target] \in Seq(Stored)
    BY <1>13 DEF Return, CallInv, Calling, TypeOK
  <2>2. handed[target] \o messages \in Seq(Stored)
    BY <2>1, SeqConcat
  <2>3. handed' \in [Targets -> Seq(Stored)]
    BY <1>13, <2>1, <2>2 DEF Return, TypeOK
  <2>4. messages' \in Seq(Stored)
    BY <1>13 DEF Return
  <2>5. TypeOK'
    BY <1>13, <2>3, <2>4 DEF Return, TypeOK, storeVars
  <2>6. CallInv'
    BY <1>13 DEF Return, CallInv, Calling, Fetching, storeVars
  <2> QED
    BY <2>5, <2>6
<1>14. CASE Tick
  <2>1. TypeOK'
    BY <1>14 DEF Tick, TypeOK, callVars, fateVars
  <2>2. CallInv'
    BY <1>14 DEF Tick, CallInv, Calling, Fetching, callVars, fateVars
  <2> QED
    BY <2>1, <2>2
<1>15. CASE Crash
  <2>1. torn' \subseteq Nat
    BY <1>15 DEF Crash, TypeOK
  <2>2. TicketsIn(messages) \subseteq Nat
    BY StoredType DEF TicketsIn, TypeOK
  <2>3. lost' \subseteq Nat
    BY <1>15, <2>2 DEF Crash, TypeOK
  <2>4. messages' \in Seq(Stored)
    BY <1>15 DEF Crash
  <2>5. TypeOK'
    BY <1>15, <2>1, <2>3, <2>4 DEF Crash, TypeOK
  <2>6. CallInv'
    BY <1>15 DEF Crash, CallInv, Calling, Fetching
  <2> QED
    BY <2>5, <2>6
<1>16. CASE UNCHANGED vars
  <2>1. TypeOK'
    BY <1>16 DEF vars, TypeOK, storeVars, callVars, fateVars
  <2>2. CallInv'
    BY <1>16 DEF vars, CallInv, Calling, Fetching, storeVars, callVars, fateVars
  <2> QED
    BY <2>1, <2>2
<1> QED
  BY <1>1, <1>2, <1>3, <1>4, <1>5, <1>6, <1>7, <1>8, <1>9, <1>10, <1>11, <1>12,
     <1>13, <1>14, <1>15, <1>16 DEF Next, Step

(* The type invariant, with what a running call has in its hands: the       *)
(* invariant the other proofs build on.                                     *)
THEOREM StoreTypes == Spec => [](TypeOK /\ CallInv)
<1>1. Init => StoreInv
  BY StoreInit
<1>2. StoreInv /\ [Next]_vars => StoreInv'
  BY StoreStep
<1> QED
  BY <1>1, <1>2, PTL DEF Spec, StoreInv

-----------------------------------------------------------------------------
(* How an action changes the files: not at all, by writing a part of the    *)
(* message of the call, or by removing the file that was read last.         *)

Writes(f) ==
  /\ pc \in {"create", "write", "close"} /\ target \in Targets
  /\ f \in Stored /\ f.n = issued
  /\ files' = Put(files, target, name', f)

LEMMA CreateStep ==
  ASSUME StoreInv, CreateFile
  PROVE  \E f : Writes(f)
<1> DEFINE f == [n |-> issued, whole |-> FALSE]
<1>1. f \in Stored /\ f.n = issued
  BY DEF CreateFile, StoreInv, CallInv, TypeOK, Stored
<1>2. files' = Put(files, target, name', f)
  BY DEF CreateFile, Put
<1>3. pc = "create" /\ target \in Targets
  BY DEF CreateFile, StoreInv, CallInv, Calling
<1>4. Writes(f)
  BY <1>1, <1>2, <1>3 DEF Writes
<1> QED
  BY <1>4

LEMMA FlushStep ==
  ASSUME StoreInv, pc \in {"write", "close"}, name' = name,
         NEW done \in BOOLEAN, files' = SetWhole(files, target, name, done)
  PROVE  \E f : Writes(f) /\ f.whole = done
<1> DEFINE f == Mark(files[target][name], done)
<1>1. /\ target \in Targets /\ name \in Times /\ files[target][name] \in Stored
      /\ files[target][name].n = issued /\ files \in Directories
  BY DEF StoreInv, CallInv, Calling, TypeOK, Directories
<1>2. f \in Stored /\ f.n = issued /\ f.whole = done /\ files' = Put(files, target, name, f)
  BY <1>1, WholeSet
<1> HIDE DEF f
<1>3. Writes(f)
  BY <1>1, <1>2 DEF Writes
<1> QED
  BY <1>2, <1>3

LEMMA WriteStep ==
  ASSUME StoreInv, WriteFile
  PROVE  \E f : Writes(f)
<1>1. PICK done \in BOOLEAN : files' = SetWhole(files, target, name, done)
  BY DEF WriteFile, SetWhole
<1> QED
  BY <1>1, FlushStep DEF WriteFile, callVars

LEMMA CloseStep ==
  ASSUME StoreInv, CloseFile
  PROVE  \E f : Writes(f) /\ (f.whole \/ issued \in torn')
<1>1. PICK done \in BOOLEAN : /\ files' = SetWhole(files, target, name, done)
                              /\ done \/ issued \in torn'
  BY DEF CloseFile, SetWhole
<1>2. PICK f : Writes(f) /\ f.whole = done
  BY <1>1, FlushStep DEF CloseFile
<1> QED
  BY <1>1, <1>2

(* Every other place keeps its file.                                        *)
LEMMA WritesOne ==
  ASSUME StoreInv, NEW f, Writes(f), name' \in Times
  PROVE  /\ files'[target][name'] = f
         /\ \A c \in Targets, t \in Times :
              c # target \/ t # name' => files'[c][t] = files[c][t]
<1>1. files \in Directories
  BY DEF StoreInv, TypeOK, Directories
<1>2. target \in Targets /\ f \in Stored \cup {NoFile}
  BY DEF Writes
<1> QED
  BY <1>1, <1>2, FileSet DEF Writes

LEMMA RemoveStep ==
  ASSUME StoreInv, RemoveFile
  PROVE  /\ target \in Targets /\ files[target][name] \in Stored
         /\ Len(messages) \in DOMAIN messages
         /\ messages[Len(messages)] = files[target][name]
         /\ \A c \in Targets, t \in Times :
              c # target \/ t # name => files'[c][t] = files[c][t]
         /\ files'[target][name] \in {files[target][name], NoFile}
<1>1. files \in Directories /\ messages \in Seq(Stored) /\ name \in Times
  BY DEF StoreInv, TypeOK, Directories
<1>2. /\ target \in Targets /\ files[target][name] \in Stored
      /\ messages # <<>> /\ messages[Len(messages)] = files[target][name]
  BY <1>1 DEF RemoveFile, StoreInv, CallInv, Calling, Directories
<1>3. Len(messages) \in DOMAIN messages
  BY <1>1, <1>2
<1>4. files' = Put(files, target, name, NoFile) \/ files' = files
  BY DEF RemoveFile, Put
<1>5. NoFile \in Stored \cup {NoFile}
  OBVIOUS
<1>6. CASE files' = Put(files, target, name, NoFile)
  BY <1>1, <1>2, <1>3, <1>5, <1>6, FileSet
<1>7. CASE files' = files
  BY <1>2, <1>3, <1>7
<1> QED
  BY <1>4, <1>6, <1>7

(* The other actions leave the files alone.                                 *)
Others ==
  \/ InitStore \/ MakeDirectory \/ ListDirectory \/ Return \/ Tick \/ Crash
  \/ \E c \in Targets : CallStore(c) \/ CallFetch(c)
  \/ \E t \in Times : ReadFile(t) \/ SkipFile(t)
  \/ pc \in {"mkdir", "create"} /\ \E op : StoreFails(op)
  \/ UNCHANGED vars

LEMMA OthersStep == ASSUME Others PROVE files' = files
BY DEF Others, vars, storeVars, InitStore, MakeDirectory, ListDirectory, Return, Tick,
   Crash, CallStore, CallFetch, ReadFile, SkipFile, StoreFails

LEMMA Steps ==
  ASSUME [Next]_vars
  PROVE  CreateFile \/ WriteFile \/ CloseFile \/ RemoveFile \/ Others
BY DEF Next, Step, Others

(* What getAndClearQueuedMessages has in its hands changes by what it reads *)
(* and is handed over as a whole.                                           *)
LEMMA MessagesStep ==
  ASSUME StoreInv, [Next]_vars
  PROVE  \/ messages' = messages /\ handed' = handed
         \/ Crash
         \/ messages' = <<>> /\ target \in Targets
            /\ handed' = [handed EXCEPT ![target] = @ \o messages]
         \/ /\ handed' = handed /\ pc = "read" /\ target \in Targets /\ torn' = torn
            /\ \E t \in Times : /\ files[target][t] \in Stored
                                 /\ messages' = Append(messages, files[target][t])
<1>1. CASE CreateFile \/ WriteFile \/ CloseFile \/ RemoveFile
  BY <1>1 DEF CreateFile, WriteFile, CloseFile, RemoveFile, callVars, fateVars
<1>2. CASE \/ UNCHANGED vars \/ InitStore \/ MakeDirectory \/ ListDirectory \/ Tick
           \/ \E c \in Targets : CallStore(c) \/ CallFetch(c)
           \/ \E t \in Times : SkipFile(t)
           \/ \E op : StoreFails(op)
  BY <1>2 DEF vars, callVars, fateVars, InitStore, MakeDirectory, ListDirectory, Tick,
     CallStore, CallFetch, SkipFile, StoreFails
<1>3. CASE Return
  <2>1. target \in Targets
    BY <1>3 DEF Return, StoreInv, CallInv, Calling
  <2> QED
    BY <1>3, <2>1 DEF Return
<1>4. ASSUME NEW t \in Times, ReadFile(t)
      PROVE  /\ handed' = handed /\ pc = "read" /\ target \in Targets /\ torn' = torn
             /\ files[target][t] \in Stored
             /\ messages' = Append(messages, files[target][t])
  <2>1. target \in Targets /\ t \in todo /\ files[target][t] # NoFile
    BY <1>4 DEF ReadFile, Least, StoreInv, CallInv, Calling
  <2>2. files[target][t] \in Stored
    BY <2>1 DEF StoreInv, TypeOK
  <2> QED
    BY <1>4, <2>1, <2>2 DEF ReadFile, fateVars
<1> QED
  BY <1>1, <1>2, <1>3, <1>4, Steps DEF Others

LEMMA FatesGrow ==
  ASSUME [Next]_vars
  PROVE  torn \subseteq torn' /\ lost \subseteq lost'
<1>1. torn \subseteq torn'
  BY DEF Next, Step, vars, fateVars, InitStore, CallStore, CallFetch, StoreFails,
     MakeDirectory, CreateFile, WriteFile, CloseFile, ListDirectory, ReadFile, SkipFile,
     RemoveFile, Return, Tick, Crash
<1>2. lost \subseteq lost'
  BY DEF Next, Step, vars, fateVars, InitStore, CallStore, CallFetch, StoreFails,
     MakeDirectory, CreateFile, WriteFile, CloseFile, ListDirectory, ReadFile, SkipFile,
     RemoveFile, Return, Tick, Crash
<1> QED
  BY <1>1, <1>2

-----------------------------------------------------------------------------
(* Parts of messages                                                        *)

TornInFile(c, t) ==
  files[c][t] # NoFile /\ ~files[c][t].whole =>
    files[c][t].n \in torn \/ BeingWritten(c, t)

FilesWhole == \A c \in Targets, t \in Times : TornInFile(c, t)

MessagesWhole ==
  \A i \in 1 .. Len(messages) : ~messages[i].whole => messages[i].n \in torn

HandedWhole ==
  \A c \in Targets : \A i \in 1 .. Len(handed[c]) :
    ~handed[c][i].whole => handed[c][i].n \in torn

TornInv == FilesWhole /\ MessagesWhole /\ HandedWhole

LEMMA FilesWholeStep == ASSUME StoreInv, FilesWhole, [Next]_vars PROVE FilesWhole'
<1> SUFFICES ASSUME NEW c \in Targets, NEW t \in Times,
                    files'[c][t] # NoFile, ~files'[c][t].whole
             PROVE  files'[c][t].n \in torn' \/ BeingWritten(c, t)'
  BY DEF FilesWhole, TornInFile
<1>0. torn \subseteq torn'
  BY FatesGrow
<1>1. files[c][t] # NoFile /\ ~files[c][t].whole
        => files[c][t].n \in torn \/ BeingWritten(c, t)
  BY DEF FilesWhole, TornInFile
<1>2. ASSUME NEW f, Writes(f), name' \in Times,
             c # target \/ t # name',
             pc = "create" \/ name' = name
      PROVE  files'[c][t].n \in torn'
  <2>1. files'[c][t] = files[c][t]
    BY <1>2, WritesOne
  <2>2. ~BeingWritten(c, t)
    BY <1>2 DEF BeingWritten
  <2> QED
    BY <1>0, <1>1, <2>1, <2>2
<1>3. CASE CreateFile \/ WriteFile
  <2>1. PICK f : Writes(f)
    BY <1>3, CreateStep, WriteStep
  <2>2. name' \in Times /\ (pc = "create" \/ name' = name)
    BY <1>3 DEF CreateFile, WriteFile, callVars, StoreInv, TypeOK
  <2>3. CASE c = target /\ t = name'
    BY <1>3, <2>3 DEF CreateFile, WriteFile, callVars, BeingWritten
  <2> QED
    BY <1>2, <2>1, <2>2, <2>3
<1>4. CASE CloseFile
  <2>1. PICK f : Writes(f) /\ (f.whole \/ issued \in torn')
    BY <1>4, CloseStep
  <2>2. name' \in Times /\ name' = name
    BY <1>4 DEF CloseFile, StoreInv, TypeOK
  <2>3. CASE c = target /\ t = name'
    BY <2>1, <2>2, <2>3, WritesOne DEF Writes
  <2> QED
    BY <1>2, <2>1, <2>2, <2>3
<1>5. CASE RemoveFile
  <2>1. files'[c][t] = files[c][t]
    BY <1>5, RemoveStep
  <2>2. ~BeingWritten(c, t)
    BY <1>5 DEF RemoveFile, BeingWritten
  <2> QED
    BY <1>0, <1>1, <2>1, <2>2
<1>6. CASE Others
  <2>1. files'[c][t] = files[c][t]
    BY <1>6, OthersStep
  <2>2. CASE ~BeingWritten(c, t)
    BY <1>0, <1>1, <2>1, <2>2
  <2>3. CASE BeingWritten(c, t)
    <3>1. pc \in {"write", "close"} /\ c = target /\ t = name /\ files[c][t].n = issued
      BY <2>3 DEF BeingWritten, StoreInv, CallInv
    <3>2. CASE Crash
      BY <2>1, <3>1, <3>2 DEF Crash
    <3>3. CASE pc' = pc /\ target' = target /\ name' = name
      BY <2>3, <3>3 DEF BeingWritten
    <3> QED
      BY <1>6, <3>1, <3>2, <3>3 DEF Others, InitStore, MakeDirectory, ListDirectory,
         Return, Tick, CallStore, CallFetch, ReadFile, SkipFile, vars, callVars
  <2> QED
    BY <2>2, <2>3
<1> QED
  BY <1>3, <1>4, <1>5, <1>6, Steps

LEMMA MessagesWholeStep ==
  ASSUME StoreInv, TornInv, [Next]_vars
  PROVE  MessagesWhole' /\ HandedWhole'
<1> USE DEF TornInv
<1>0. /\ torn \subseteq torn'
      /\ messages \in Seq(Stored) /\ handed \in [Targets -> Seq(Stored)]
  BY FatesGrow DEF StoreInv, TypeOK
<1>1. CASE messages' = messages /\ handed' = handed
  BY <1>0, <1>1 DEF MessagesWhole, HandedWhole
<1>2. CASE Crash
  <2>1. messages' = <<>> /\ handed' = handed
    BY <1>2 DEF Crash
  <2> QED
    BY <1>0, <2>1 DEF MessagesWhole, HandedWhole
<1>3. CASE /\ messages' = <<>> /\ target \in Targets
           /\ handed' = [handed EXCEPT ![target] = @ \o messages]
  <2>1. MessagesWhole'
    BY <1>3 DEF MessagesWhole
  <2>2. ASSUME NEW c \in Targets, NEW i \in 1 .. Len(handed'[c]), ~handed'[c][i].whole
        PROVE  handed'[c][i].n \in torn'
    <3>1. CASE c # target
      <4>1. handed'[c] = handed[c]
        BY <1>0, <1>3, <3>1
      <4> QED
        BY <1>0, <2>2, <4>1 DEF HandedWhole
    <3>2. CASE c = target
      <4>1. handed'[c] = handed[c] \o messages /\ handed[c] \in Seq(Stored)
        BY <1>0, <1>3, <3>2
      <4>2. CASE i \in 1 .. Len(handed[c])
        <5>1. handed'[c][i] = handed[c][i]
          BY <1>0, <4>1, <4>2, SeqConcat
        <5> QED
          BY <1>0, <2>2, <4>2, <5>1 DEF HandedWhole
      <4>3. CASE i \notin 1 .. Len(handed[c])
        <5>1. i - Len(handed[c]) \in 1 .. Len(messages)
              /\ handed'[c][i] = messages[i - Len(handed[c])]
          BY <1>0, <2>2, <4>1, <4>3, SeqConcat
        <5> QED
          BY <1>0, <2>2, <5>1 DEF MessagesWhole
      <4> QED
        BY <4>2, <4>3
    <3> QED
      BY <3>1, <3>2
  <2> QED
    BY <2>1, <2>2 DEF HandedWhole
<1>4. CASE /\ handed' = handed /\ pc = "read" /\ target \in Targets
           /\ \E t \in Times : /\ files[target][t] \in Stored
                                /\ messages' = Append(messages, files[target][t])
  <2>1. PICK t \in Times : /\ files[target][t] \in Stored
                           /\ messages' = Append(messages, files[target][t])
    BY <1>4
  <2>2. ~files[target][t].whole => files[target][t].n \in torn
    <3>1. files[target][t] # NoFile /\ ~BeingWritten(target, t)
      BY <1>4, <2>1, StoredType DEF BeingWritten
    <3> QED
      BY <1>4, <3>1 DEF FilesWhole, TornInFile
  <2>3. ASSUME NEW i \in 1 .. Len(messages')
        PROVE  ~messages'[i].whole => messages'[i].n \in torn'
    <3>1. CASE i = Len(messages) + 1
      <4>1. messages'[i] = files[target][t]
        BY <1>0, <2>1, <3>1, SeqAppend
      <4> QED
        BY <1>0, <2>2, <4>1
    <3>2. CASE i # Len(messages) + 1
      <4>1. i \in 1 .. Len(messages) /\ messages'[i] = messages[i]
        BY <1>0, <2>1, <2>3, <3>2, SeqAppend
      <4> QED
        BY <1>0, <4>1 DEF MessagesWhole
    <3> QED
      BY <3>1, <3>2
  <2> QED
    BY <1>0, <1>4, <2>3 DEF MessagesWhole, HandedWhole
<1> QED
  BY <1>1, <1>2, <1>3, <1>4, MessagesStep

(* Only a message whose own storeMessage met a crash or a write error can   *)
(* be in part in a file or in what is handed over.  Inductive once what a   *)
(* running call has read is included.                                       *)
THEOREM OnlyOwnFailureTears == Spec => []TornOnlyByFailure
<1>1. Init => StoreInv /\ TornInv
  <2> SUFFICES ASSUME Init PROVE StoreInv /\ TornInv
    OBVIOUS
  <2>1. StoreInv
    BY StoreInit
  <2>2. \A c \in Targets, t \in Times : files[c][t] = NoFile
    BY DEF Init, EmptyDir
  <2>3. messages = <<>> /\ \A c \in Targets : handed[c] = <<>>
    BY DEF Init
  <2> QED
    BY <2>1, <2>2, <2>3 DEF TornInv, FilesWhole, TornInFile, MessagesWhole, HandedWhole
<1>2. StoreInv /\ TornInv /\ [Next]_vars => (StoreInv /\ TornInv)'
  BY StoreStep, FilesWholeStep, MessagesWholeStep DEF TornInv
<1>3. StoreInv /\ TornInv => TornOnlyByFailure
  <2> SUFFICES ASSUME StoreInv, TornInv PROVE TornOnlyByFailure
    OBVIOUS
  <2>1. \A c \in Targets : DOMAIN handed[c] = 1 .. Len(handed[c])
    BY DEF StoreInv, TypeOK
  <2> QED
    BY <2>1 DEF TornInv, FilesWhole, TornInFile, HandedWhole, TornOnlyByFailure, FileNames
<1> QED
  BY <1>1, <1>2, <1>3, PTL DEF Spec

-----------------------------------------------------------------------------
(* Where an accepted message is                                             *)

InFile(n) == \E c \in Targets, t \in Times : files[c][t] # NoFile /\ files[c][t].n = n
InHanded(n) == \E c \in Targets : \E i \in 1 .. Len(handed[c]) : handed[c][i].n = n
InMessages(n) == \E i \in 1 .. Len(messages) : messages[i].n = n

Accounted(n) == n \in lost \/ InFile(n) \/ InHanded(n) \/ InMessages(n)

AccountInv == \A n \in accepted : Accounted(n)

LEMMA AccountedIs ==
  ASSUME StoreInv
  PROVE  AccountInv <=> NothingUnaccounted
<1>1. DOMAIN messages = 1 .. Len(messages)
      /\ \A c \in Targets : DOMAIN handed[c] = 1 .. Len(handed[c])
  BY DEF StoreInv, TypeOK
<1>2. \A n : InMessages(n) <=> n \in TicketsIn(messages)
  BY <1>1 DEF InMessages, TicketsIn
<1>3. \A n : InHanded(n) <=> \E c \in Targets : n \in TicketsIn(handed[c])
  BY <1>1 DEF InHanded, TicketsIn
<1>4. \A n : InFile(n) <=> \E c \in Targets : n \in KeptTickets(c)
  BY DEF InFile, KeptTickets, FileNames
<1> QED
  BY <1>2, <1>3, <1>4 DEF AccountInv, Accounted, NothingUnaccounted

(* A file of a message that goes is overwritten, and the message lost, or   *)
(* removed after it was read.                                               *)
LEMMA FileAccounted ==
  ASSUME StoreInv, [Next]_vars, NEW n, InFile(n)
  PROVE  InFile(n)' \/ n \in lost' \/ InMessages(n)'
<1>1. PICK c \in Targets, t \in Times : files[c][t] # NoFile /\ files[c][t].n = n
  BY DEF InFile
<1>2. CASE files'[c][t] = files[c][t]
  BY <1>1, <1>2 DEF InFile
<1>3. CASE CreateFile
  <2>1. PICK f : Writes(f)
    BY <1>3, CreateStep
  <2>2. name' = clock /\ clock \in Times
    BY <1>3 DEF CreateFile, StoreInv, TypeOK
  <2>3. CASE c = target /\ t = name'
    BY <1>1, <1>3, <2>2, <2>3 DEF CreateFile
  <2> QED
    BY <1>2, <2>1, <2>2, <2>3, WritesOne
<1>4. CASE WriteFile \/ CloseFile
  <2>1. PICK f : Writes(f)
    BY <1>4, WriteStep, CloseStep
  <2>2. name' = name /\ name \in Times /\ pc \in {"write", "close"}
    BY <1>4 DEF WriteFile, CloseFile, callVars, StoreInv, TypeOK
  <2>3. CASE c = target /\ t = name'
    <3>1. files'[c][t] = f /\ f.n = n /\ f # NoFile
      BY <1>1, <2>1, <2>2, <2>3, WritesOne, StoredType DEF Writes, StoreInv, CallInv
    <3> QED
      BY <3>1 DEF InFile
  <2> QED
    BY <1>2, <2>1, <2>2, <2>3, WritesOne
<1>5. CASE RemoveFile
  <2>1. messages' = messages /\ messages \in Seq(Stored)
    BY <1>5 DEF RemoveFile, StoreInv, TypeOK
  <2>2. CASE c = target /\ t = name
    <3>1. Len(messages) \in 1 .. Len(messages) /\ messages[Len(messages)].n = n
      BY <1>1, <1>5, <2>1, <2>2, RemoveStep
    <3> QED
      BY <2>1, <3>1 DEF InMessages
  <2> QED
    BY <1>2, <1>5, <2>2, RemoveStep
<1>6. CASE Others
  BY <1>2, <1>6, OthersStep
<1> QED
  BY <1>3, <1>4, <1>5, <1>6, Steps

LEMMA HandedAccounted ==
  ASSUME StoreInv, [Next]_vars, NEW n, InHanded(n)
  PROVE  InHanded(n)'
<1>0. messages \in Seq(Stored) /\ handed \in [Targets -> Seq(Stored)]
  BY DEF StoreInv, TypeOK
<1>1. PICK c \in Targets : \E i \in 1 .. Len(handed[c]) : handed[c][i].n = n
  BY DEF InHanded
<1>2. PICK i \in 1 .. Len(handed[c]) : handed[c][i].n = n
  BY <1>1
<1>3. CASE handed'[c] = handed[c]
  BY <1>2, <1>3 DEF InHanded
<1>4. CASE handed'[c] = handed[c] \o messages
  <2>1. i \in 1 .. Len(handed'[c]) /\ handed'[c][i] = handed[c][i]
    BY <1>0, <1>4, SeqConcat
  <2> QED
    BY <1>2, <2>1 DEF InHanded
<1>5. handed' = handed \/ \E d \in Targets : handed' = [handed EXCEPT ![d] = @ \o messages]
  BY MessagesStep DEF Crash
<1> QED
  BY <1>0, <1>3, <1>4, <1>5

LEMMA MessagesAccounted ==
  ASSUME StoreInv, [Next]_vars, NEW n, InMessages(n)
  PROVE  InMessages(n)' \/ InHanded(n)' \/ InFile(n)' \/ n \in lost'
<1>0. messages \in Seq(Stored) /\ handed \in [Targets -> Seq(Stored)]
  BY DEF StoreInv, TypeOK
<1>1. PICK i \in 1 .. Len(messages) : messages[i].n = n
  BY DEF InMessages
<1>2. CASE messages' = messages
  BY <1>1, <1>2 DEF InMessages
<1>3. CASE Crash
  <2>1. pc \in Fetching /\ target \in Targets
    BY <1>0, <1>1 DEF StoreInv, CallInv, Calling, Fetching
  <2>2. n \in TicketsIn(messages)
    BY <1>0, <1>1 DEF TicketsIn
  <2>3. CASE n \in KeptTickets(target)
    <3>1. InFile(n)
      BY <2>1, <2>3 DEF InFile, KeptTickets, FileNames
    <3> QED
      BY <1>3, <3>1 DEF InFile, Crash
  <2> QED
    BY <1>3, <2>1, <2>2, <2>3 DEF Crash
<1>4. CASE target \in Targets /\ handed' = [handed EXCEPT ![target] = @ \o messages]
  <2>1. handed'[target] = handed[target] \o messages /\ handed[target] \in Seq(Stored)
    BY <1>0, <1>4
  <2>2. /\ Len(handed[target]) + i \in 1 .. Len(handed'[target])
        /\ handed'[target][Len(handed[target]) + i] = messages[i]
    BY <1>0, <2>1, SeqConcat
  <2> QED
    BY <1>1, <1>4, <2>2 DEF InHanded
<1>5. ASSUME NEW e \in Stored, messages' = Append(messages, e) PROVE InMessages(n)'
  <2>1. i \in 1 .. Len(messages') /\ messages'[i] = messages[i]
    BY <1>0, <1>5, SeqAppend
  <2> QED
    BY <1>1, <2>1 DEF InMessages
<1> QED
  BY <1>2, <1>3, <1>4, <1>5, MessagesStep

LEMMA AcceptedAccounted ==
  ASSUME StoreInv, CloseFile, NEW n \in accepted'
  PROVE  n \in accepted \/ InFile(n)'
<1>1. PICK f : Writes(f)
  BY CloseStep
<1>2. name' \in Times /\ accepted' = accepted \cup {issued}
  BY DEF CloseFile, StoreInv, TypeOK
<1>3. target \in Targets /\ files'[target][name'] = f /\ f # NoFile /\ f.n = issued
  BY <1>1, <1>2, WritesOne, StoredType DEF Writes
<1>4. CASE n = issued
  BY <1>2, <1>3, <1>4 DEF InFile
<1> QED
  BY <1>2, <1>4

(* An accepted message is in a file, in the hands of a call, handed over,   *)
(* or among the lost.                                                       *)
THEOREM EveryMessageAccounted == Spec => []NothingUnaccounted
<1>1. Init => StoreInv /\ AccountInv
  BY StoreInit DEF Init, AccountInv
<1>2. StoreInv /\ AccountInv /\ [Next]_vars => (StoreInv /\ AccountInv)'
  <2> SUFFICES ASSUME StoreInv, AccountInv, [Next]_vars PROVE AccountInv'
    BY StoreStep
  <2>1. ASSUME NEW n \in accepted PROVE Accounted(n)'
    <3>1. CASE n \in lost
      BY <3>1, FatesGrow DEF Accounted
    <3>2. CASE InFile(n)
      BY <3>2, FileAccounted DEF Accounted
    <3>3. CASE InHanded(n)
      BY <3>3, HandedAccounted DEF Accounted
    <3>4. CASE InMessages(n)
      BY <3>4, MessagesAccounted DEF Accounted
    <3> QED
      BY <3>1, <3>2, <3>3, <3>4 DEF AccountInv, Accounted
  <2>2. CASE CloseFile
    <3> SUFFICES ASSUME NEW n \in accepted' PROVE Accounted(n)'
      BY DEF AccountInv
    <3>1. n \in accepted \/ InFile(n)'
      BY <2>2, AcceptedAccounted
    <3> QED
      BY <2>1, <3>1 DEF Accounted
  <2>3. CASE ~CloseFile
    <3>1. accepted' = accepted
      BY <2>3 DEF Next, Step, vars, fateVars, InitStore, CallStore, CallFetch, StoreFails,
         MakeDirectory, CreateFile, WriteFile, ListDirectory, ReadFile, SkipFile,
         RemoveFile, Return, Tick, Crash
    <3> QED
      BY <2>1, <3>1 DEF AccountInv
  <2> QED
    BY <2>2, <2>3
<1>3. StoreInv /\ AccountInv => NothingUnaccounted
  BY AccountedIs
<1> QED
  BY <1>1, <1>2, <1>3, PTL DEF Spec

-----------------------------------------------------------------------------
(* A ticket is in one place                                                 *)

FN(c, t, n) == files[c][t] # NoFile /\ files[c][t].n = n
HN(c, i, n) == i \in 1 .. Len(handed[c]) /\ handed[c][i].n = n
MN(i, n)    == i \in 1 .. Len(messages) /\ messages[i].n = n

(* Given out, and not the ticket of a message that is yet to get a file.    *)
Known(n) == n \in 1 .. issued /\ (pc \in {"mkdir", "create"} => n # issued)

AllKnown ==
  /\ \A c \in Targets, t \in Times, n \in Nat : FN(c, t, n) => Known(n)
  /\ \A c \in Targets, i \in Nat, n \in Nat : HN(c, i, n) => Known(n)
  /\ \A i \in Nat, n \in Nat : MN(i, n) => Known(n)

OneFile ==
  \A c \in Targets, d \in Targets, t \in Times, u \in Times, n \in Nat :
    FN(c, t, n) /\ FN(d, u, n) => c = d /\ t = u

FiledOrHanded ==
  \A c \in Targets, d \in Targets, t \in Times, i \in Nat, n \in Nat :
    FN(c, t, n) /\ HN(d, i, n) => n \in again

HandedOnce ==
  \A c \in Targets, d \in Targets, i \in Nat, j \in Nat, n \in Nat :
    HN(c, i, n) /\ HN(d, j, n) => n \in again \/ (c = d /\ i = j)

ReadOnce == \A i \in Nat, j \in Nat, n \in Nat : MN(i, n) /\ MN(j, n) => i = j

(* What is read still has a file only while that is being removed, or when  *)
(* it could not be.                                                         *)
ReadOrFiled ==
  \A c \in Targets, t \in Times, i \in Nat, n \in Nat :
    MN(i, n) /\ FN(c, t, n) =>
      \/ pc = "remove" /\ c = target /\ t = name
      \/ pc = "return" /\ n \in again

ReadOrHanded ==
  \A c \in Targets, i \in Nat, j \in Nat, n \in Nat :
    HN(c, i, n) /\ MN(j, n) => n \in again

OnceInv ==
  /\ AllKnown /\ OneFile /\ FiledOrHanded /\ HandedOnce /\ ReadOnce /\ ReadOrFiled
  /\ ReadOrHanded /\ (pc = "list" => messages = <<>>)

LEMMA OnceInit == ASSUME Init PROVE OnceInv
<1>1. \A c \in Targets, t \in Times, n \in Nat : ~FN(c, t, n)
  BY DEF Init, EmptyDir, FN
<1>2. \A c \in Targets, i \in Nat, n \in Nat : ~HN(c, i, n)
  BY DEF Init, HN
<1>3. \A i \in Nat, n \in Nat : ~MN(i, n)
  BY DEF Init, MN
<1> QED
  BY <1>1, <1>2, <1>3 DEF Init, OnceInv, AllKnown, OneFile, FiledOrHanded, HandedOnce,
     ReadOnce, ReadOrFiled, ReadOrHanded

LEMMA KnownStep ==
  ASSUME StoreInv, [Next]_vars, NEW n \in Nat, Known(n)
  PROVE  Known(n)'
<1> issued \in Nat
  BY DEF StoreInv, TypeOK
<1>1. CASE issued' = issued /\ (pc' \in {"mkdir", "create"} => pc \in {"mkdir", "create"})
  BY <1>1 DEF Known
<1>2. ASSUME NEW c \in Targets, CallStore(c) PROVE Known(n)'
  BY <1>2 DEF Known, CallStore
<1>3. CASE \/ CreateFile \/ WriteFile \/ CloseFile \/ RemoveFile \/ InitStore
           \/ MakeDirectory \/ ListDirectory \/ Return \/ Tick \/ Crash
  BY <1>1, <1>3 DEF CreateFile, WriteFile, CloseFile, RemoveFile, InitStore,
     MakeDirectory, ListDirectory, Return, Tick, Crash
<1>4. CASE \/ \E c \in Targets : CallFetch(c)
           \/ \E t \in Times : ReadFile(t) \/ SkipFile(t)
           \/ \E op : StoreFails(op)
           \/ UNCHANGED vars
  BY <1>1, <1>4 DEF CallFetch, ReadFile, SkipFile, StoreFails, vars
<1> QED
  BY <1>2, <1>3, <1>4, Steps DEF Others

LEMMA AgainGrows == ASSUME [Next]_vars PROVE again \subseteq again'
BY DEF Next, Step, vars, fateVars, InitStore, CallStore, CallFetch, StoreFails,
   MakeDirectory, CreateFile, WriteFile, CloseFile, ListDirectory, ReadFile, SkipFile,
   RemoveFile, Return, Tick, Crash

(* A ticket gets a file when that is created, and keeps it or loses it.     *)
LEMMA FilesNumbered ==
  ASSUME StoreInv, [Next]_vars, NEW c \in Targets, NEW t \in Times, NEW n \in Nat,
         FN(c, t, n)'
  PROVE  FN(c, t, n) \/ (CreateFile /\ c = target /\ t = clock /\ n = issued)
<1>1. ASSUME NEW f, Writes(f), name' \in Times, c = target /\ t = name'
      PROVE  n = issued
  BY <1>1, WritesOne DEF Writes, FN
<1>2. CASE files'[c][t] = files[c][t]
  BY <1>2 DEF FN
<1>3. CASE CreateFile
  <2>1. PICK f : Writes(f)
    BY <1>3, CreateStep
  <2>2. name' = clock /\ name' \in Times
    BY <1>3 DEF CreateFile, StoreInv, TypeOK
  <2> QED
    BY <1>1, <1>2, <1>3, <2>1, <2>2, WritesOne
<1>4. CASE WriteFile \/ CloseFile
  <2>1. PICK f : Writes(f)
    BY <1>4, WriteStep, CloseStep
  <2>2. name' = name /\ name' \in Times /\ pc \in {"write", "close"}
    BY <1>4 DEF WriteFile, CloseFile, callVars, StoreInv, TypeOK
  <2>3. CASE c = target /\ t = name'
    BY <1>1, <2>1, <2>2, <2>3 DEF FN, StoreInv, CallInv
  <2> QED
    BY <1>2, <2>1, <2>2, <2>3, WritesOne
<1>5. CASE RemoveFile
  BY <1>2, <1>5, RemoveStep DEF FN
<1>6. CASE Others
  BY <1>2, <1>6, OthersStep
<1> QED
  BY <1>3, <1>4, <1>5, <1>6, Steps

LEMMA ReturnHands ==
  ASSUME StoreInv, Return, NEW c \in Targets, NEW i \in Nat, NEW n \in Nat, HN(c, i, n)'
  PROVE  \/ HN(c, i, n)
         \/ /\ c = target /\ i \notin 1 .. Len(handed[c])
            /\ i - Len(handed[c]) \in Nat /\ MN(i - Len(handed[c]), n)
<1>1. /\ messages \in Seq(Stored) /\ handed \in [Targets -> Seq(Stored)]
      /\ handed' = [handed EXCEPT ![target] = @ \o messages]
  BY DEF StoreInv, TypeOK, Return
<1>2. CASE c # target
  BY <1>1, <1>2 DEF HN
<1>3. CASE c = target
  <2>1. handed'[c] = handed[c] \o messages /\ handed[c] \in Seq(Stored)
    BY <1>1, <1>3
  <2>2. i \in 1 .. Len(handed[c]) + Len(messages) /\ handed'[c][i].n = n
    BY <1>1, <2>1, SeqConcat DEF HN
  <2>3. CASE i \in 1 .. Len(handed[c])
    BY <1>1, <2>1, <2>2, <2>3, SeqConcat DEF HN
  <2>4. CASE i \notin 1 .. Len(handed[c])
    <3>1. i - Len(handed[c]) \in 1 .. Len(messages)
          /\ handed'[c][i] = messages[i - Len(handed[c])]
      BY <1>1, <2>1, <2>2, <2>4, SeqConcat
    <3> QED
      BY <1>3, <2>2, <2>4, <3>1 DEF MN
  <2> QED
    BY <2>3, <2>4
<1> QED
  BY <1>2, <1>3

(* What the actions do to the places of tickets, apart from the three that  *)
(* move a message: nothing but a new file, and the hands may be emptied.    *)
Quiet ==
  /\ handed' = handed
  /\ \/ messages' = <<>>
     \/ messages' = messages /\ pc' = pc /\ target' = target /\ name' = name
  /\ pc' = "list" => messages' = <<>>

LEMMA QuietSteps ==
  ASSUME StoreInv, OnceInv, [Next]_vars
  PROVE  Quiet \/ Return \/ RemoveFile \/ \E t \in Times : ReadFile(t)
<1>1. pc \notin Fetching => messages = <<>>
  BY DEF StoreInv, CallInv
<1>2. pc = "list" => messages = <<>>
  BY DEF OnceInv
<1>3. CASE CreateFile \/ WriteFile \/ CloseFile
  BY <1>1, <1>3 DEF CreateFile, WriteFile, CloseFile, Quiet, Fetching, callVars, fateVars
<1>4. CASE InitStore \/ MakeDirectory \/ Tick \/ UNCHANGED vars
  BY <1>1, <1>2, <1>4 DEF InitStore, MakeDirectory, Tick, vars, Quiet, Fetching, callVars,
     fateVars
<1>5. CASE ListDirectory \/ Crash
  BY <1>2, <1>5 DEF ListDirectory, Crash, Quiet, fateVars
<1>6. ASSUME NEW c \in Targets, CallStore(c) \/ CallFetch(c) PROVE Quiet
  BY <1>1, <1>6 DEF CallStore, CallFetch, Quiet, Fetching, fateVars
<1>7. ASSUME NEW t \in Times, SkipFile(t) PROVE Quiet
  BY <1>7 DEF SkipFile, Quiet
<1>8. ASSUME NEW op, StoreFails(op), pc \in {"mkdir", "create"} PROVE Quiet
  BY <1>1, <1>8 DEF StoreFails, Quiet, Fetching, fateVars
<1> QED
  BY <1>3, <1>4, <1>5, <1>6, <1>7, <1>8, Steps DEF Others

LEMMA AllKnownStep == ASSUME StoreInv, OnceInv, [Next]_vars PROVE AllKnown'
<1> USE DEF OnceInv
<1>1. ASSUME NEW c \in Targets, NEW t \in Times, NEW n \in Nat, FN(c, t, n)'
      PROVE  Known(n)'
  <2>1. CASE FN(c, t, n)
    BY <2>1, KnownStep DEF AllKnown
  <2>2. CASE CreateFile /\ n = issued
    BY <2>2 DEF CreateFile, Known, StoreInv, CallInv, TypeOK
  <2> QED
    BY <1>1, <2>1, <2>2, FilesNumbered
<1>2. ASSUME NEW i \in Nat, NEW n \in Nat, MN(i, n)'
      PROVE  Known(n)'
  <2>0. messages \in Seq(Stored)
    BY DEF StoreInv, TypeOK
  <2>1. CASE messages' = <<>>
    BY <1>2, <2>1 DEF MN
  <2>2. CASE messages' = messages
    BY <1>2, <2>2, KnownStep DEF MN, AllKnown
  <2>3. ASSUME NEW t \in Times, ReadFile(t) PROVE Known(n)'
    <3>1. target \in Targets /\ files[target][t] \in Stored
          /\ messages' = Append(messages, files[target][t])
      BY <2>3 DEF ReadFile, Least, StoreInv, CallInv, Calling, TypeOK
    <3>2. MN(i, n) \/ FN(target, t, n)
      BY <1>2, <2>0, <3>1, SeqAppend, StoredType DEF MN, FN
    <3> QED
      BY <3>1, <3>2, KnownStep DEF AllKnown
  <2> QED
    BY <2>1, <2>2, <2>3, QuietSteps DEF Quiet, Return, RemoveFile
<1>3. ASSUME NEW c \in Targets, NEW i \in Nat, NEW n \in Nat, HN(c, i, n)'
      PROVE  Known(n)'
  <2>1. CASE handed' = handed
    BY <1>3, <2>1, KnownStep DEF HN, AllKnown
  <2>2. CASE Return
    BY <1>3, <2>2, ReturnHands, KnownStep DEF AllKnown
  <2> QED
    BY <2>1, <2>2, QuietSteps DEF Quiet, RemoveFile, ReadFile, fateVars
<1> QED
  BY <1>1, <1>2, <1>3 DEF AllKnown

LEMMA OneFileStep == ASSUME StoreInv, OnceInv, [Next]_vars PROVE OneFile'
<1> SUFFICES ASSUME NEW c \in Targets, NEW d \in Targets, NEW t \in Times,
                    NEW u \in Times, NEW n \in Nat, FN(c, t, n)', FN(d, u, n)'
             PROVE  c = d /\ t = u
  BY DEF OneFile
<1>1. CreateFile => ~Known(issued)
  BY DEF CreateFile, Known
<1>2. FN(c, t, n) /\ FN(d, u, n) => c = d /\ t = u
  BY DEF OnceInv, OneFile
<1>3. (FN(c, t, n) \/ FN(d, u, n)) => Known(n)
  BY DEF OnceInv, AllKnown
<1> QED
  BY <1>1, <1>2, <1>3, FilesNumbered

LEMMA FiledOrHandedStep == ASSUME StoreInv, OnceInv, [Next]_vars PROVE FiledOrHanded'
<1> SUFFICES ASSUME NEW c \in Targets, NEW d \in Targets, NEW t \in Times,
                    NEW i \in Nat, NEW n \in Nat, FN(c, t, n)', HN(d, i, n)'
             PROVE  n \in again'
  BY DEF FiledOrHanded
<1>0. again \subseteq again'
  BY AgainGrows
<1>1. CASE handed' = handed
  <2>1. HN(d, i, n)
    BY <1>1 DEF HN
  <2>2. Known(n)
    BY <2>1 DEF OnceInv, AllKnown
  <2>3. ~(CreateFile /\ n = issued)
    BY <2>2 DEF CreateFile, Known
  <2>4. FN(c, t, n)
    BY <2>3, FilesNumbered
  <2> QED
    BY <1>0, <2>1, <2>4 DEF OnceInv, FiledOrHanded
<1>2. CASE Return
  <2>1. FN(c, t, n) /\ pc # "remove" /\ (pc = "read" \/ pc = "return")
    BY <1>2 DEF Return, FN, storeVars
  <2>2. CASE HN(d, i, n)
    BY <1>0, <2>1, <2>2 DEF OnceInv, FiledOrHanded
  <2>3. CASE i - Len(handed[d]) \in Nat /\ MN(i - Len(handed[d]), n)
    BY <1>0, <2>1, <2>3 DEF OnceInv, ReadOrFiled
  <2> QED
    BY <1>2, <2>2, <2>3, ReturnHands
<1> QED
  BY <1>1, <1>2, QuietSteps DEF Quiet, RemoveFile, ReadFile, fateVars

LEMMA HandedOnceStep == ASSUME StoreInv, OnceInv, [Next]_vars PROVE HandedOnce'
<1> SUFFICES ASSUME NEW c \in Targets, NEW d \in Targets, NEW i \in Nat,
                    NEW j \in Nat, NEW n \in Nat, HN(c, i, n)', HN(d, j, n)'
             PROVE  n \in again' \/ (c = d /\ i = j)
  BY DEF HandedOnce
<1>0. again \subseteq again'
  BY AgainGrows
<1>1. CASE handed' = handed
  <2>1. HN(c, i, n) /\ HN(d, j, n)
    BY <1>1 DEF HN
  <2> QED
    BY <1>0, <2>1 DEF OnceInv, HandedOnce
<1>2. CASE Return
  <2> DEFINE Old(e, k) == HN(e, k, n)
             New(e, k) == /\ e = target /\ k - Len(handed[e]) \in Nat
                          /\ MN(k - Len(handed[e]), n)
  <2>1. (Old(c, i) \/ New(c, i)) /\ (Old(d, j) \/ New(d, j))
    BY <1>2, ReturnHands
  <2>2. CASE Old(c, i) /\ Old(d, j)
    BY <1>0, <2>2 DEF OnceInv, HandedOnce
  <2>3. CASE (Old(c, i) /\ New(d, j)) \/ (New(c, i) /\ Old(d, j))
    BY <1>0, <2>3 DEF OnceInv, ReadOrHanded
  <2>4. CASE New(c, i) /\ New(d, j)
    <3>1. c = d /\ i - Len(handed[c]) = j - Len(handed[c])
      BY <2>4 DEF OnceInv, ReadOnce
    <3>2. Len(handed[c]) \in Nat
      BY DEF StoreInv, TypeOK
    <3> QED
      BY <3>1, <3>2
  <2> QED
    BY <2>1, <2>2, <2>3, <2>4
<1> QED
  BY <1>1, <1>2, QuietSteps DEF Quiet, RemoveFile, ReadFile, fateVars

(* What ReadFile(t) adds to the hands.                                      *)
LEMMA ReadAdds ==
  ASSUME StoreInv, NEW t \in Times, ReadFile(t)
  PROVE  /\ target \in Targets /\ target' = target /\ name' = t
         /\ pc = "read" /\ pc' = "remove"
         /\ files' = files /\ handed' = handed /\ again' = again
         /\ \A i \in Nat, n \in Nat :
              MN(i, n)' => MN(i, n) \/ (i = Len(messages) + 1 /\ FN(target, t, n))
<1>1. /\ target \in Targets /\ target' = target /\ name' = t
      /\ pc = "read" /\ pc' = "remove"
      /\ files' = files /\ handed' = handed /\ again' = again
  BY DEF ReadFile, StoreInv, CallInv, Calling, storeVars, fateVars
<1>2. /\ files[target][t] \in Stored /\ messages \in Seq(Stored)
      /\ messages' = Append(messages, files[target][t])
  BY DEF ReadFile, Least, StoreInv, CallInv, Calling, TypeOK
<1>3. ASSUME NEW i \in Nat, NEW n \in Nat, MN(i, n)'
      PROVE  MN(i, n) \/ (i = Len(messages) + 1 /\ FN(target, t, n))
  BY <1>2, <1>3, SeqAppend, StoredType DEF MN, FN
<1> QED
  BY <1>1, <1>3

LEMMA ReadOnceStep ==
  ASSUME StoreInv, OnceInv, [Next]_vars PROVE ReadOnce' /\ ReadOrHanded'
<1>0. again \subseteq again'
  BY AgainGrows
<1>1. CASE messages' = <<>>
  BY <1>1 DEF ReadOnce, ReadOrHanded, MN
<1>2. CASE messages' = messages /\ handed' = handed
  BY <1>0, <1>2 DEF OnceInv, ReadOnce, ReadOrHanded, MN, HN
<1>3. ASSUME NEW t \in Times, ReadFile(t) PROVE ReadOnce' /\ ReadOrHanded'
  <2>1. \A i \in Nat, n \in Nat : ~(MN(i, n) /\ FN(target, t, n))
    BY <1>3, ReadAdds DEF OnceInv, ReadOrFiled
  <2>2. \A i \in Nat, n \in Nat :
          MN(i, n)' => MN(i, n) \/ (i = Len(messages) + 1 /\ FN(target, t, n))
    BY <1>3, ReadAdds
  <2>3. ReadOnce'
    BY <2>1, <2>2 DEF OnceInv, ReadOnce
  <2>4. \A c \in Targets, i \in Nat, n \in Nat : HN(c, i, n)' => HN(c, i, n)
    BY <1>3, ReadAdds DEF HN
  <2>5. ReadOrHanded'
    BY <1>0, <1>3, <2>2, <2>4, ReadAdds DEF OnceInv, ReadOrHanded, FiledOrHanded
  <2> QED
    BY <2>3, <2>5
<1> QED
  BY <1>1, <1>2, <1>3, QuietSteps DEF Quiet, Return, RemoveFile

LEMMA ReadOrFiledStep == ASSUME StoreInv, OnceInv, [Next]_vars PROVE ReadOrFiled'
<1> SUFFICES ASSUME NEW c \in Targets, NEW t \in Times, NEW i \in Nat, NEW n \in Nat,
                    MN(i, n)', FN(c, t, n)'
             PROVE  \/ pc' = "remove" /\ c = target' /\ t = name'
                    \/ pc' = "return" /\ n \in again'
  BY DEF ReadOrFiled
<1>0. again \subseteq again'
  BY AgainGrows
<1>1. CASE messages' = <<>>
  BY <1>1 DEF MN
<1>2. CASE messages' = messages /\ pc' = pc /\ target' = target /\ name' = name
  <2>1. MN(i, n)
    BY <1>2 DEF MN
  <2>2. Known(n)
    BY <2>1 DEF OnceInv, AllKnown
  <2>3. ~(CreateFile /\ n = issued)
    BY <2>2 DEF CreateFile, Known
  <2>4. FN(c, t, n)
    BY <2>3, FilesNumbered
  <2> QED
    BY <1>0, <1>2, <2>1, <2>4 DEF OnceInv, ReadOrFiled
<1>3. CASE RemoveFile
  <2>1. MN(i, n) /\ pc = "remove"
    BY <1>3 DEF RemoveFile, MN
  <2>2. FN(c, t, n)
    BY <1>3, FilesNumbered DEF RemoveFile, CreateFile
  <2>3. c = target /\ t = name
    BY <2>1, <2>2 DEF OnceInv, ReadOrFiled
  <2>4. CASE files' = [files EXCEPT ![target][name] = NoFile]
    <3>1. files \in Directories /\ files' = Put(files, target, name, NoFile)
          /\ NoFile \in Stored \cup {NoFile} /\ target \in Targets /\ name \in Times
      BY <2>3, <2>4 DEF StoreInv, TypeOK, Directories, Put
    <3>2. files'[target][name] = NoFile
      BY <3>1, FileSet
    <3> QED
      BY <2>3, <3>2 DEF FN
  <2>5. CASE pc' = "return" /\ again' = again \cup {files[target][name].n}
    BY <2>2, <2>3, <2>5 DEF FN
  <2> QED
    BY <1>3, <2>4, <2>5 DEF RemoveFile
<1>4. ASSUME NEW u \in Times, ReadFile(u)
      PROVE  pc' = "remove" /\ c = target' /\ t = name'
  <2>1. FN(c, t, n) /\ pc = "read"
    BY <1>4, ReadAdds DEF FN
  <2>2. ~MN(i, n)
    BY <2>1 DEF OnceInv, ReadOrFiled
  <2>3. FN(target, u, n) /\ target \in Targets
    BY <1>4, <2>2, ReadAdds
  <2>4. c = target /\ t = u
    BY <2>1, <2>3 DEF OnceInv, OneFile
  <2> QED
    BY <1>4, <2>4, ReadAdds
<1> QED
  BY <1>1, <1>2, <1>3, <1>4, QuietSteps DEF Quiet, Return

LEMMA OnceStep == ASSUME StoreInv, OnceInv, [Next]_vars PROVE OnceInv'
<1>1. pc' = "list" => messages' = <<>>
  BY QuietSteps, ReadAdds DEF Quiet, Return, RemoveFile
<1> QED
  BY <1>1, AllKnownStep, OneFileStep, FiledOrHandedStep, HandedOnceStep, ReadOnceStep,
     ReadOrFiledStep DEF OnceInv

(* No crash, restart or failure makes a message come twice, but one that    *)
(* its file could not be removed.  Inductive once it is known where else a  *)
(* ticket may be: in one file, or in the hands of a call.                   *)
THEOREM NothingComesTwice == Spec => []ReturnedOnce
<1>1. Init => StoreInv /\ OnceInv
  BY StoreInit, OnceInit
<1>2. StoreInv /\ OnceInv /\ [Next]_vars => (StoreInv /\ OnceInv)'
  BY StoreStep, OnceStep
<1>3. StoreInv /\ OnceInv => ReturnedOnce
  <2> SUFFICES ASSUME StoreInv, OnceInv, NEW c \in Targets, NEW d \in Targets,
                      NEW i \in DOMAIN handed[c], NEW j \in DOMAIN handed[d],
                      handed[c][i].n = handed[d][j].n, <<c, i>> # <<d, j>>
               PROVE  handed[c][i].n \in again
    BY DEF ReturnedOnce
  <2>1. /\ i \in 1 .. Len(handed[c]) /\ j \in 1 .. Len(handed[d])
        /\ handed[c][i] \in Stored
    BY DEF StoreInv, TypeOK
  <2>2. i \in Nat /\ j \in Nat /\ handed[c][i].n \in Nat
    BY <2>1, StoredType
  <2>3. HN(c, i, handed[c][i].n) /\ HN(d, j, handed[c][i].n)
    BY <2>1 DEF HN
  <2> QED
    BY <2>2, <2>3 DEF OnceInv, HandedOnce
<1> QED
  BY <1>1, <1>2, <1>3, PTL DEF Spec

-----------------------------------------------------------------------------
(* The order in which messages are handed over                              *)

(* n may be handed over before m.                                           *)
Fine(n, m) ==
  \/ n < m
  \/ n > m /\ m \in skipped
  \/ n = m /\ m \in again

(* As long as the clock is not set back, later files have later names.      *)
NamedByAge ==
  /\ \A c \in Targets, t \in Times, n \in Nat : FN(c, t, n) => t <= clock
  /\ \A c \in Targets, t \in Times, u \in Times, n \in Nat, m \in Nat :
       FN(c, t, n) /\ FN(c, u, m) /\ t < u => n < m

HandedBeforeFiled ==
  \A c \in Targets, i \in Nat, t \in Times, n \in Nat, m \in Nat :
    HN(c, i, n) /\ FN(c, t, m) => Fine(n, m)

HandedBeforeRead ==
  \A c \in Targets, i \in Nat, j \in Nat, n \in Nat, m \in Nat :
    c = target /\ HN(c, i, n) /\ MN(j, m) => Fine(n, m)

HandedByAge ==
  \A c \in Targets, i \in Nat, j \in Nat, n \in Nat, m \in Nat :
    HN(c, i, n) /\ HN(c, j, m) /\ i < j => Fine(n, m)

ReadByAge ==
  \A i \in Nat, j \in Nat, n \in Nat, m \in Nat :
    MN(i, n) /\ MN(j, m) /\ i < j => n < m

(* While the loop runs, a file it will not look at any more was skipped,    *)
(* and one it has yet to look at is younger than what it has read.          *)
Reading == pc \in {"read", "remove"}

PassedOver ==
  Reading => \A t \in Times, n \in Nat :
               FN(target, t, n) /\ t \notin todo => n \in skipped

ReadBeforeTodo ==
  Reading => \A i \in Nat, t \in Times, n \in Nat, m \in Nat :
               MN(i, n) /\ FN(target, t, m) /\ t \in todo =>
                 n < m \/ (pc = "remove" /\ t = name /\ n = m)

(* After the loop was broken off, the one message that is read and still    *)
(* has its file is the last one.                                            *)
ReadBeforeFiled ==
  pc = "return" => \A i \in Nat, t \in Times, n \in Nat, m \in Nat :
                     MN(i, n) /\ FN(target, t, m) =>
                       Fine(n, m) /\ (n = m => i = Len(messages))

OrderInv ==
  /\ NamedByAge /\ HandedBeforeFiled /\ HandedBeforeRead /\ HandedByAge /\ ReadByAge
  /\ PassedOver /\ ReadBeforeTodo /\ ReadBeforeFiled

LEMMA OrderInit == ASSUME Init PROVE OrderInv
<1>1. \A c \in Targets, t \in Times, n \in Nat : ~FN(c, t, n)
  BY DEF Init, EmptyDir, FN
<1>2. \A c \in Targets, i \in Nat, n \in Nat : ~HN(c, i, n)
  BY DEF Init, HN
<1>3. \A i \in Nat, n \in Nat : ~MN(i, n)
  BY DEF Init, MN
<1>4. ~Reading /\ pc # "return"
  BY DEF Init, Reading
<1> QED
  BY <1>1, <1>2, <1>3, <1>4 DEF OrderInv, NamedByAge, HandedBeforeFiled, HandedBeforeRead,
     HandedByAge, ReadByAge, PassedOver, ReadBeforeTodo, ReadBeforeFiled

LEMMA FineStays ==
  ASSUME [Next]_vars, NEW n \in Nat, NEW m \in Nat, Fine(n, m)
  PROVE  Fine(n, m)'
<1>1. skipped \subseteq skipped'
  BY DEF Next, Step, vars, fateVars, InitStore, CallStore, CallFetch, StoreFails,
     MakeDirectory, CreateFile, WriteFile, CloseFile, ListDirectory, ReadFile, SkipFile,
     RemoveFile, Return, Tick, Crash
<1> QED
  BY <1>1, AgainGrows DEF Fine

(* A file that is new is younger than everything known.                     *)
LEMMA NewIsYounger ==
  ASSUME StoreInv, CreateFile, NEW n \in Nat, Known(n)
  PROVE  n < issued
BY DEF StoreInv, TypeOK, CreateFile, Known

LEMMA NamedByAgeStep ==
  ASSUME ~ClockMaySlip, StoreInv, OnceInv, OrderInv, [Next]_vars
  PROVE  NamedByAge'
<1>0. /\ clock \in Nat /\ clock' \in Nat /\ Times \subseteq Nat /\ issued \in Nat
      /\ clock \in Times
  BY StoreStep DEF StoreInv, TypeOK, Times
<1>1. clock <= clock'
  <2>1. Tick => clock <= clock'
    BY <1>0 DEF Tick
  <2>2. ~Tick => clock' = clock
    BY DEF Next, Step, vars, storeVars, InitStore, CallStore, CallFetch, StoreFails,
       MakeDirectory, CreateFile, WriteFile, CloseFile, ListDirectory, ReadFile, SkipFile,
       RemoveFile, Return, Crash
  <2> QED
    BY <1>0, <2>1, <2>2
<1>2. ASSUME NEW c \in Targets, NEW t \in Times, NEW n \in Nat, FN(c, t, n)'
      PROVE  t <= clock'
  <2>1. FN(c, t, n) => t <= clock
    BY DEF OrderInv, NamedByAge
  <2>2. t <= clock
    BY <1>0, <1>2, <2>1, FilesNumbered
  <2> QED
    BY <1>0, <1>1, <2>2
<1>3. ASSUME NEW c \in Targets, NEW t \in Times, NEW u \in Times, NEW n \in Nat,
             NEW m \in Nat, FN(c, t, n)', FN(c, u, m)', t < u
      PROVE  n < m
  <2>1. FN(c, t, n) \/ (CreateFile /\ t = clock /\ n = issued)
    BY <1>3, FilesNumbered
  <2>2. FN(c, u, m) \/ (CreateFile /\ u = clock /\ m = issued)
    BY <1>3, FilesNumbered
  <2>3. FN(c, t, n) => Known(n) /\ t <= clock
    BY DEF OrderInv, NamedByAge, OnceInv, AllKnown
  <2>4. FN(c, u, m) => u <= clock
    BY DEF OrderInv, NamedByAge
  <2>5. CASE FN(c, t, n) /\ FN(c, u, m)
    BY <1>3, <2>5 DEF OrderInv, NamedByAge
  <2>6. CASE FN(c, t, n) /\ CreateFile /\ u = clock /\ m = issued
    BY <2>3, <2>6, NewIsYounger
  <2>7. CASE t = clock
    BY <1>0, <1>3, <2>2, <2>4, <2>7
  <2> QED
    BY <2>1, <2>2, <2>5, <2>6, <2>7
<1> QED
  BY <1>2, <1>3 DEF NamedByAge

LEMMA HandedBeforeFiledStep ==
  ASSUME StoreInv, OnceInv, OrderInv, [Next]_vars
  PROVE  HandedBeforeFiled'
<1> SUFFICES ASSUME NEW c \in Targets, NEW i \in Nat, NEW t \in Times, NEW n \in Nat,
                    NEW m \in Nat, HN(c, i, n)', FN(c, t, m)'
             PROVE  Fine(n, m)'
  BY DEF HandedBeforeFiled
<1>1. CASE handed' = handed
  <2>1. HN(c, i, n)
    BY <1>1 DEF HN
  <2>2. CASE FN(c, t, m)
    BY <2>1, <2>2, FineStays DEF OrderInv, HandedBeforeFiled
  <2>3. CASE CreateFile /\ m = issued
    <3>1. Known(n)
      BY <2>1 DEF OnceInv, AllKnown
    <3>2. Fine(n, m)
      BY <2>3, <3>1, NewIsYounger DEF Fine
    <3> QED
      BY <3>2, FineStays
  <2> QED
    BY <2>2, <2>3, FilesNumbered
<1>2. CASE Return
  <2>1. FN(c, t, m)
    BY <1>2 DEF Return, FN, storeVars
  <2>2. CASE HN(c, i, n)
    BY <2>1, <2>2, FineStays DEF OrderInv, HandedBeforeFiled
  <2>3. CASE c = target /\ i - Len(handed[c]) \in Nat /\ MN(i - Len(handed[c]), n)
    <3>1. CASE pc = "return"
      <4>1. Fine(n, m)
        BY <2>1, <2>3, <3>1 DEF OrderInv, ReadBeforeFiled
      <4> QED
        BY <4>1, FineStays
    <3>2. CASE pc = "read" /\ todo = {}
      <4>1. m \in skipped
        BY <2>1, <2>3, <3>2 DEF OrderInv, PassedOver, Reading
      <4>2. n # m
        BY <2>1, <2>3, <3>2 DEF OnceInv, ReadOrFiled
      <4>3. Fine(n, m)
        BY <4>1, <4>2 DEF Fine
      <4> QED
        BY <4>3, FineStays
    <3> QED
      BY <1>2, <3>1, <3>2 DEF Return
  <2> QED
    BY <1>2, <2>2, <2>3, ReturnHands
<1> QED
  BY <1>1, <1>2, QuietSteps DEF Quiet, RemoveFile, ReadFile, fateVars

LEMMA HandedBeforeReadStep ==
  ASSUME StoreInv, OnceInv, OrderInv, [Next]_vars
  PROVE  HandedBeforeRead'
<1> SUFFICES ASSUME NEW c \in Targets, NEW i \in Nat, NEW j \in Nat, NEW n \in Nat,
                    NEW m \in Nat, c = target', HN(c, i, n)', MN(j, m)'
             PROVE  Fine(n, m)'
  BY DEF HandedBeforeRead
<1>1. CASE messages' = <<>>
  BY <1>1 DEF MN
<1>2. CASE messages' = messages /\ handed' = handed /\ target' = target
  <2>1. HN(c, i, n) /\ MN(j, m) /\ c = target
    BY <1>2 DEF HN, MN
  <2> QED
    BY <1>2, <2>1, FineStays DEF OrderInv, HandedBeforeRead
<1>3. ASSUME NEW t \in Times, ReadFile(t) PROVE Fine(n, m)'
  <2>1. HN(c, i, n) /\ c = target
    BY <1>3, ReadAdds DEF HN
  <2>2. target \in Targets /\ (MN(j, m) \/ FN(target, t, m))
    BY <1>3, ReadAdds
  <2> QED
    BY <2>1, <2>2, FineStays DEF OrderInv, HandedBeforeRead, HandedBeforeFiled
<1> QED
  BY <1>1, <1>2, <1>3, QuietSteps DEF Quiet, Return, RemoveFile

LEMMA HandedByAgeStep ==
  ASSUME StoreInv, OnceInv, OrderInv, [Next]_vars
  PROVE  HandedByAge'
<1> SUFFICES ASSUME NEW c \in Targets, NEW i \in Nat, NEW j \in Nat, NEW n \in Nat,
                    NEW m \in Nat, HN(c, i, n)', HN(c, j, m)', i < j
             PROVE  Fine(n, m)'
  BY DEF HandedByAge
<1>0. Len(handed[c]) \in Nat /\ \A k \in Nat, e \in Nat : HN(c, k, e) => k <= Len(handed[c])
  BY DEF StoreInv, TypeOK, HN
<1>1. CASE handed' = handed
  <2>1. HN(c, i, n) /\ HN(c, j, m)
    BY <1>1 DEF HN
  <2> QED
    BY <2>1, FineStays DEF OrderInv, HandedByAge
<1>2. CASE Return
  <2> DEFINE New(k, e) == /\ c = target /\ k \notin 1 .. Len(handed[c])
                          /\ k - Len(handed[c]) \in Nat /\ MN(k - Len(handed[c]), e)
  <2>1. (HN(c, i, n) \/ New(i, n)) /\ (HN(c, j, m) \/ New(j, m))
    BY <1>2, ReturnHands
  <2>2. CASE HN(c, i, n) /\ HN(c, j, m)
    BY <2>2, FineStays DEF OrderInv, HandedByAge
  <2>3. CASE HN(c, i, n) /\ New(j, m)
    BY <2>3, FineStays DEF OrderInv, HandedBeforeRead
  <2>4. CASE New(i, n) /\ HN(c, j, m)
    <3>1. j <= Len(handed[c])
      BY <1>0, <2>4
    <3>2. i >= Len(handed[c])
      BY <1>0, <2>4
    <3> QED
      BY <1>0, <3>1, <3>2
  <2>5. CASE New(i, n) /\ New(j, m)
    <3>1. i - Len(handed[c]) < j - Len(handed[c])
      BY <1>0
    <3>2. n < m
      BY <2>5, <3>1 DEF OrderInv, ReadByAge
    <3>3. Fine(n, m)
      BY <3>2 DEF Fine
    <3> QED
      BY <3>3, FineStays
  <2> QED
    BY <2>1, <2>2, <2>3, <2>4, <2>5
<1> QED
  BY <1>1, <1>2, QuietSteps DEF Quiet, RemoveFile, ReadFile, fateVars

LEMMA ReadByAgeStep ==
  ASSUME StoreInv, OnceInv, OrderInv, [Next]_vars
  PROVE  ReadByAge'
<1> SUFFICES ASSUME NEW i \in Nat, NEW j \in Nat, NEW n \in Nat, NEW m \in Nat,
                    MN(i, n)', MN(j, m)', i < j
             PROVE  n < m
  BY DEF ReadByAge
<1>1. CASE messages' = <<>>
  BY <1>1 DEF MN
<1>2. CASE messages' = messages
  BY <1>2 DEF MN, OrderInv, ReadByAge
<1>3. ASSUME NEW t \in Times, ReadFile(t) PROVE n < m
  <2>1. Len(messages) \in Nat /\ \A k \in Nat, e \in Nat : MN(k, e) => k <= Len(messages)
    BY DEF StoreInv, TypeOK, MN
  <2>2. /\ MN(i, n) \/ (i = Len(messages) + 1 /\ FN(target, t, n))
        /\ MN(j, m) \/ (j = Len(messages) + 1 /\ FN(target, t, m))
    BY <1>3, ReadAdds
  <2>3. MN(i, n)
    BY <2>1, <2>2
  <2>4. CASE MN(j, m)
    BY <2>3, <2>4 DEF OrderInv, ReadByAge
  <2>5. CASE FN(target, t, m)
    <3>1. t \in todo /\ pc = "read"
      BY <1>3 DEF ReadFile, Least
    <3> QED
      BY <2>3, <2>5, <3>1 DEF OrderInv, ReadBeforeTodo, Reading
  <2> QED
    BY <2>2, <2>4, <2>5
<1> QED
  BY <1>1, <1>2, <1>3, QuietSteps DEF Quiet, Return, RemoveFile

(* The steps that the loop takes, or that leave it alone.                   *)
LEMMA ReadingSteps ==
  ASSUME StoreInv, [Next]_vars, Reading'
  PROVE  \/ /\ Reading /\ UNCHANGED <<pc, todo, target, name, messages, files>>
            /\ skipped' = skipped
         \/ ListDirectory \/ RemoveFile
         \/ \E t \in Times : ReadFile(t) \/ SkipFile(t)
<1>1. ~(CreateFile \/ WriteFile \/ CloseFile \/ MakeDirectory \/ Return \/ Crash)
  BY DEF CreateFile, WriteFile, CloseFile, MakeDirectory, Return, Crash, Reading
<1>2. ~InitStore /\ \A op : ~StoreFails(op)
  BY DEF InitStore, StoreFails, Reading
<1>3. ASSUME NEW c \in Targets PROVE ~CallStore(c) /\ ~CallFetch(c)
  BY DEF CallStore, CallFetch, Reading
<1>4. ASSUME Tick \/ UNCHANGED vars
      PROVE  Reading /\ UNCHANGED <<pc, todo, target, name, messages, files, skipped>>
  BY <1>4 DEF Tick, vars, callVars, storeVars, fateVars, Reading
<1> QED
  BY <1>1, <1>2, <1>3, <1>4, Steps DEF Others

(* What the loop's steps do to the names it has yet to look at.             *)
LEMMA LoopSteps ==
  ASSUME StoreInv, Reading'
  PROVE  /\ ListDirectory => target' = target /\ files' = files /\ pc' = "read"
                             /\ todo' = FileNames(target)
         /\ RemoveFile => /\ target' = target /\ pc' = "read" /\ todo' = todo \ {name}
                          /\ target \in Targets /\ files'[target][name] = NoFile
                          /\ messages' = messages /\ skipped' = skipped
         /\ \A t \in Times :
              ReadFile(t) => /\ target \in Targets /\ Least(t) /\ todo' = todo
                             /\ skipped' = skipped
         /\ \A t \in Times :
              SkipFile(t) => /\ target' = target /\ files' = files /\ pc' = pc
                             /\ pc = "read" /\ todo' = todo \ {t}
                             /\ messages' = messages
                             /\ skipped' = skipped \cup {files[target][t].n}
<1>1. ListDirectory => target' = target /\ files' = files /\ pc' = "read"
                       /\ todo' = FileNames(target)
  BY DEF ListDirectory, storeVars, Reading
<1>2. ASSUME RemoveFile
      PROVE  /\ target' = target /\ pc' = "read" /\ todo' = todo \ {name}
             /\ target \in Targets /\ files'[target][name] = NoFile
             /\ messages' = messages /\ skipped' = skipped
  <2>1. /\ target' = target /\ pc' = "read" /\ todo' = todo \ {name}
        /\ files' = Put(files, target, name, NoFile)
        /\ messages' = messages /\ skipped' = skipped
    BY <1>2 DEF RemoveFile, Reading, Put
  <2>2. /\ target \in Targets /\ name \in Times /\ files \in Directories
        /\ NoFile \in Stored \cup {NoFile}
    BY <1>2 DEF RemoveFile, StoreInv, CallInv, Calling, TypeOK, Directories
  <2>3. files'[target][name] = NoFile
    BY <2>1, <2>2, FileSet
  <2> QED
    BY <2>1, <2>2, <2>3
<1>3. ASSUME NEW t \in Times, ReadFile(t)
      PROVE  /\ target \in Targets /\ Least(t) /\ todo' = todo
             /\ skipped' = skipped
  BY <1>3 DEF ReadFile, StoreInv, CallInv, Calling, fateVars
<1>4. ASSUME NEW t \in Times, SkipFile(t)
      PROVE  /\ target' = target /\ files' = files /\ pc' = pc
             /\ pc = "read" /\ todo' = todo \ {t}
             /\ messages' = messages
             /\ skipped' = skipped \cup {files[target][t].n}
  BY <1>4 DEF SkipFile, storeVars
<1> QED
  BY <1>1, <1>2, <1>3, <1>4

LEMMA PassedOverStep ==
  ASSUME StoreInv, OrderInv, [Next]_vars
  PROVE  PassedOver'
<1> SUFFICES ASSUME Reading', NEW c \in Targets, c = target', NEW t \in Times, NEW n \in Nat,
                    FN(c, t, n)', t \notin todo'
             PROVE  n \in skipped'
  <2>1. Reading' => target' \in Targets
    BY StoreStep DEF StoreInv, CallInv, Calling, Reading
  <2> QED
    BY <2>1 DEF PassedOver, FN
<1>1. CASE /\ Reading /\ UNCHANGED <<pc, todo, target, name, messages, files>>
           /\ skipped' = skipped
  BY <1>1 DEF OrderInv, PassedOver, FN
<1>2. CASE ListDirectory
  BY <1>2, LoopSteps DEF FileNames, FN
<1>3. CASE RemoveFile
  <2>1. c = target /\ Reading
    BY <1>3, LoopSteps DEF RemoveFile, Reading
  <2>2. t # name
    BY <1>3, <2>1, LoopSteps DEF FN
  <2>3. FN(c, t, n)
    BY <1>3, FilesNumbered DEF RemoveFile, CreateFile
  <2> QED
    BY <1>3, <2>1, <2>2, <2>3, LoopSteps DEF OrderInv, PassedOver
<1>4. ASSUME NEW u \in Times, ReadFile(u) PROVE n \in skipped'
  <2>1. c = target /\ Reading /\ FN(c, t, n)
    BY <1>4, ReadAdds DEF Reading, FN
  <2> QED
    BY <1>4, <2>1, LoopSteps DEF OrderInv, PassedOver
<1>5. ASSUME NEW u \in Times, SkipFile(u) PROVE n \in skipped'
  <2>1. c = target /\ Reading /\ FN(c, t, n)
    BY <1>5, LoopSteps DEF Reading, FN
  <2>2. CASE t = u
    BY <1>5, <2>1, <2>2, LoopSteps DEF FN
  <2>3. CASE t # u
    BY <1>5, <2>1, <2>3, LoopSteps DEF OrderInv, PassedOver
  <2> QED
    BY <2>2, <2>3
<1> QED
  BY <1>1, <1>2, <1>3, <1>4, <1>5, ReadingSteps

LEMMA ReadBeforeTodoStep ==
  ASSUME StoreInv, OnceInv, OrderInv, [Next]_vars
  PROVE  ReadBeforeTodo'
<1> SUFFICES ASSUME Reading', NEW c \in Targets, c = target', NEW i \in Nat, NEW t \in Times,
                    NEW n \in Nat, NEW m \in Nat, MN(i, n)', FN(c, t, m)', t \in todo'
             PROVE  n < m \/ (pc' = "remove" /\ t = name' /\ n = m)
  <2>1. Reading' => target' \in Targets
    BY StoreStep DEF StoreInv, CallInv, Calling, Reading
  <2> QED
    BY <2>1 DEF ReadBeforeTodo, FN
<1>1. CASE /\ Reading /\ UNCHANGED <<pc, todo, target, name, messages, files>>
           /\ skipped' = skipped
  <2>1. MN(i, n) /\ FN(c, t, m) /\ t \in todo /\ c = target
    BY <1>1 DEF MN, FN
  <2> QED
    BY <1>1, <2>1 DEF OrderInv, ReadBeforeTodo
<1>2. CASE ListDirectory
  <2>1. messages' = <<>>
    BY <1>2 DEF OnceInv, ListDirectory
  <2> QED
    BY <2>1 DEF MN
<1>3. CASE RemoveFile
  <2>1. c = target /\ Reading /\ pc = "remove"
    BY <1>3, LoopSteps DEF RemoveFile, Reading
  <2>2. t # name
    BY <1>3, <2>1, LoopSteps DEF FN
  <2>3. FN(c, t, m) /\ MN(i, n) /\ t \in todo
    BY <1>3, FilesNumbered, LoopSteps DEF RemoveFile, CreateFile, MN
  <2> QED
    BY <2>1, <2>2, <2>3 DEF OrderInv, ReadBeforeTodo
<1>4. ASSUME NEW u \in Times, ReadFile(u)
      PROVE  n < m \/ (pc' = "remove" /\ t = name' /\ n = m)
  <2>1. c = target /\ Reading /\ FN(c, t, m) /\ pc = "read" /\ pc' = "remove" /\ name' = u
    BY <1>4, ReadAdds DEF Reading, FN
  <2>2. t \in todo /\ u \in todo /\ u <= t
    BY <1>4, LoopSteps DEF Least
  <2>3. CASE MN(i, n)
    BY <2>1, <2>2, <2>3 DEF OrderInv, ReadBeforeTodo
  <2>4. CASE FN(c, u, n)
    <3>1. CASE t = u
      BY <2>1, <2>4, <3>1 DEF FN
    <3>2. CASE t # u
      <4>1. u < t
        BY <2>2, <3>2 DEF Times
      <4> QED
        BY <2>1, <2>4, <4>1 DEF OrderInv, NamedByAge
    <3> QED
      BY <3>1, <3>2
  <2> QED
    BY <1>4, <2>1, <2>3, <2>4, ReadAdds
<1>5. ASSUME NEW u \in Times, SkipFile(u) PROVE n < m
  <2>1. c = target /\ Reading /\ pc = "read" /\ FN(c, t, m) /\ MN(i, n) /\ t \in todo
    BY <1>5, LoopSteps DEF Reading, FN, MN
  <2> QED
    BY <2>1 DEF OrderInv, ReadBeforeTodo
<1> QED
  BY <1>1, <1>2, <1>3, <1>4, <1>5, ReadingSteps

LEMMA ReadBeforeFiledStep ==
  ASSUME StoreInv, OnceInv, OrderInv, [Next]_vars
  PROVE  ReadBeforeFiled'
<1> SUFFICES ASSUME pc' = "return", NEW c \in Targets, c = target', NEW i \in Nat,
                    NEW t \in Times, NEW n \in Nat, NEW m \in Nat,
                    MN(i, n)', FN(c, t, m)'
             PROVE  Fine(n, m)' /\ (n = m => i = Len(messages'))
  <2>1. pc' = "return" => target' \in Targets
    BY StoreStep DEF StoreInv, CallInv, Calling
  <2> QED
    BY <2>1 DEF ReadBeforeFiled, FN
<1>1. CASE messages' = <<>>
  BY <1>1 DEF MN
<1>2. CASE messages' = messages /\ pc' = pc /\ target' = target
  <2>1. MN(i, n) /\ ~CreateFile
    BY <1>2 DEF MN, CreateFile
  <2>2. FN(c, t, m)
    BY <2>1, FilesNumbered
  <2>3. Fine(n, m) /\ (n = m => i = Len(messages))
    BY <1>2, <2>1, <2>2 DEF OrderInv, ReadBeforeFiled
  <2> QED
    BY <1>2, <2>3, FineStays
<1>3. CASE RemoveFile
  <2>1. /\ c = target /\ pc = "remove" /\ Reading /\ MN(i, n) /\ name \in todo
        /\ messages' = messages
    BY <1>3 DEF RemoveFile, Reading, MN, StoreInv, CallInv
  <2>2. FN(c, t, m)
    BY <1>3, FilesNumbered DEF RemoveFile, CreateFile
  <2>3. again' = again \cup {files[target][name].n}
    BY <1>3 DEF RemoveFile
  <2>4. CASE n = m
    <3>1. t = name
      BY <2>1, <2>2, <2>4 DEF OnceInv, ReadOrFiled
    <3>2. m \in again'
      BY <2>1, <2>2, <2>3, <3>1 DEF FN
    <3>3. MN(Len(messages), m) /\ Len(messages) \in Nat
      BY <1>3, <2>1, <2>2, <3>1, RemoveStep DEF MN, FN, StoreInv, TypeOK
    <3>4. i = Len(messages)
      BY <2>1, <2>4, <3>3 DEF OnceInv, ReadOnce
    <3> QED
      BY <2>1, <2>4, <3>2, <3>4 DEF Fine
  <2>5. CASE n # m
    <3>1. t \in todo => n < m
      BY <2>1, <2>2, <2>5 DEF OrderInv, ReadBeforeTodo
    <3>2. t \notin todo => m \in skipped
      BY <2>1, <2>2 DEF OrderInv, PassedOver
    <3>3. Fine(n, m)
      BY <2>5, <3>1, <3>2 DEF Fine
    <3> QED
      BY <2>5, <3>3, FineStays
  <2> QED
    BY <2>4, <2>5
<1> QED
  BY <1>1, <1>2, <1>3, QuietSteps, ReadAdds DEF Quiet, Return

LEMMA OrderStep ==
  ASSUME ~ClockMaySlip, StoreInv, OnceInv, OrderInv, [Next]_vars
  PROVE  OrderInv'
BY NamedByAgeStep, HandedBeforeFiledStep, HandedBeforeReadStep, HandedByAgeStep,
   ReadByAgeStep, PassedOverStep, ReadBeforeTodoStep, ReadBeforeFiledStep DEF OrderInv

(* While the clock is not set back, successive calls return a target's      *)
(* messages in the order they were stored, whatever crashes and fails in    *)
(* between.  Inductive once it is known how what is handed over, what a     *)
(* call has read, what it has yet to read and what it passed over compare.  *)
THEOREM OldestComesFirst ==
  ASSUME ~ClockMaySlip
  PROVE  Spec => []HandedInOrder
<1>1. Init => StoreInv /\ OnceInv /\ OrderInv
  BY StoreInit, OnceInit, OrderInit
<1>2. StoreInv /\ OnceInv /\ OrderInv /\ [Next]_vars => (StoreInv /\ OnceInv /\ OrderInv)'
  BY StoreStep, OnceStep, OrderStep
<1>3. StoreInv /\ OrderInv => HandedInOrder
  <2> SUFFICES ASSUME StoreInv, OrderInv, NEW c \in Targets,
                      NEW i \in DOMAIN handed[c], NEW j \in DOMAIN handed[c], i < j
               PROVE  Fine(handed[c][i].n, handed[c][j].n)
    BY DEF HandedInOrder, Fine
  <2>1. /\ i \in 1 .. Len(handed[c]) /\ j \in 1 .. Len(handed[c])
        /\ handed[c][i] \in Stored /\ handed[c][j] \in Stored
    BY DEF StoreInv, TypeOK
  <2>2. i \in Nat /\ j \in Nat /\ handed[c][i].n \in Nat /\ handed[c][j].n \in Nat
    BY <2>1, StoredType
  <2>3. HN(c, i, handed[c][i].n) /\ HN(c, j, handed[c][j].n)
    BY <2>1 DEF HN
  <2> QED
    BY <2>2, <2>3 DEF OrderInv, HandedByAge
<1> QED
  BY <1>1, <1>2, <1>3, PTL DEF Spec

-----------------------------------------------------------------------------
(* The store is an offline queue                                            *)

KeptBar == [c \in Targets |-> KeptTickets(c) \cup
              (IF c = target THEN TicketsIn(messages) ELSE {})]

HandedBar == [c \in Targets |-> Numbers(handed[c])]

QueueBar == <<issued, KeptBar, torn, HandedBar>>

LEMMA QueueCounts ==
  ASSUME NEW S PROVE Queue!Cardinality(S) = Cardinality(S)
BY DEF Queue!Cardinality, Cardinality

HasFile(c, n) == \E t \in Times : FN(c, t, n)
IsRead(n)     == \E i \in Nat : MN(i, n)

LEMMA TicketsKept ==
  ASSUME StoreInv, NEW c \in Targets
  PROVE  KeptTickets(c) = {n \in Nat : HasFile(c, n)}
<1>1. \A t \in Times : files[c][t] # NoFile => files[c][t].n \in Nat
  BY StoredType DEF StoreInv, TypeOK
<1> QED
  BY <1>1 DEF KeptTickets, FileNames, HasFile, FN

LEMMA TicketsRead ==
  ASSUME StoreInv
  PROVE  TicketsIn(messages) = {n \in Nat : IsRead(n)}
<1>1. DOMAIN messages = 1 .. Len(messages) /\ Len(messages) \in Nat
      /\ \A i \in 1 .. Len(messages) : messages[i].n \in Nat
  BY StoredType DEF StoreInv, TypeOK
<1> QED
  BY <1>1 DEF TicketsIn, IsRead, MN

(* What the queue keeps, member by member.                                  *)
LEMMA KeptBarIs ==
  ASSUME StoreInv
  PROVE  KeptBar = [c \in Targets |->
                      {n \in Nat : HasFile(c, n) \/ (c = target /\ IsRead(n))}]
<1>1. ASSUME NEW c \in Targets
      PROVE  KeptTickets(c) \cup (IF c = target THEN TicketsIn(messages) ELSE {})
               = {n \in Nat : HasFile(c, n) \/ (c = target /\ IsRead(n))}
  BY TicketsKept, TicketsRead
<1> QED
  BY <1>1 DEF KeptBar

LEMMA KeptBarBecomes ==
  (StoreInv => KeptBar = [c \in Targets |->
                 {n \in Nat : HasFile(c, n) \/ (c = target /\ IsRead(n))}])'
<1>1. StoreInv => KeptBar = [c \in Targets |->
                    {n \in Nat : HasFile(c, n) \/ (c = target /\ IsRead(n))}]
  BY KeptBarIs
<1> QED
  BY <1>1, PTL

LEMMA SameFiles ==
  ASSUME files' = files, NEW c, NEW n
  PROVE  HasFile(c, n)' <=> HasFile(c, n)
BY DEF HasFile, FN

LEMMA SameRead ==
  ASSUME messages' = messages, NEW n
  PROVE  IsRead(n)' <=> IsRead(n)
BY DEF IsRead, MN

LEMMA NothingRead ==
  ASSUME NEW n
  PROVE  /\ messages = <<>> => ~IsRead(n)
         /\ messages' = <<>> => ~IsRead(n)'
BY DEF IsRead, MN

(* Writing a message into its file moves no ticket.                         *)
LEMMA WritingKeepsFiles ==
  ASSUME StoreInv, WriteFile \/ CloseFile, NEW c \in Targets, NEW n \in Nat
  PROVE  HasFile(c, n)' <=> HasFile(c, n)
<1>0. [Next]_vars
  BY DEF Next, Step
<1>1. PICK f : Writes(f)
  BY WriteStep, CloseStep
<1>2. name' = name /\ name \in Times /\ pc \in {"write", "close"}
  BY DEF WriteFile, CloseFile, callVars, StoreInv, TypeOK
<1>3. ASSUME NEW t \in Times, FN(c, t, n)' PROVE FN(c, t, n)
  BY <1>0, <1>2, <1>3, FilesNumbered DEF CreateFile
<1>4. ASSUME NEW t \in Times, FN(c, t, n) PROVE FN(c, t, n)'
  <2>1. CASE c = target /\ t = name
    BY <1>1, <1>2, <1>4, <2>1, WritesOne, StoredType DEF FN, Writes, StoreInv, CallInv
  <2>2. CASE c # target \/ t # name
    BY <1>1, <1>2, <1>4, <2>2, WritesOne DEF FN
  <2> QED
    BY <2>1, <2>2
<1> QED
  BY <1>3, <1>4 DEF HasFile

(* A new file costs the ticket of the file it truncates, if any.            *)
LEMMA CreatingAddsOne ==
  ASSUME StoreInv, OnceInv, CreateFile
  PROVE  \E gone \in {{}} \cup {{n} : n \in KeptTickets(target)} :
           \A c \in Targets, n \in Nat :
             HasFile(c, n)' <=> IF c = target
                                  THEN (HasFile(c, n) /\ n \notin gone) \/ n = issued
                                  ELSE HasFile(c, n)
<1>0. [Next]_vars
  BY DEF Next, Step
<1>1. PICK f : Writes(f)
  BY CreateStep
<1>2. /\ name' = clock /\ name' \in Times /\ clock \in Times /\ target \in Targets
      /\ issued \in Nat
      /\ UNCHANGED <<target, clock, issued>>
  BY <1>1 DEF CreateFile, StoreInv, TypeOK, Writes
<1>3. FN(target, clock, issued)'
  BY <1>1, <1>2, WritesOne, StoredType DEF FN, Writes
<1> DEFINE old  == files[target][clock]
           gone == IF old = NoFile THEN {} ELSE {old.n}
<1>4. gone \in {{}} \cup {{n} : n \in KeptTickets(target)}
  BY <1>2 DEF KeptTickets, FileNames
<1>5. \A n \in Nat : n \in gone <=> FN(target, clock, n)
  BY DEF FN
<1> HIDE DEF gone, old
<1>6. ASSUME NEW c \in Targets, NEW t \in Times, NEW n \in Nat, FN(c, t, n)',
             ~(c = target /\ n = issued)
      PROVE  FN(c, t, n) /\ (c = target => t # clock)
  <2>1. FN(c, t, n)
    BY <1>0, <1>6, FilesNumbered
  <2>2. c = target /\ t = clock => n = issued
    BY <1>2, <1>3, <1>6 DEF FN
  <2> QED
    BY <1>6, <2>1, <2>2
<1>7. ASSUME NEW c \in Targets, NEW t \in Times, NEW n \in Nat, FN(c, t, n),
             c # target \/ t # clock
      PROVE  FN(c, t, n)'
  BY <1>1, <1>2, <1>7, WritesOne DEF FN
<1>8. ASSUME NEW c \in Targets, NEW n \in Nat
      PROVE  HasFile(c, n)' <=> IF c = target
                                  THEN (HasFile(c, n) /\ n \notin gone) \/ n = issued
                                  ELSE HasFile(c, n)
  <2>1. CASE c # target
    BY <1>6, <1>7, <2>1 DEF HasFile
  <2>2. CASE c = target
    <3>1. ASSUME HasFile(c, n)', n # issued PROVE HasFile(c, n) /\ n \notin gone
      <4>1. PICK t \in Times : FN(c, t, n)'
        BY <3>1 DEF HasFile
      <4>2. FN(c, t, n) /\ t # clock
        BY <1>6, <2>2, <3>1, <4>1
      <4>3. ~FN(target, clock, n)
        BY <1>2, <2>2, <4>2 DEF OnceInv, OneFile
      <4> QED
        BY <1>5, <4>2, <4>3 DEF HasFile
    <3>2. ASSUME HasFile(c, n), n \notin gone PROVE HasFile(c, n)'
      <4>1. PICK t \in Times : FN(c, t, n)
        BY <3>2 DEF HasFile
      <4>2. t # clock
        BY <1>5, <2>2, <3>2, <4>1
      <4> QED
        BY <1>7, <4>1, <4>2 DEF HasFile
    <3>3. HasFile(target, issued)'
      BY <1>2, <1>3 DEF HasFile
    <3> QED
      BY <1>2, <2>2, <3>1, <3>2, <3>3
  <2> QED
    BY <2>1, <2>2
<1> QED
  BY <1>4, <1>8

(* Reading and removing move a ticket from the file to the hands.           *)
LEMMA TakingKeeps ==
  ASSUME StoreInv, OnceInv, RemoveFile \/ \E t \in Times : ReadFile(t),
         NEW c \in Targets, NEW n \in Nat
  PROVE  HasFile(c, n)' \/ (c = target' /\ IsRead(n)')
           <=> HasFile(c, n) \/ (c = target /\ IsRead(n))
<1>0. [Next]_vars
  BY DEF Next, Step
<1>1. CASE RemoveFile
  <2>1. target' = target /\ messages' = messages /\ messages \in Seq(Stored)
    BY <1>1 DEF RemoveFile, StoreInv, TypeOK
  <2>2. IsRead(n)' <=> IsRead(n)
    BY <2>1, SameRead
  <2>3. ASSUME HasFile(c, n)' PROVE HasFile(c, n)
    <3>1. PICK t \in Times : FN(c, t, n)'
      BY <2>3 DEF HasFile
    <3>2. FN(c, t, n)
      BY <1>0, <1>1, <3>1, FilesNumbered DEF RemoveFile, CreateFile
    <3> QED
      BY <3>2 DEF HasFile
  <2>4. ASSUME HasFile(c, n) PROVE HasFile(c, n)' \/ (c = target /\ IsRead(n))
    <3>1. PICK t \in Times : FN(c, t, n)
      BY <2>4 DEF HasFile
    <3>2. CASE c = target /\ t = name
      <4>1. MN(Len(messages), n) /\ Len(messages) \in Nat
        BY <1>1, <2>1, <3>1, <3>2, RemoveStep DEF MN, FN
      <4> QED
        BY <3>2, <4>1 DEF IsRead
    <3>3. CASE c # target \/ t # name
      <4>1. FN(c, t, n)'
        BY <1>1, <3>1, <3>3, RemoveStep DEF FN
      <4> QED
        BY <4>1 DEF HasFile
    <3> QED
      BY <3>2, <3>3
  <2> QED
    BY <2>1, <2>2, <2>3, <2>4
<1>2. ASSUME NEW t \in Times, ReadFile(t)
      PROVE  HasFile(c, n)' \/ (c = target' /\ IsRead(n)')
               <=> HasFile(c, n) \/ (c = target /\ IsRead(n))
  <2>1. target' = target /\ files' = files
    BY <1>2, ReadAdds
  <2>2. HasFile(c, n)' <=> HasFile(c, n)
    BY <2>1, SameFiles
  <2>3. IsRead(n)' => IsRead(n) \/ HasFile(target, n)
    BY <1>2, ReadAdds DEF IsRead, HasFile
  <2>4. IsRead(n) => IsRead(n)'
    <3>1. messages \in Seq(Stored) /\ files[target][t] \in Stored
          /\ messages' = Append(messages, files[target][t])
      BY <1>2 DEF ReadFile, Least, StoreInv, CallInv, Calling, TypeOK
    <3>2. \A i \in Nat : MN(i, n) => MN(i, n)'
      BY <3>1, SeqAppend DEF MN
    <3> QED
      BY <3>2 DEF IsRead
  <2> QED
    BY <2>1, <2>2, <2>3, <2>4
<1> QED
  BY <1>1, <1>2

LEMMA KeptStays ==
  ASSUME StoreInv, StoreInv',
         \A c \in Targets, n \in Nat :
           HasFile(c, n)' \/ (c = target' /\ IsRead(n)')
             <=> HasFile(c, n) \/ (c = target /\ IsRead(n))
  PROVE  KeptBar' = KeptBar
<1>1. KeptBar' = [c \in Targets |->
                    {n \in Nat : HasFile(c, n)' \/ (c = target' /\ IsRead(n)')}]
  BY KeptBarBecomes
<1>2. \A c \in Targets :
        {n \in Nat : HasFile(c, n)' \/ (c = target' /\ IsRead(n)')}
          = {n \in Nat : HasFile(c, n) \/ (c = target /\ IsRead(n))}
  OBVIOUS
<1> QED
  BY <1>1, <1>2, KeptBarIs

LEMMA NumbersType ==
  ASSUME NEW q \in Seq(Stored)
  PROVE  /\ Numbers(q) \in Seq(Nat)
         /\ Len(Numbers(q)) = Len(q)
         /\ \A i \in 1 .. Len(q) : Numbers(q)[i] = q[i].n
<1>1. Len(q) \in Nat /\ DOMAIN q = 1 .. Len(q) /\ \A i \in 1 .. Len(q) : q[i] \in Stored
  BY LenProperties, ElementOfSeq
<1>2. \A i \in 1 .. Len(q) : q[i].n \in Nat
  BY <1>1, StoredType
<1>3. Numbers(q) = [i \in 1 .. Len(q) |-> q[i].n]
  BY <1>1 DEF Numbers
<1>4. Numbers(q) \in Seq(Nat)
  BY <1>1, <1>2, <1>3, IsASeq
<1>5. Len(Numbers(q)) = Len(q)
  BY <1>1, <1>3, <1>4, LenProperties
<1> QED
  BY <1>3, <1>4, <1>5

LEMMA NumbersConcat ==
  ASSUME NEW q \in Seq(Stored), NEW r \in Seq(Stored)
  PROVE  Numbers(q \o r) = Numbers(q) \o Numbers(r)
<1>1. /\ q \o r \in Seq(Stored) /\ Len(q \o r) = Len(q) + Len(r)
      /\ Len(q) \in Nat /\ Len(r) \in Nat
  BY ConcatProperties, LenProperties
<1>2. /\ Numbers(q) \in Seq(Nat) /\ Len(Numbers(q)) = Len(q)
      /\ Numbers(r) \in Seq(Nat) /\ Len(Numbers(r)) = Len(r)
      /\ Numbers(q \o r) \in Seq(Nat)
      /\ Len(Numbers(q \o r)) = Len(q) + Len(r)
  BY <1>1, NumbersType
<1>3. /\ Numbers(q) \o Numbers(r) \in Seq(Nat)
      /\ Len(Numbers(q) \o Numbers(r)) = Len(q) + Len(r)
  BY <1>2, ConcatProperties
<1>4. ASSUME NEW i \in 1 .. Len(q) + Len(r)
      PROVE  Numbers(q \o r)[i] = (Numbers(q) \o Numbers(r))[i]
  <2>1. Numbers(q \o r)[i] = (q \o r)[i].n
    BY <1>1, NumbersType
  <2>2. CASE i <= Len(q)
    <3>1. i \in 1 .. Len(q)
      BY <1>1, <2>2
    <3>2. (q \o r)[i] = q[i] /\ Numbers(q)[i] = q[i].n
      BY <1>1, <2>2, <3>1, ConcatProperties, NumbersType
    <3>3. (Numbers(q) \o Numbers(r))[i] = Numbers(q)[i]
      BY <1>1, <1>2, <2>2, ConcatProperties
    <3> QED
      BY <2>1, <3>2, <3>3
  <2>3. CASE ~(i <= Len(q))
    <3>1. i - Len(q) \in 1 .. Len(r)
      BY <1>1, <2>3
    <3>2. (q \o r)[i] = r[i - Len(q)] /\ Numbers(r)[i - Len(q)] = r[i - Len(q)].n
      BY <1>1, <2>3, <3>1, ConcatProperties, NumbersType
    <3>3. (Numbers(q) \o Numbers(r))[i] = Numbers(r)[i - Len(q)]
      BY <1>1, <1>2, <2>3, ConcatProperties
    <3> QED
      BY <2>1, <3>2, <3>3
  <2> QED
    BY <2>2, <2>3
<1> QED
  BY <1>2, <1>3, <1>4, SeqEqual

(* What is handed over lists its tickets, the oldest first.                 *)
LEMMA HandsOverOldestFirst ==
  ASSUME StoreInv, OrderInv
  PROVE  Numbers(messages) \in Queue!OldestFirst(TicketsIn(messages))
<1> DEFINE x == Numbers(messages)
           n == Len(messages)
           out == TicketsIn(messages)
<1>1. /\ messages \in Seq(Stored) /\ n \in Nat /\ DOMAIN messages = 1 .. n
      /\ x \in Seq(Nat) /\ Len(x) = n /\ DOMAIN x = 1 .. n
      /\ \A i \in 1 .. n : x[i] = messages[i].n /\ x[i] \in Nat
  <2>1. messages \in Seq(Stored) /\ n \in Nat /\ DOMAIN messages = 1 .. n
    BY LenProperties DEF StoreInv, TypeOK
  <2>2. x \in Seq(Nat) /\ Len(x) = n /\ \A i \in 1 .. n : x[i] = messages[i].n
    BY <2>1, NumbersType
  <2>3. DOMAIN x = 1 .. n /\ \A i \in 1 .. n : x[i] \in Nat
    BY <2>2, LenProperties, ElementOfSeq
  <2> QED
    BY <2>1, <2>2, <2>3
<1>2. out = {x[i] : i \in 1 .. n}
  BY <1>1 DEF TicketsIn
<1> HIDE DEF x, out
<1>3. ASSUME NEW i \in 1 .. n, NEW j \in 1 .. n, i < j PROVE x[i] < x[j]
  <2>1. MN(i, x[i]) /\ MN(j, x[j])
    BY <1>1 DEF MN
  <2>2. i \in Nat /\ j \in Nat /\ x[i] \in Nat /\ x[j] \in Nat
    BY <1>1
  <2> QED
    BY <1>3, <2>1, <2>2 DEF OrderInv, ReadByAge
<1>4. Cardinality(out) = n
  <2>1. x \in [1 .. n -> out] /\ \A k \in out : \E i \in 1 .. n : x[i] = k
    BY <1>1, <1>2
  <2>2. ASSUME NEW i \in 1 .. n, NEW j \in 1 .. n, x[i] = x[j] PROVE i = j
    <3>1. CASE i < j
      BY <1>1, <1>3, <2>2, <3>1
    <3>2. CASE j < i
      BY <1>1, <1>3, <2>2, <3>2
    <3> QED
      BY <1>1, <3>1, <3>2
  <2>3. x \in Bijection(1 .. n, out)
    BY <2>1, <2>2 DEF Bijection, Injection, Surjection, IsInjective
  <2>4. ExistsBijection(1 .. n, out)
    BY <2>3 DEF ExistsBijection
  <2> HIDE DEF n
  <2>5. IsFiniteSet(1 .. n) /\ Cardinality(1 .. n) = n
    BY <1>1, FS_Interval
  <2> QED
    BY <2>4, <2>5, FS_Bijection
<1>5. x \in [1 .. Cardinality(out) -> out] /\ DOMAIN x = 1 .. n
  <2>1. x \in [1 .. n -> out] /\ DOMAIN x = 1 .. n
    BY <1>1, <1>2
  <2> QED
    BY <1>4, <2>1
<1>6. x \in Queue!OldestFirst(out)
  BY <1>3, <1>5, QueueCounts DEF Queue!OldestFirst
<1> QED
  BY <1>6 DEF x, out

(* A call returns: what it has read is handed over, and the one message     *)
(* that still has its file stays.                                           *)
LEMMA ReturnHandsOver ==
  ASSUME StoreInv, StoreInv', OnceInv, OrderInv, Return
  PROVE  \E o \in Targets : Queue!HandOver(o)
<1> DEFINE out == TicketsIn(messages)
           stays == {n \in out : HasFile(target, n)}
<1>1. /\ target \in Targets /\ messages \in Seq(Stored)
      /\ handed \in [Targets -> Seq(Stored)]
      /\ files' = files /\ messages' = <<>>
      /\ handed' = [handed EXCEPT ![target] = @ \o messages]
      /\ UNCHANGED <<issued, torn>>
  BY DEF Return, storeVars, StoreInv, CallInv, Calling, TypeOK
<1>2. KeptBar[target] = {n \in Nat : HasFile(target, n) \/ IsRead(n)}
  BY <1>1, KeptBarIs
<1>3. out = {n \in Nat : IsRead(n)}
  BY TicketsRead
<1>4. stays \in {{}} \cup {{n} : n \in out}
  <2>1. ASSUME NEW n \in stays, NEW m \in stays PROVE n = m
    <3>1. /\ n \in Nat /\ HasFile(target, n) /\ IsRead(n)
          /\ m \in Nat /\ HasFile(target, m) /\ IsRead(m)
      BY <1>3
    <3>2. PICK i \in Nat, t \in Times : MN(i, n) /\ FN(target, t, n)
      BY <3>1 DEF HasFile, IsRead
    <3>3. PICK j \in Nat, u \in Times : MN(j, m) /\ FN(target, u, m)
      BY <3>1 DEF HasFile, IsRead
    <3>4. pc = "return"
      BY <1>1, <3>1, <3>2 DEF Return, OnceInv, ReadOrFiled
    <3>5. i = Len(messages) /\ j = Len(messages)
      BY <3>1, <3>2, <3>3, <3>4 DEF OrderInv, ReadBeforeFiled
    <3> QED
      BY <3>2, <3>3, <3>5 DEF MN
  <2>2. CASE stays = {}
    BY <2>2
  <2>3. CASE stays # {}
    <3>1. PICK n \in stays : TRUE
      BY <2>3
    <3>2. n \in out /\ stays = {n}
      BY <2>1, <3>1
    <3> HIDE DEF stays, out
    <3> QED
      BY <3>2
  <2> QED
    BY <2>2, <2>3
<1>5. KeptBar' = [KeptBar EXCEPT ![target] = (@ \ out) \cup stays]
  <2>1. \A c \in Targets, n \in Nat :
          /\ HasFile(c, n)' <=> HasFile(c, n)
          /\ ~IsRead(n)'
    BY <1>1, SameFiles, NothingRead
  <2>2. KeptBar' = [c \in Targets |-> {n \in Nat : HasFile(c, n)}]
    <3>1. KeptBar' = [c \in Targets |->
                       {n \in Nat : HasFile(c, n)' \/ (c = target' /\ IsRead(n)')}]
      BY KeptBarBecomes
    <3>2. \A c \in Targets :
            {n \in Nat : HasFile(c, n)' \/ (c = target' /\ IsRead(n)')}
              = {n \in Nat : HasFile(c, n)}
      BY <2>1
    <3> QED
      BY <3>1, <3>2
  <2>3. (KeptBar[target] \ out) \cup stays = {n \in Nat : HasFile(target, n)}
    BY <1>2, <1>3
  <2>4. \A c \in Targets \ {target} : KeptBar[c] = {n \in Nat : HasFile(c, n)}
    BY KeptBarIs
  <2>5. KeptBar = [c \in Targets |-> KeptBar[c]]
    BY DEF KeptBar
  <2> HIDE DEF out, stays
  <2> DEFINE new == (KeptBar[target] \ out) \cup stays
  <2>6. [KeptBar EXCEPT ![target] = new]
          = [c \in Targets |-> IF c = target THEN new ELSE KeptBar[c]]
    BY <1>1, <2>5
  <2>7. \A c \in Targets : (IF c = target THEN new ELSE KeptBar[c]) = {n \in Nat : HasFile(c, n)}
    BY <2>3, <2>4
  <2> HIDE DEF new
  <2>8. KeptBar' = [KeptBar EXCEPT ![target] = new]
    BY <2>2, <2>6, <2>7
  <2> QED
    BY <2>8 DEF new
<1>6. HandedBar' = [HandedBar EXCEPT ![target] = @ \o Numbers(messages)]
  <2>1. HandedBar' = [c \in Targets |-> Numbers(handed'[c])]
    BY DEF HandedBar
  <2>2. Numbers(handed'[target]) = Numbers(handed[target]) \o Numbers(messages)
    BY <1>1, NumbersConcat
  <2>3. \A c \in Targets \ {target} : handed'[c] = handed[c]
    BY <1>1
  <2> QED
    BY <1>1, <2>1, <2>2, <2>3 DEF HandedBar
<1>7. out \in SUBSET KeptBar[target]
  BY <1>2, <1>3
<1>8. Numbers(messages) \in Queue!OldestFirst(out)
  BY HandsOverOldestFirst
<1> HIDE DEF out, stays
<1>9. PICK o \in Targets : o = target
  BY <1>1
<1>10. \E x \in SUBSET KeptBar[o] : \E s \in {{}} \cup {{n} : n \in x} :
         /\ \E q \in Queue!OldestFirst(x) : HandedBar' = [HandedBar EXCEPT ![o] = @ \o q]
         /\ KeptBar' = [KeptBar EXCEPT ![o] = (@ \ x) \cup s]
  BY <1>4, <1>5, <1>6, <1>7, <1>8, <1>9
<1>11. Queue!HandOver(o)
  BY <1>1, <1>10 DEF Queue!HandOver, KeptBar, HandedBar
<1> QED
  BY <1>11

(* A crash leaves what has a file; what was only read is lost, and the      *)
(* message that was being written may be torn.                              *)
LEMMA CrashLosesOrTears ==
  ASSUME StoreInv, StoreInv', OnceInv, Crash
  PROVE  \/ UNCHANGED QueueBar
         \/ Queue!Tear
         \/ \E c \in Targets : Queue!Lose(c)
<1>1. files' = files /\ messages' = <<>> /\ UNCHANGED <<issued, handed>>
  BY DEF Crash
<1>2. HandedBar' = HandedBar
  BY <1>1 DEF HandedBar
<1>3. \A c \in Targets, n \in Nat : (HasFile(c, n)' <=> HasFile(c, n)) /\ ~IsRead(n)'
  BY <1>1, SameFiles, NothingRead
<1>4. CASE pc \notin Fetching
  <2>1. \A n \in Nat : ~IsRead(n)
    BY <1>4, NothingRead DEF StoreInv, CallInv
  <2>2. KeptBar' = KeptBar
    BY <1>3, <2>1, KeptStays
  <2>3. CASE torn' = torn
    BY <1>1, <1>2, <2>2, <2>3 DEF QueueBar
  <2>4. CASE torn' # torn
    <3>1. pc \in {"write", "close"} /\ torn' = torn \cup {issued}
      BY <2>4 DEF Crash
    <3>2. target \in Targets /\ issued \in Nat /\ FN(target, name, issued) /\ name \in Times
      BY <3>1 DEF StoreInv, CallInv, Calling, TypeOK, FN
    <3>3. issued \in KeptBar[target]
      BY <3>2, KeptBarIs DEF HasFile
    <3>4. \E c \in Targets : issued \in KeptBar[c]
      BY <3>2, <3>3
    <3> QED
      BY <1>1, <1>2, <2>2, <3>1, <3>4 DEF Queue!Tear, KeptBar, HandedBar
  <2> QED
    BY <2>3, <2>4
<1>5. CASE pc \in Fetching
  <2>1. target \in Targets /\ torn' = torn
    BY <1>5 DEF Crash, StoreInv, CallInv, Calling, Fetching
  <2> DEFINE rest == {n \in Nat : HasFile(target, n)}
  <2>2. rest \in SUBSET KeptBar[target]
    BY <2>1, KeptBarIs
  <2>3. KeptBar' = [KeptBar EXCEPT ![target] = rest]
    <3>1. KeptBar' = [c \in Targets |->
                       {n \in Nat : HasFile(c, n)' \/ (c = target' /\ IsRead(n)')}]
      BY KeptBarBecomes
    <3>2. \A c \in Targets :
            {n \in Nat : HasFile(c, n)' \/ (c = target' /\ IsRead(n)')}
              = {n \in Nat : HasFile(c, n)}
      BY <1>3
    <3>3. \A c \in Targets \ {target} : KeptBar[c] = {n \in Nat : HasFile(c, n)}
      BY KeptBarIs
    <3>4. [KeptBar EXCEPT ![target] = rest]
            = [c \in Targets |-> IF c = target THEN rest ELSE KeptBar[c]]
      BY <2>1 DEF KeptBar
    <3>5. \A c \in Targets : (IF c = target THEN rest ELSE KeptBar[c])
                               = {n \in Nat : HasFile(c, n)}
      BY <3>3
    <3> HIDE DEF rest
    <3> QED
      BY <3>1, <3>2, <3>4, <3>5
  <2> HIDE DEF rest
  <2>4. PICK c \in Targets : c = target
    BY <2>1
  <2>5. \E r \in SUBSET KeptBar[c] : KeptBar' = [KeptBar EXCEPT ![c] = r]
    BY <2>2, <2>3, <2>4
  <2>6. Queue!Lose(c)
    BY <1>1, <1>2, <2>1, <2>5 DEF Queue!Lose, KeptBar, HandedBar
  <2> QED
    BY <2>6
<1> QED
  BY <1>4, <1>5

LEMMA CreatingKeepsNewest ==
  ASSUME StoreInv, StoreInv', OnceInv, CreateFile
  PROVE  \E o \in Targets : Queue!KeepNewest(o)
<1>0. /\ target \in Targets /\ issued \in Nat /\ messages = <<>> /\ pc = "create"
      /\ UNCHANGED <<issued, torn, handed, target, messages>>
  BY DEF CreateFile, StoreInv, CallInv, Calling, Fetching, TypeOK
<1>1. HandedBar' = HandedBar
  BY <1>0 DEF HandedBar
<1>2. \A n \in Nat : ~IsRead(n) /\ ~IsRead(n)'
  BY <1>0, NothingRead
<1>3. \A c \in Targets : KeptBar[c] = {n \in Nat : HasFile(c, n)}
  BY <1>2, KeptBarIs
<1>4. KeptBar' = [c \in Targets |-> {n \in Nat : HasFile(c, n)'}]
  <2>1. KeptBar' = [c \in Targets |->
                     {n \in Nat : HasFile(c, n)' \/ (c = target' /\ IsRead(n)')}]
    BY KeptBarBecomes
  <2>2. \A c \in Targets :
          {n \in Nat : HasFile(c, n)' \/ (c = target' /\ IsRead(n)')}
            = {n \in Nat : HasFile(c, n)'}
    BY <1>2
  <2> QED
    BY <2>1, <2>2
<1>5. PICK gone \in {{}} \cup {{n} : n \in KeptTickets(target)} :
        \A c \in Targets, n \in Nat :
          HasFile(c, n)' <=> IF c = target
                               THEN (HasFile(c, n) /\ n \notin gone) \/ n = issued
                               ELSE HasFile(c, n)
  BY CreatingAddsOne
<1>6. gone \in {{}} \cup {{n} : n \in KeptBar[target]}
  BY <1>0, <1>3, <1>5, TicketsKept
<1>7. KeptBar' = [KeptBar EXCEPT ![target] = (@ \ gone) \cup {issued}]
  <2> DEFINE new == (KeptBar[target] \ gone) \cup {issued}
  <2>1. [KeptBar EXCEPT ![target] = new]
          = [c \in Targets |-> IF c = target THEN new ELSE KeptBar[c]]
    BY <1>0 DEF KeptBar
  <2>2. new = {n \in Nat : HasFile(target, n)'}
    <3>1. \A n \in Nat : HasFile(target, n)' <=>
            (HasFile(target, n) /\ n \notin gone) \/ n = issued
      BY <1>0, <1>5
    <3> QED
      BY <1>0, <1>3, <3>1
  <2>3. \A c \in Targets \ {target} : KeptBar[c] = {n \in Nat : HasFile(c, n)'}
    BY <1>3, <1>5
  <2> HIDE DEF new
  <2>4. \A c \in Targets : (IF c = target THEN new ELSE KeptBar[c]) = {n \in Nat : HasFile(c, n)'}
    BY <1>0, <2>2, <2>3
  <2>5. KeptBar' = [KeptBar EXCEPT ![target] = new]
    BY <1>4, <2>1, <2>4
  <2> QED
    BY <2>5 DEF new
<1>8. \A n \in Nat : Known(n) => n < issued
  BY NewIsYounger
<1>9. \A p \in Targets : \A n \in KeptBar[p] : n < issued
  BY <1>3, <1>8 DEF HasFile, OnceInv, AllKnown
<1>10. \A p \in Targets : \A i \in DOMAIN HandedBar[p] : HandedBar[p][i] < issued
  <2> SUFFICES ASSUME NEW p \in Targets, NEW i \in DOMAIN Numbers(handed[p])
               PROVE  Numbers(handed[p])[i] < issued
    BY DEF HandedBar
  <2>1. /\ handed[p] \in Seq(Stored) /\ DOMAIN Numbers(handed[p]) = DOMAIN handed[p]
        /\ Numbers(handed[p])[i] = handed[p][i].n
    BY DEF Numbers, StoreInv, TypeOK
  <2>2. i \in 1 .. Len(handed[p]) /\ i \in Nat /\ handed[p][i] \in Stored
    BY <2>1
  <2>3. HN(p, i, handed[p][i].n) /\ handed[p][i].n \in Nat
    BY <2>2, StoredType DEF HN
  <2> QED
    BY <1>8, <2>1, <2>2, <2>3 DEF OnceInv, AllKnown
<1>11. PICK o \in Targets : o = target
  BY <1>0
<1>12. \E g \in {{}} \cup {{n} : n \in KeptBar[o]} :
         KeptBar' = [KeptBar EXCEPT ![o] = (@ \ g) \cup {issued}]
  BY <1>6, <1>7, <1>11
<1>13. Queue!KeepNewest(o)
  BY <1>0, <1>1, <1>9, <1>10, <1>12 DEF Queue!KeepNewest, KeptBar, HandedBar
<1> QED
  BY <1>13

LEMMA ClosingMayTear ==
  ASSUME StoreInv, StoreInv', OnceInv, WriteFile \/ CloseFile
  PROVE  UNCHANGED QueueBar \/ Queue!Tear
<1>1. /\ messages = <<>> /\ messages' = <<>> /\ UNCHANGED <<issued, handed>>
      /\ torn' = torn \/ torn' = torn \cup {issued}
      /\ pc \in {"write", "close"}
  BY DEF WriteFile, CloseFile, callVars, fateVars, StoreInv, CallInv, Fetching
<1>2. KeptBar' = KeptBar
  <2>1. \A n \in Nat : ~IsRead(n) /\ ~IsRead(n)'
    BY <1>1, NothingRead
  <2>2. \A c \in Targets, n \in Nat : HasFile(c, n)' <=> HasFile(c, n)
    BY WritingKeepsFiles
  <2> QED
    BY <2>1, <2>2, KeptStays
<1>3. HandedBar' = HandedBar
  BY <1>1 DEF HandedBar
<1>4. \E c \in Targets : issued \in KeptBar[c]
  <2>1. target \in Targets /\ issued \in Nat /\ FN(target, name, issued) /\ name \in Times
    BY <1>1 DEF StoreInv, CallInv, Calling, TypeOK, FN
  <2>2. issued \in KeptBar[target]
    BY <2>1, KeptBarIs DEF HasFile
  <2> QED
    BY <2>1, <2>2
<1>5. CASE torn' = torn
  BY <1>1, <1>2, <1>3, <1>5 DEF QueueBar
<1>6. CASE torn' = torn \cup {issued}
  BY <1>1, <1>2, <1>3, <1>4, <1>6 DEF Queue!Tear, KeptBar, HandedBar
<1> QED
  BY <1>1, <1>5, <1>6

LEMMA QueueStep ==
  ASSUME StoreInv, OnceInv, OrderInv, [Next]_vars
  PROVE  Queue!QNext \/ UNCHANGED QueueBar
<1>0. StoreInv'
  BY StoreStep
<1>1. CASE CreateFile
  BY <1>0, <1>1, CreatingKeepsNewest DEF Queue!QNext
<1>2. CASE WriteFile \/ CloseFile
  BY <1>0, <1>2, ClosingMayTear DEF Queue!QNext
<1>3. CASE Return
  BY <1>0, <1>3, ReturnHandsOver DEF Queue!QNext
<1>4. CASE Crash
  BY <1>0, <1>4, CrashLosesOrTears DEF Queue!QNext
<1>5. CASE RemoveFile \/ \E t \in Times : ReadFile(t)
  <2>1. KeptBar' = KeptBar
    BY <1>0, <1>5, TakingKeeps, KeptStays
  <2>2. UNCHANGED <<issued, torn, handed>>
    BY <1>5 DEF RemoveFile, ReadFile, fateVars
  <2> QED
    BY <2>1, <2>2 DEF QueueBar, HandedBar
<1>6. ASSUME \/ InitStore \/ MakeDirectory \/ ListDirectory \/ Tick
             \/ \E c \in Targets : CallStore(c) \/ CallFetch(c)
             \/ \E t \in Times : SkipFile(t)
             \/ pc \in {"mkdir", "create"} /\ \E op : StoreFails(op)
             \/ UNCHANGED vars
      PROVE  Queue!QNext \/ UNCHANGED QueueBar
  <2>1. /\ UNCHANGED <<files, messages, torn, handed>>
        /\ target' = target \/ messages = <<>>
        /\ issued' = issued \/ issued' = issued + 1
    BY <1>6 DEF InitStore, MakeDirectory, ListDirectory, Tick, CallStore, CallFetch,
       SkipFile, StoreFails, vars, callVars, storeVars, fateVars, StoreInv, CallInv,
       Fetching
  <2>2. KeptBar' = KeptBar
    <3>1. ASSUME NEW c \in Targets, NEW n \in Nat
          PROVE  HasFile(c, n)' \/ (c = target' /\ IsRead(n)')
                   <=> HasFile(c, n) \/ (c = target /\ IsRead(n))
      BY <2>1, SameFiles, SameRead, NothingRead
    <3> QED
      BY <1>0, <3>1, KeptStays
  <2>3. HandedBar' = HandedBar
    BY <2>1 DEF HandedBar
  <2>4. CASE issued' = issued
    BY <2>1, <2>2, <2>3, <2>4 DEF QueueBar
  <2>5. CASE issued' = issued + 1
    BY <2>1, <2>2, <2>3, <2>5 DEF Queue!QNext, Queue!Ask, KeptBar, HandedBar
  <2> QED
    BY <2>1, <2>4, <2>5
<1> QED
  BY <1>1, <1>2, <1>3, <1>4, <1>5, <1>6, Steps DEF Others

LEMMA QueueInit ==
  ASSUME Init PROVE Queue!QInit
<1>1. KeptBar = [c \in Targets |-> {}]
  <2>1. \A c \in Targets : KeptTickets(c) = {}
    BY DEF Init, KeptTickets, FileNames, EmptyDir
  <2>2. TicketsIn(messages) = {}
    BY DEF Init, TicketsIn
  <2> QED
    BY <2>1, <2>2 DEF KeptBar
<1>2. HandedBar = [c \in Targets |-> <<>>]
  BY DEF Init, HandedBar, Numbers
<1> QED
  BY <1>1, <1>2 DEF Init, Queue!QInit, KeptBar, HandedBar

(* While the clock is not set back, the store with its steps, failures and  *)
(* crashes is a queue of numbered messages per target whose operations take *)
(* effect at once.                                                          *)
THEOREM StoreIsAQueue ==
  ASSUME ~ClockMaySlip
  PROVE  Spec => RefinesQueue
<1>1. Init => StoreInv /\ OnceInv /\ OrderInv /\ Queue!QInit
  BY StoreInit, OnceInit, OrderInit, QueueInit
<1>2. StoreInv /\ OnceInv /\ OrderInv /\ [Next]_vars => (StoreInv /\ OnceInv /\ OrderInv)'
  BY StoreStep, OnceStep, OrderStep
<1>3. StoreInv /\ OnceInv /\ OrderInv /\ [Next]_vars => [Queue!QNext]_(Queue!queueVars)
  BY QueueStep DEF Queue!queueVars, QueueBar, KeptBar, HandedBar
<1> QED
  BY <1>1, <1>2, <1>3, PTL DEF Spec, RefinesQueue, Queue!QueueSpec
=============================================================================
