------------------------ MODULE CredentialStoreProofs ------------------------
(***************************************************************************)
(* For every number of processes, credentials and inodes, and every        *)
(* pattern of keyring failures, file failures and crashes:                 *)
(*   - CredentialStore is type correct;                                    *)
(*   - with one writing process the fallback file is never partial;        *)
(*   - with one writing process, what a clear disposed of does not come    *)
(*     back;                                                               *)
(*   - with a keyring whose sets all succeed, or all fail, there is one    *)
(*     source of truth;                                                    *)
(*   - with a keyring that always answers, or with none and one writing    *)
(*     process, it implements CredentialRegister, whose clears miss        *)
(*     nothing unless exists() can fail.                                   *)
(***************************************************************************)
EXTENDS CredentialStore, TLAPS

-----------------------------------------------------------------------------
(* What a save in progress has in hand, whatever other processes do.       *)

CallHolds ==
  /\ \A p \in Proc : Saving(p) => p \in Writers /\ cred[p] \in Cred
  /\ \A p \in Proc : pc[p] = "write_tmp" => fd[p] \in Inode
  /\ \A p \in Proc : fd[p] # "nofile" => pc[p] = "write_tmp"

CallInv == TypeOK /\ CallHolds

(* With one writer the temporary file is the writer's own until renamed.   *)

FileHolds ==
  /\ \A p \in Proc : pc[p] = "write_tmp" => tmp = fd[p] /\ content[tmp] = "empty"
  /\ \A p \in Proc : pc[p] = "rename_tmp" => tmp \in Inode /\ content[tmp] = cred[p]
  /\ tmp # "nofile" => tmp # live

FileInv == CallInv /\ FileHolds /\ LiveFileWhole

(* What a clear in progress can no longer leave behind.                    *)

ClearHolds ==
  /\ \A p \in Proc : Saving(p) => cred[p] \notin wiped
  /\ \A p, q \in Proc : Saving(p) /\ Clearing(q) => cred[p] \in spare[q]
  /\ \A q \in Proc : pc[q] \in {"file_exists", "remove_file"} =>
       keyring = "absent" \/ keyring \in spare[q]

WipeInv == FileInv /\ ClearHolds /\ NoResurrection

-----------------------------------------------------------------------------
(* Type correctness.                                                       *)

LEMMA CallInit == Init => CallInv
  BY StoreAssumption DEF Init, CallInv, CallHolds, TypeOK, Saving, SavePc

LEMMA CallStep == CallInv /\ [Next]_vars => CallInv'
<1> SUFFICES ASSUME CallInv, [Next]_vars PROVE CallInv'
  OBVIOUS
<1> USE StoreAssumption
    DEF CallInv, CallHolds, TypeOK, Saving, SavePc, LoadPc, ClearPc, Goto, Finish,
        places, ghosts
<1>1. ASSUME NEW p \in Proc, Step(p) PROVE CallInv'
  <2>1. CASE LoadCall(p)
    BY <2>1 DEF LoadCall
  <2>2. CASE KeyringGet(p)
    BY <2>2 DEF KeyringGet
  <2>3. CASE ReadFile(p)
    BY <2>3 DEF ReadFile, FileValue
  <2>4. ASSUME p \in Writers, NEW c \in Cred, SaveCall(p, c) PROVE CallInv'
    BY <2>4 DEF SaveCall, Clearing
  <2>5. CASE KeyringSet(p)
    BY <2>5 DEF KeyringSet
  <2>6. CASE RemoveStale(p)
    BY <2>6 DEF RemoveStale
  <2>7. CASE OpenTmp(p)
    BY <2>7 DEF OpenTmp, SaveFails
  <2>8. CASE WriteTmp(p)
    BY <2>8 DEF WriteTmp, SaveFails
  <2>9. CASE RenameTmp(p)
    BY <2>9 DEF RenameTmp, SaveFails
  <2>10. CASE ClearCall(p)
    BY <2>10 DEF ClearCall
  <2>11. CASE KeyringDelete(p)
    BY <2>11 DEF KeyringDelete
  <2>12. CASE FileExists(p)
    BY <2>12 DEF FileExists, ClearReturns
  <2>13. CASE RemoveFile(p)
    BY <2>13 DEF RemoveFile, ClearReturns
  <2>14. CASE Return(p)
    BY <2>14 DEF Return
  <2>15. CASE Crash(p)
    BY <2>15 DEF Crash
  <2> QED
    BY <1>1, <2>1, <2>2, <2>3, <2>4, <2>5, <2>6, <2>7, <2>8, <2>9, <2>10, <2>11,
       <2>12, <2>13, <2>14, <2>15 DEF Step
<1>2. CASE UNCHANGED vars
  BY <1>2 DEF vars, local
<1> QED
  BY <1>1, <1>2 DEF Next

\* Every variable of the store keeps its type, and so load returns a whole
\* credential, nothing or an error: read_raw's text never escapes unparsed.
THEOREM TypeCorrect == Spec => []TypeOK
<1>1. CallInv => TypeOK
  BY DEF CallInv
<1> QED
  BY CallInit, CallStep, <1>1, PTL DEF Spec

-----------------------------------------------------------------------------
(* One writer: the fallback file is replaced as a whole or not at all.     *)

LEMMA FileStep ==
  ASSUME SingleWriter, FileInv, [Next]_vars PROVE FileInv'
<1> USE StoreAssumption DEF FileInv
<1>0. CallInv'
  BY CallStep
<1>1. ASSUME NEW p \in Proc, Step(p) PROVE (FileHolds /\ LiveFileWhole)'
  <2> USE DEF CallInv, CallHolds, FileHolds, LiveFileWhole, SingleWriter, TypeOK,
              Saving, SavePc, LoadPc, ClearPc, Goto, Finish, places, ghosts
  <2>1. CASE LoadCall(p)
    BY <2>1 DEF LoadCall
  <2>2. CASE KeyringGet(p)
    BY <2>2 DEF KeyringGet
  <2>3. CASE ReadFile(p)
    BY <2>3 DEF ReadFile
  <2>4. ASSUME p \in Writers, NEW c \in Cred, SaveCall(p, c) PROVE (FileHolds /\ LiveFileWhole)'
    BY <2>4 DEF SaveCall
  <2>5. CASE KeyringSet(p)
    BY <2>5 DEF KeyringSet
  <2>6. CASE RemoveStale(p)
    BY <2>6 DEF RemoveStale
  <2>7. CASE OpenTmp(p)
    <3>1. \A q \in Proc : q # p => pc'[q] \notin {"write_tmp", "rename_tmp"}
      BY <2>7 DEF OpenTmp, SaveFails
    <3>2. CASE pc'[p] = "write_tmp"
      <4>1. PICK i \in Inode :
              /\ IF tmp = "nofile" THEN FreeInode(i) ELSE i = tmp
              /\ tmp' = i
              /\ content' = [content EXCEPT ![i] = "empty"]
              /\ fd' = [fd EXCEPT ![p] = i]
        BY <2>7, <3>2 DEF OpenTmp, SaveFails
      <4>2. i # live /\ live' = live
        BY <4>1, <2>7 DEF FreeInode, OpenTmp
      <4> QED
        BY <3>1, <3>2, <4>1, <4>2
    <3>3. CASE pc'[p] # "write_tmp"
      BY <2>7, <3>1, <3>3 DEF OpenTmp, SaveFails
    <3> QED
      BY <3>2, <3>3
  <2>8. CASE WriteTmp(p)
    BY <2>8 DEF WriteTmp, SaveFails
  <2>9. CASE RenameTmp(p)
    BY <2>9 DEF RenameTmp, SaveFails
  <2>10. CASE ClearCall(p)
    BY <2>10 DEF ClearCall
  <2>11. CASE KeyringDelete(p)
    BY <2>11 DEF KeyringDelete
  <2>12. CASE FileExists(p)
    BY <2>12 DEF FileExists, ClearReturns
  <2>13. CASE RemoveFile(p)
    BY <2>13 DEF RemoveFile, ClearReturns
  <2>14. CASE Return(p)
    BY <2>14 DEF Return
  <2>15. CASE Crash(p)
    BY <2>15 DEF Crash
  <2> QED
    BY <1>1, <2>1, <2>2, <2>3, <2>4, <2>5, <2>6, <2>7, <2>8, <2>9, <2>10, <2>11,
       <2>12, <2>13, <2>14, <2>15 DEF Step
<1>2. ASSUME UNCHANGED vars PROVE (FileHolds /\ LiveFileWhole)'
  BY <1>2 DEF vars, local, places, FileHolds, LiveFileWhole
<1> QED
  BY <1>0, <1>1, <1>2 DEF Next

\* Whatever fails and whoever crashes, a reader of the fallback file never
\* meets part of a credential, provided a single process saves
\* (write_secret_file's temporary file and rename).
THEOREM FileIsWhole ==
  ASSUME SingleWriter PROVE Spec => []LiveFileWhole
<1>1. Init => FileInv
  BY CallInit DEF Init, FileInv, FileHolds, LiveFileWhole
<1>2. FileInv /\ [Next]_vars => FileInv'
  BY FileStep
<1>3. FileInv => LiveFileWhole
  BY DEF FileInv
<1> QED
  BY <1>1, <1>2, <1>3, PTL DEF Spec

-----------------------------------------------------------------------------
(* One writer: what a clear disposed of is gone.                           *)

LEMMA WipeStep ==
  ASSUME SingleWriter, WipeInv, [Next]_vars
  PROVE  WipeInv'
<1> USE StoreAssumption DEF WipeInv
<1>0. FileInv'
  BY FileStep
<1>1. ASSUME NEW p \in Proc, Step(p) PROVE (ClearHolds /\ NoResurrection)'
  <2> USE DEF FileInv, CallInv, CallHolds, FileHolds, LiveFileWhole, SingleWriter,
              TypeOK, ClearHolds, NoResurrection, Saving, Clearing, SavePc, LoadPc,
              ClearPc, Goto, Finish, Works, Fails, places, ghosts
  <2>1. CASE LoadCall(p)
    BY <2>1 DEF LoadCall
  <2>2. CASE KeyringGet(p)
    BY <2>2 DEF KeyringGet
  <2>3. CASE ReadFile(p)
    BY <2>3 DEF ReadFile
  <2>4. ASSUME p \in Writers, NEW c \in Cred, SaveCall(p, c) PROVE (ClearHolds /\ NoResurrection)'
    BY <2>4 DEF SaveCall
  <2>5. CASE KeyringSet(p)
    BY <2>5 DEF KeyringSet
  <2>6. CASE RemoveStale(p)
    BY <2>6 DEF RemoveStale
  <2>7. CASE OpenTmp(p)
    BY <2>7 DEF OpenTmp, SaveFails
  <2>8. CASE WriteTmp(p)
    BY <2>8 DEF WriteTmp, SaveFails
  <2>9. CASE RenameTmp(p)
    BY <2>9 DEF RenameTmp, SaveFails
  <2>10. CASE ClearCall(p)
    BY <2>10 DEF ClearCall
  <2>11. CASE KeyringDelete(p)
    BY <2>11 DEF KeyringDelete
  <2>12. CASE FileExists(p)
    BY <2>12 DEF FileExists, ClearReturns
  <2>13. CASE RemoveFile(p)
    BY <2>13 DEF RemoveFile, ClearReturns
  <2>14. CASE Return(p)
    BY <2>14 DEF Return
  <2>15. CASE Crash(p)
    BY <2>15 DEF Crash
  <2> QED
    BY <1>1, <2>1, <2>2, <2>3, <2>4, <2>5, <2>6, <2>7, <2>8, <2>9, <2>10, <2>11,
       <2>12, <2>13, <2>14, <2>15 DEF Step
<1>2. ASSUME UNCHANGED vars PROVE (ClearHolds /\ NoResurrection)'
  BY <1>2 DEF vars, local, places, ghosts, ClearHolds, NoResurrection, Saving, Clearing
<1> QED
  BY <1>0, <1>1, <1>2 DEF Next

\* What a clear has disposed of is in neither place for good, whichever calls
\* of the keyring and the file system fail, whatever crashed writer left a
\* temporary file and whatever saves and clears overlap: after an Ok only the
\* entry whose delete failed and the file exists() could not see can be left
\* (clear_sync and write_secret_file together).
THEOREM ClearIsFinal ==
  ASSUME SingleWriter
  PROVE  Spec => []NoResurrection
<1>1. Init => WipeInv
  <2>1. Init => FileInv
    BY CallInit DEF Init, FileInv, FileHolds, LiveFileWhole
  <2> QED
    BY <2>1 DEF Init, WipeInv, ClearHolds, NoResurrection, Saving, SavePc
<1>2. WipeInv /\ [Next]_vars => WipeInv'
  BY WipeStep
<1>3. WipeInv => NoResurrection
  BY DEF WipeInv
<1> QED
  BY <1>1, <1>2, <1>3, PTL DEF Spec

-----------------------------------------------------------------------------
(* The register.  What a caller sees of the store is one value and, of each *)
(* process, one call.                                                       *)

Value == IF keyring # "absent" THEN keyring ELSE FileValue

CallOf(p) ==
  [at  |-> IF pc[p] = "idle" THEN "idle"
           ELSE IF pc[p] = "return" \/ Decided(p) THEN "returning"
           ELSE "called",
   op  |-> IF pc[p] \in {"idle", "return"} \/ Decided(p) THEN "none"
           ELSE IF Saving(p) THEN "save"
           ELSE IF Clearing(p) THEN "clear"
           ELSE "load",
   arg |-> IF ~Decided(p) THEN IF pc[p] = "return" THEN ret[p] ELSE cred[p]
           ELSE IF pc[p] = "read_file" THEN "absent"
           ELSE "ok"]

Calls == [p \in Proc |-> CallOf(p)]

Idle == [at |-> "idle", op |-> "none", arg |-> "absent"]
Called(op, arg) == [at |-> "called", op |-> op, arg |-> arg]
Returning(result) == [at |-> "returning", op |-> "none", arg |-> result]

\* What a step of process p may do to the register: begin a call, take
\* effect, fail, return, die, or nothing.
RegisterStep(p) ==
  \/ /\ CallOf(p) = Idle /\ Value' = Value
     /\ \/ CallOf(p)' = Called("load", "absent") \/ CallOf(p)' = Called("clear", "absent")
        \/ p \in Writers /\ \E c \in Cred : CallOf(p)' = Called("save", c)
  \/ CallOf(p) = Called("load", "absent") /\ CallOf(p)' = Returning(Value) /\ Value' = Value
  \/ \E c : CallOf(p) = Called("save", c) /\ CallOf(p)' = Returning("ok") /\ Value' = c
  \/ CallOf(p) = Called("clear", "absent") /\ CallOf(p)' = Returning("ok") /\ Value' = "absent"
  \/ /\ "stat" \in FileFails
     /\ CallOf(p) = Called("clear", "absent") /\ CallOf(p)' = Returning("ok") /\ Value' = Value
  \/ CallOf(p).at = "called" /\ CallOf(p)' = Returning("err") /\ Value' = Value
  \/ CallOf(p).at = "returning" /\ CallOf(p)' = Idle /\ Value' = Value
  \/ CallOf(p) # Idle /\ CallOf(p)' = Idle /\ Value' = Value
  \/ CallOf(p)' = CallOf(p) /\ Value' = Value

\* A step is one process's own.
LEMMA OthersKeepTheirCalls ==
  ASSUME TypeOK, NEW p \in Proc, Step(p), NEW q \in Proc, q # p
  PROVE  CallOf(q)' = CallOf(q)
<1>1. pc'[q] = pc[q] /\ cred'[q] = cred[q] /\ ret'[q] = ret[q]
  BY DEF TypeOK, Step, LoadCall, KeyringGet, ReadFile, SaveCall, KeyringSet, RemoveStale, OpenTmp,
     WriteTmp, RenameTmp, SaveFails, ClearCall, KeyringDelete, FileExists, RemoveFile, ClearReturns,
     Return, Crash, Goto, Finish
<1> QED
  BY <1>1 DEF CallOf, Decided, Saving, Clearing

LEMMA RegisterFollows ==
  ASSUME TypeOK, NEW p \in Proc, Step(p), RegisterStep(p)
  PROVE  [Abstract!Next]_Abstract!vars
<1>1. \A q \in Proc : q # p => CallOf(q)' = CallOf(q)
  BY OthersKeepTheirCalls
<1>2. Calls' = [Calls EXCEPT ![p] = CallOf(p)']
  BY <1>1 DEF Calls
<1>3. Calls[p] = CallOf(p)
  BY DEF Calls
<1>4. CallOf(p)' = CallOf(p) => Calls' = Calls
  BY <1>2, <1>3 DEF Calls
<1>5. /\ Abstract!Invoke(p) <=>
           /\ Calls[p] = Idle /\ Value' = Value
           /\ \/ Calls' = [Calls EXCEPT ![p] = Called("load", "absent")]
              \/ Calls' = [Calls EXCEPT ![p] = Called("clear", "absent")]
              \/ /\ p \in Writers
                 /\ \E c \in Cred : Calls' = [Calls EXCEPT ![p] = Called("save", c)]
      /\ Abstract!LoadEffect(p) <=>
           /\ Calls[p].at = "called" /\ Calls[p].op = "load" /\ Value' = Value
           /\ Calls' = [Calls EXCEPT ![p] = Returning(Value)]
      /\ Abstract!SaveEffect(p) <=>
           /\ Calls[p].at = "called" /\ Calls[p].op = "save" /\ Value' = Calls[p].arg
           /\ Calls' = [Calls EXCEPT ![p] = Returning("ok")]
      /\ Abstract!ClearEffect(p) <=>
           /\ Calls[p].at = "called" /\ Calls[p].op = "clear" /\ Value' = "absent"
           /\ Calls' = [Calls EXCEPT ![p] = Returning("ok")]
      /\ Abstract!ClearMissed(p) <=>
           /\ "stat" \in FileFails
           /\ Calls[p].at = "called" /\ Calls[p].op = "clear" /\ Value' = Value
           /\ Calls' = [Calls EXCEPT ![p] = Returning("ok")]
      /\ Abstract!Fail(p) <=>
           /\ Calls[p].at = "called" /\ Value' = Value
           /\ Calls' = [Calls EXCEPT ![p] = Returning("err")]
      /\ Abstract!Return(p) <=>
           /\ Calls[p].at = "returning" /\ Value' = Value
           /\ Calls' = [Calls EXCEPT ![p] = Idle]
      /\ Abstract!Crash(p) <=>
           /\ Calls[p] # Idle /\ Value' = Value
           /\ Calls' = [Calls EXCEPT ![p] = Idle]
      /\ UNCHANGED Abstract!vars <=> Value' = Value /\ Calls' = Calls
  BY Zenon DEF Abstract!Invoke, Abstract!LoadEffect, Abstract!SaveEffect, Abstract!ClearEffect,
     Abstract!ClearMissed, Abstract!Fail, Abstract!Return, Abstract!Crash, Abstract!vars, Abstract!Idle,
     Abstract!Called, Abstract!Returning, Calls, CallOf, Value, Idle, Called, Returning
<1>6. \/ Abstract!Invoke(p) \/ Abstract!LoadEffect(p) \/ Abstract!SaveEffect(p)
      \/ Abstract!ClearEffect(p) \/ Abstract!ClearMissed(p) \/ Abstract!Fail(p)
      \/ Abstract!Return(p) \/ Abstract!Crash(p)
      \/ UNCHANGED Abstract!vars
  <2>1. \A op, arg : /\ Called(op, arg).at = "called" /\ Called(op, arg).op = op
                     /\ Called(op, arg).arg = arg
    BY DEF Called
  <2> DEFINE c == CallOf(p)
             d == CallOf(p)'
             before == Calls
             after == Calls'
  <2>2. after = [before EXCEPT ![p] = d] /\ before[p] = c
    BY <1>2, <1>3
  <2> HIDE DEF c, d, before, after
  <2>3. RegisterStep(p) <=>
          \/ /\ c = Idle /\ Value' = Value
             /\ \/ d = Called("load", "absent") \/ d = Called("clear", "absent")
                \/ p \in Writers /\ \E text \in Cred : d = Called("save", text)
          \/ c = Called("load", "absent") /\ d = Returning(Value) /\ Value' = Value
          \/ \E text : c = Called("save", text) /\ d = Returning("ok") /\ Value' = text
          \/ c = Called("clear", "absent") /\ d = Returning("ok") /\ Value' = "absent"
          \/ /\ "stat" \in FileFails
             /\ c = Called("clear", "absent") /\ d = Returning("ok") /\ Value' = Value
          \/ c.at = "called" /\ d = Returning("err") /\ Value' = Value
          \/ c.at = "returning" /\ d = Idle /\ Value' = Value
          \/ c # Idle /\ d = Idle /\ Value' = Value
          \/ d = c /\ Value' = Value
    BY Zenon DEF RegisterStep, c, d
  <2>4. CASE /\ c = Idle /\ Value' = Value
             /\ \/ d = Called("load", "absent") \/ d = Called("clear", "absent")
                \/ p \in Writers /\ \E text \in Cred : d = Called("save", text)
    <3>1. Abstract!Invoke(p)
      BY <1>5, <2>2, <2>4, Zenon DEF before, after
    <3> QED
      BY <3>1
  <2>5. CASE c = Called("load", "absent") /\ d = Returning(Value) /\ Value' = Value
    <3>1. before[p].at = "called" /\ before[p].op = "load"
      BY <2>1, <2>2, <2>5
    <3>2. Abstract!LoadEffect(p)
      BY <1>5, <2>2, <2>5, <3>1, Zenon DEF before, after
    <3> QED
      BY <3>2
  <2>6. CASE \E text : c = Called("save", text) /\ d = Returning("ok") /\ Value' = text
    <3>1. PICK text : c = Called("save", text) /\ d = Returning("ok") /\ Value' = text
      BY <2>6
    <3>2. before[p].at = "called" /\ before[p].op = "save" /\ before[p].arg = text
      BY <2>1, <2>2, <3>1
    <3>3. Abstract!SaveEffect(p)
      BY <1>5, <2>2, <3>1, <3>2, Zenon DEF before, after
    <3> QED
      BY <3>3
  <2>7. CASE c = Called("clear", "absent") /\ d = Returning("ok") /\ Value' = "absent"
    <3>1. before[p].at = "called" /\ before[p].op = "clear"
      BY <2>1, <2>2, <2>7
    <3>2. Abstract!ClearEffect(p)
      BY <1>5, <2>2, <2>7, <3>1, Zenon DEF before, after
    <3> QED
      BY <3>2
  <2>8. CASE c.at = "called" /\ d = Returning("err") /\ Value' = Value
    <3>1. Abstract!Fail(p)
      BY <1>5, <2>2, <2>8, Zenon DEF before, after
    <3> QED
      BY <3>1
  <2>9. CASE c.at = "returning" /\ d = Idle /\ Value' = Value
    <3>1. Abstract!Return(p)
      BY <1>5, <2>2, <2>9, Zenon DEF before, after
    <3> QED
      BY <3>1
  <2>10. CASE c # Idle /\ d = Idle /\ Value' = Value
    <3>1. Abstract!Crash(p)
      BY <1>5, <2>2, <2>10, Zenon DEF before, after
    <3> QED
      BY <3>1
  <2>11. CASE d = c /\ Value' = Value
    <3>1. UNCHANGED Abstract!vars
      BY <1>4, <1>5, <2>11, Zenon DEF c, d
    <3> QED
      BY <3>1
  <2>12. CASE /\ "stat" \in FileFails
              /\ c = Called("clear", "absent") /\ d = Returning("ok") /\ Value' = Value
    <3>1. before[p].at = "called" /\ before[p].op = "clear"
      BY <2>1, <2>2, <2>12
    <3>2. Abstract!ClearMissed(p)
      BY <1>5, <2>2, <2>12, <3>1, Zenon DEF before, after
    <3> QED
      BY <3>2
  <2> QED
    BY <2>3, <2>4, <2>5, <2>6, <2>7, <2>8, <2>9, <2>10, <2>11, <2>12, Zenon
<1> QED
  BY <1>6 DEF Abstract!Next

\* Who is not saving has no argument.
ArgumentHolds == \A p \in Proc : ~Saving(p) => cred[p] = "absent"

LEMMA ArgumentStep ==
  ASSUME CallInv, ArgumentHolds, [Next]_vars
  PROVE  ArgumentHolds'
<1> USE DEF ArgumentHolds, CallInv, TypeOK, Saving, SavePc, Goto, Finish, places, ghosts
<1>1. ASSUME NEW p \in Proc, LoadCall(p) \/ KeyringGet(p) \/ ReadFile(p) PROVE ArgumentHolds'
  BY <1>1 DEF LoadCall, KeyringGet, ReadFile
<1>2. ASSUME NEW p \in Proc, NEW c \in Cred, SaveCall(p, c) PROVE ArgumentHolds'
  BY <1>2 DEF SaveCall
<1>3. ASSUME NEW p \in Proc,
             KeyringSet(p) \/ RemoveStale(p) \/ OpenTmp(p) \/ WriteTmp(p) \/ RenameTmp(p)
      PROVE  ArgumentHolds'
  BY <1>3 DEF KeyringSet, RemoveStale, OpenTmp, WriteTmp, RenameTmp, SaveFails
<1>4. ASSUME NEW p \in Proc,
             ClearCall(p) \/ KeyringDelete(p) \/ FileExists(p) \/ RemoveFile(p)
      PROVE  ArgumentHolds'
  BY <1>4 DEF ClearCall, KeyringDelete, FileExists, RemoveFile, ClearReturns
<1>5. ASSUME NEW p \in Proc, Return(p) \/ Crash(p) PROVE ArgumentHolds'
  BY <1>5 DEF Return, Crash
<1>6. CASE UNCHANGED vars
  BY <1>6 DEF vars, local
<1> QED
  BY <1>1, <1>2, <1>3, <1>4, <1>5, <1>6 DEF Next, Step

\* A keyring whose sets succeed leaves the file alone.
KeyringHolds ==
  /\ live = "nofile"
  /\ \A p \in Proc : pc[p] \notin {"open_tmp", "write_tmp", "rename_tmp", "remove_file"}

KeyringInv == CallInv /\ ArgumentHolds /\ KeyringHolds

LEMMA KeyringStep ==
  ASSUME "set" \notin KeyringFails, KeyringInv, [Next]_vars
  PROVE  KeyringInv'
<1>1. CallInv' /\ ArgumentHolds'
  BY CallStep, ArgumentStep DEF KeyringInv
<1> USE DEF KeyringInv, KeyringHolds, CallInv, TypeOK, Goto, Finish, Fails, places, ghosts
<1>2. ASSUME NEW p \in Proc, LoadCall(p) \/ KeyringGet(p) \/ ReadFile(p) PROVE KeyringHolds'
  BY <1>2 DEF LoadCall, KeyringGet, ReadFile
<1>3. ASSUME NEW p \in Proc, NEW c \in Cred, SaveCall(p, c) PROVE KeyringHolds'
  BY <1>3 DEF SaveCall
<1>4. ASSUME NEW p \in Proc,
             KeyringSet(p) \/ RemoveStale(p) \/ OpenTmp(p) \/ WriteTmp(p) \/ RenameTmp(p)
      PROVE  KeyringHolds'
  BY <1>4 DEF KeyringSet, RemoveStale, OpenTmp, WriteTmp, RenameTmp, SaveFails
<1>5. ASSUME NEW p \in Proc,
             ClearCall(p) \/ KeyringDelete(p) \/ FileExists(p) \/ RemoveFile(p)
      PROVE  KeyringHolds'
  BY <1>5 DEF ClearCall, KeyringDelete, FileExists, RemoveFile, ClearReturns
<1>6. ASSUME NEW p \in Proc, Return(p) \/ Crash(p) PROVE KeyringHolds'
  BY <1>6 DEF Return, Crash
<1>7. ASSUME UNCHANGED vars PROVE KeyringHolds'
  BY <1>7 DEF vars, local
<1> QED
  BY <1>1, <1>2, <1>3, <1>4, <1>5, <1>6, <1>7 DEF Next, Step

\* The keyring operation of a call is the instant it takes effect.
LEMMA KeyringIsRegister ==
  ASSUME KeyringAlways, KeyringInv, NEW p \in Proc, Step(p)
  PROVE  RegisterStep(p)
<1> USE StoreAssumption
    DEF KeyringAlways, KeyringInv, KeyringHolds, CallInv, CallHolds, ArgumentHolds, TypeOK,
        Goto, Finish, Fails, places, ghosts, RegisterStep, CallOf, Value, FileValue,
        Idle, Called, Returning, Decided, Saving, Clearing, SavePc, ClearPc
<1>1. CASE LoadCall(p)
  BY <1>1 DEF LoadCall
<1>2. CASE KeyringGet(p)
  BY <1>2 DEF KeyringGet
<1>3. CASE ReadFile(p)
  BY <1>3 DEF ReadFile
<1>4. ASSUME p \in Writers, NEW c \in Cred, SaveCall(p, c) PROVE RegisterStep(p)
  BY <1>4 DEF SaveCall
<1>5. CASE KeyringSet(p)
  BY <1>5 DEF KeyringSet
<1>6. CASE RemoveStale(p)
  BY <1>6 DEF RemoveStale
<1>7. CASE ClearCall(p)
  BY <1>7 DEF ClearCall
<1>8. CASE KeyringDelete(p)
  BY <1>8 DEF KeyringDelete
<1>9. CASE FileExists(p)
  BY <1>9 DEF FileExists, ClearReturns
<1>10. CASE Return(p)
  BY <1>10 DEF Return
<1>11. CASE Crash(p)
  BY <1>11 DEF Crash
<1>12. ~(OpenTmp(p) \/ WriteTmp(p) \/ RenameTmp(p) \/ RemoveFile(p))
  BY DEF OpenTmp, WriteTmp, RenameTmp, RemoveFile
<1> QED
  BY <1>1, <1>2, <1>3, <1>4, <1>5, <1>6, <1>7, <1>8, <1>9, <1>10, <1>11, <1>12 DEF Step

\* Without a keyring and with one writer the file is whole or not there.
FileRegisterHolds ==
  /\ keyring = "absent"
  /\ \A p \in Proc : pc[p] # "remove_stale"

FileRegisterInv == FileInv /\ ArgumentHolds /\ FileRegisterHolds

LEMMA FileRegisterStep ==
  ASSUME SingleWriter, KeyringWorks = {}, FileRegisterInv, [Next]_vars
  PROVE  FileRegisterInv'
<1>1. FileInv' /\ ArgumentHolds'
  BY FileStep, ArgumentStep DEF FileRegisterInv, FileInv
<1> USE DEF FileRegisterInv, FileRegisterHolds, FileInv, CallInv, TypeOK, Goto, Finish, Works,
            places, ghosts
<1>2. ASSUME NEW p \in Proc, LoadCall(p) \/ KeyringGet(p) \/ ReadFile(p) PROVE FileRegisterHolds'
  BY <1>2 DEF LoadCall, KeyringGet, ReadFile
<1>3. ASSUME NEW p \in Proc, NEW c \in Cred, SaveCall(p, c) PROVE FileRegisterHolds'
  BY <1>3 DEF SaveCall
<1>4. ASSUME NEW p \in Proc,
             KeyringSet(p) \/ RemoveStale(p) \/ OpenTmp(p) \/ WriteTmp(p) \/ RenameTmp(p)
      PROVE  FileRegisterHolds'
  BY <1>4 DEF KeyringSet, RemoveStale, OpenTmp, WriteTmp, RenameTmp, SaveFails
<1>5. ASSUME NEW p \in Proc,
             ClearCall(p) \/ KeyringDelete(p) \/ FileExists(p) \/ RemoveFile(p)
      PROVE  FileRegisterHolds'
  BY <1>5 DEF ClearCall, KeyringDelete, FileExists, RemoveFile, ClearReturns
<1>6. ASSUME NEW p \in Proc, Return(p) \/ Crash(p) PROVE FileRegisterHolds'
  BY <1>6 DEF Return, Crash
<1>7. ASSUME UNCHANGED vars PROVE FileRegisterHolds'
  BY <1>7 DEF vars, local
<1> QED
  BY <1>1, <1>2, <1>3, <1>4, <1>5, <1>6, <1>7 DEF Next, Step

\* The file decides: a load takes effect when it reads, a save when it
\* renames, a clear when it finds no file or removes it; a clear that cannot
\* see the file misses.
LEMMA FileIsRegister ==
  ASSUME SingleWriter, KeyringWorks = {}, FileRegisterInv, NEW p \in Proc, Step(p)
  PROVE  RegisterStep(p)
<1>1. ~KeyringAlways
  BY StoreAssumption DEF KeyringAlways, KeyringOp
<1>2. \A q \in Proc : ~Decided(q)
  BY <1>1 DEF Decided, FileRegisterInv, FileRegisterHolds
<1>3. (\A q \in Proc : ~Decided(q))'
  <2>1. FileRegisterInv'
    BY FileRegisterStep DEF Next
  <2> QED
    BY <1>1, <2>1 DEF Decided, FileRegisterInv, FileRegisterHolds, KeyringAlways
<1>4. Value = FileValue /\ FileValue \in Cred \cup {"absent"}
  BY StoreAssumption DEF Value, FileValue, FileRegisterInv, FileRegisterHolds, FileInv, CallInv,
     TypeOK, LiveFileWhole
<1>5. Value' = FileValue'
  BY FileRegisterStep DEF Next, Value, FileRegisterInv, FileRegisterHolds
<1> USE StoreAssumption, <1>2, <1>3, <1>4, <1>5
    DEF FileRegisterInv, FileRegisterHolds, FileInv, CallInv, CallHolds, ArgumentHolds, TypeOK,
        Goto, Finish, Works, FileError, places, ghosts, RegisterStep, CallOf, FileValue,
        Idle, Called, Returning, Saving, Clearing, SavePc, ClearPc
<1>6. CASE LoadCall(p)
  BY <1>6 DEF LoadCall
<1>7. CASE KeyringGet(p)
  BY <1>7 DEF KeyringGet
<1>8. CASE ReadFile(p)
  BY <1>8 DEF ReadFile
<1>9. ASSUME p \in Writers, NEW c \in Cred, SaveCall(p, c) PROVE RegisterStep(p)
  BY <1>9 DEF SaveCall
<1>10. CASE KeyringSet(p)
  BY <1>10 DEF KeyringSet
<1>11. CASE OpenTmp(p)
  BY <1>11 DEF OpenTmp, SaveFails, FileHolds, FreeInode
<1>12. CASE WriteTmp(p)
  BY <1>12 DEF WriteTmp, SaveFails, FileHolds
<1>13. CASE RenameTmp(p)
  <2>1. /\ tmp \in Inode /\ content[tmp] = cred[p] /\ cred[p] \in Cred
        /\ CallOf(p) = Called("save", cred[p])
    BY <1>13 DEF RenameTmp, FileHolds
  <2>2. CASE live' = tmp /\ tmp # "nofile" /\ UNCHANGED <<content, keyring>> /\ Finish(p, "ok")
    <3>1. FileValue' = cred[p] /\ CallOf(p)' = Returning("ok")
      BY <2>1, <2>2
    <3> QED
      BY <2>1, <3>1
  <2>3. CASE UNCHANGED <<live, content, keyring>> /\ Finish(p, "err")
    <3>1. FileValue' = FileValue /\ CallOf(p)' = Returning("err")
      BY <2>3, <1>13 DEF RenameTmp
    <3> QED
      BY <2>1, <3>1
  <2> QED
    BY <1>13, <2>2, <2>3 DEF RenameTmp, SaveFails
<1>14. CASE ClearCall(p)
  BY <1>14 DEF ClearCall
<1>15. CASE KeyringDelete(p)
  BY <1>15 DEF KeyringDelete
<1>16. CASE FileExists(p)
  BY <1>16 DEF FileExists, ClearReturns
<1>17. CASE RemoveFile(p)
  BY <1>17 DEF RemoveFile, ClearReturns
<1>18. CASE Return(p)
  BY <1>18 DEF Return
<1>19. CASE Crash(p)
  BY <1>19 DEF Crash
<1>20. ~RemoveStale(p)
  BY DEF RemoveStale
<1> QED
  BY <1>6, <1>7, <1>8, <1>9, <1>10, <1>11, <1>12, <1>13, <1>14, <1>15, <1>16, <1>17, <1>18,
     <1>19, <1>20 DEF Step

\* Calls of nobody: the register that is not touched.
LEMMA RegisterStutters ==
  UNCHANGED vars => UNCHANGED Abstract!vars
BY DEF vars, places, local, Abstract!vars, FileValue, Decided, Saving, Clearing

LEMMA RegisterInit == Init => Abstract!Init
BY DEF Init, Abstract!Init, Abstract!Idle, FileValue, Decided

\* With a keyring that always answers, every load, save and clear is atomic,
\* and an error or a crash has no effect, for any number of processes that
\* call at once.
THEOREM KeyringImplementsRegister ==
  ASSUME KeyringAlways PROVE Spec => ImplementsRegister
<1>1. Init => KeyringInv
  BY CallInit DEF Init, KeyringInv, KeyringHolds, ArgumentHolds
<1>2. KeyringInv /\ [Next]_vars => KeyringInv'
  BY KeyringStep DEF KeyringAlways
<1>3. KeyringInv /\ [Next]_vars => [Abstract!Next]_Abstract!vars
  BY KeyringIsRegister, RegisterFollows, RegisterStutters DEF Next, KeyringInv, CallInv
<1> QED
  BY RegisterInit, <1>1, <1>2, <1>3, PTL DEF Spec, ImplementsRegister, Abstract!Spec

\* So it is without any keyring as long as one process saves: the file is
\* replaced and removed at one instant.  The register's clears miss nothing
\* exactly when exists() cannot fail (ClearsMiss in Abstract).
THEOREM FileImplementsRegister ==
  ASSUME SingleWriter, KeyringWorks = {} PROVE Spec => ImplementsRegister
<1>1. Init => FileRegisterInv
  <2>1. Init => FileInv
    BY CallInit DEF Init, FileInv, FileHolds, LiveFileWhole
  <2> QED
    BY <2>1 DEF Init, FileRegisterInv, FileRegisterHolds, ArgumentHolds
<1>2. FileRegisterInv /\ [Next]_vars => FileRegisterInv'
  BY FileRegisterStep
<1>3. FileRegisterInv /\ [Next]_vars => [Abstract!Next]_Abstract!vars
  BY FileIsRegister, RegisterFollows, RegisterStutters
     DEF Next, FileRegisterInv, FileInv, CallInv
<1> QED
  BY RegisterInit, <1>1, <1>2, <1>3, PTL DEF Spec, ImplementsRegister, Abstract!Spec

-----------------------------------------------------------------------------
(* Two sources of truth.                                                   *)

\* A keyring whose sets never succeed has no entry.
EntryInv == CallInv /\ keyring = "absent"

LEMMA EntryStep ==
  ASSUME "set" \notin KeyringWorks, EntryInv, [Next]_vars
  PROVE  EntryInv'
<1>1. CallInv'
  BY CallStep DEF EntryInv
<1> USE DEF EntryInv, Works, Goto, Finish, places, ghosts
<1>2. ASSUME NEW p \in Proc, LoadCall(p) \/ KeyringGet(p) \/ ReadFile(p) PROVE keyring' = "absent"
  BY <1>2 DEF LoadCall, KeyringGet, ReadFile
<1>3. ASSUME NEW p \in Proc, NEW c \in Cred, SaveCall(p, c) PROVE keyring' = "absent"
  BY <1>3 DEF SaveCall
<1>4. ASSUME NEW p \in Proc,
             KeyringSet(p) \/ RemoveStale(p) \/ OpenTmp(p) \/ WriteTmp(p) \/ RenameTmp(p)
      PROVE  keyring' = "absent"
  BY <1>4 DEF KeyringSet, RemoveStale, OpenTmp, WriteTmp, RenameTmp
<1>5. ASSUME NEW p \in Proc,
             ClearCall(p) \/ KeyringDelete(p) \/ FileExists(p) \/ RemoveFile(p)
      PROVE  keyring' = "absent"
  BY <1>5 DEF ClearCall, KeyringDelete, FileExists, RemoveFile
<1>6. ASSUME NEW p \in Proc, Return(p) \/ Crash(p) PROVE keyring' = "absent"
  BY <1>6 DEF Return, Crash
<1>7. ASSUME UNCHANGED vars PROVE keyring' = "absent"
  BY <1>7 DEF vars
<1> QED
  BY <1>1, <1>2, <1>3, <1>4, <1>5, <1>6, <1>7 DEF Next, Step

\* As long as a set of the keyring has one outcome, always success or always
\* failure, there is one source of truth, whatever get, delete and the file
\* system do and however many processes save, clear and crash.  What
\* write_raw's comment promises takes a set that succeeds and fails in turn
\* to break.
THEOREM OneSourceWhenSetIsConstant ==
  ASSUME "set" \notin KeyringFails \/ "set" \notin KeyringWorks
  PROVE  Spec => []OneSourceOfTruth
<1>1. CASE "set" \notin KeyringFails
  <2>1. Init => KeyringInv
    BY CallInit DEF Init, KeyringInv, KeyringHolds, ArgumentHolds
  <2>2. KeyringInv /\ [Next]_vars => KeyringInv'
    BY <1>1, KeyringStep
  <2>3. KeyringInv => OneSourceOfTruth
    BY DEF KeyringInv, KeyringHolds, OneSourceOfTruth
  <2> QED
    BY <2>1, <2>2, <2>3, PTL DEF Spec
<1>2. CASE "set" \notin KeyringWorks
  <2>1. Init => EntryInv
    BY CallInit DEF Init, EntryInv
  <2>2. EntryInv /\ [Next]_vars => EntryInv'
    BY <1>2, EntryStep
  <2>3. EntryInv => OneSourceOfTruth
    BY DEF EntryInv, OneSourceOfTruth
  <2> QED
    BY <2>1, <2>2, <2>3, PTL DEF Spec
<1> QED
  BY <1>1, <1>2

=============================================================================
