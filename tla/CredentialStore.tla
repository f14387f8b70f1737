--------------------------- MODULE CredentialStore ---------------------------
(***************************************************************************)
(* src/auth/storage.rs: SecureCredentialStore, one system call per step.   *)
(*                                                                         *)
(* Every process launched for the same CredentialKey shares one keyring    *)
(* entry, one fallback file <key>.json and one temporary name <key>.tmp.   *)
(* A file name is a link to an inode; open(O_TRUNC) on a name that exists  *)
(* reuses its inode, rename moves the link, so two writers of the same     *)
(* temporary name share an inode.                                          *)
(*                                                                         *)
(* The keyring is an external service: an operation in KeyringFails may    *)
(* fail on any call, one in KeyringWorks may succeed.  A file system call  *)
(* in FileFails may fail too (disk full, permissions, I/O errors).  A      *)
(* process may die between any two steps.                                  *)
(***************************************************************************)
CONSTANTS Proc,          \* processes launched for one server
          Writers,       \* those of them that save
          Cred,          \* serialized credentials
          Inode,         \* inodes of the credentials directory
          KeyringWorks,  \* keyring operations that can succeed
          KeyringFails,  \* keyring operations that can fail
          FileFails,     \* file system calls that can fail
          CanCrash       \* whether a process can die in the middle of a call

KeyringOp == {"get", "set", "delete"}
FileOp    == {"read", "stat", "remove", "open", "write", "rename"}

ASSUME StoreAssumption ==
  /\ Writers \subseteq Proc
  /\ "nofile" \notin Inode
  /\ Cred \cap {"absent", "empty", "torn", "ok", "err"} = {}
  /\ KeyringWorks \subseteq KeyringOp /\ KeyringFails \subseteq KeyringOp
  /\ KeyringWorks \cup KeyringFails = KeyringOp
  /\ FileFails \subseteq FileOp
  /\ CanCrash \in BOOLEAN

VARIABLES
  keyring,  \* the keyring entry of this account, or "absent"
  live,     \* inode <key>.json links to, or "nofile"
  tmp,      \* inode <key>.tmp links to, or "nofile"
  content,  \* what each inode holds
  pc,       \* the call each process is about to make
  cred,     \* the argument of the save each process is in
  fd,       \* the inode each process has open for writing
  ret,      \* the value each process is about to return
  wiped,    \* history: credentials a completed clear has disposed of
  spare     \* history: per clear in progress, what it does not dispose of: the
            \* saves it overlaps, and what an error it does not report leaves

places == <<keyring, live, tmp, content>>
local  == <<pc, cred, fd, ret>>
ghosts == <<wiped, spare>>
vars   == <<places, local, ghosts>>

SavePc  == {"keyring_set", "remove_stale", "open_tmp", "write_tmp", "rename_tmp"}
LoadPc  == {"keyring_get", "read_file"}
ClearPc == {"keyring_delete", "file_exists", "remove_file"}

TypeOK ==
  /\ keyring \in Cred \cup {"absent"}
  /\ live \in Inode \cup {"nofile"}
  /\ tmp \in Inode \cup {"nofile"}
  /\ content \in [Inode -> Cred \cup {"empty", "torn"}]
  /\ pc \in [Proc -> SavePc \cup LoadPc \cup ClearPc \cup {"idle", "return"}]
  /\ cred \in [Proc -> Cred \cup {"absent"}]
  /\ fd \in [Proc -> Inode \cup {"nofile"}]
  /\ ret \in [Proc -> Cred \cup {"absent", "ok", "err"}]
  /\ wiped \subseteq Cred
  /\ spare \in [Proc -> SUBSET Cred]

Init ==
  /\ keyring = "absent" /\ live = "nofile" /\ tmp = "nofile"
  /\ content = [i \in Inode |-> "empty"]
  /\ pc = [p \in Proc |-> "idle"]
  /\ cred = [p \in Proc |-> "absent"]
  /\ fd = [p \in Proc |-> "nofile"]
  /\ ret = [p \in Proc |-> "absent"]
  /\ wiped = {}
  /\ spare = [p \in Proc |-> {}]

Saving(p)   == pc[p] \in SavePc
Clearing(p) == pc[p] \in ClearPc

Goto(p, label) == /\ pc' = [pc EXCEPT ![p] = label]
                  /\ UNCHANGED ret
Finish(p, result) == /\ pc' = [pc EXCEPT ![p] = "return"]
                     /\ ret' = [ret EXCEPT ![p] = result]

Works(op) == op \in KeyringWorks
Fails(op) == op \in KeyringFails
FileError(op) == op \in FileFails

-----------------------------------------------------------------------------
(* load(): read_raw, then deserialize.                                     *)

LoadCall(p) ==
  /\ pc[p] = "idle"
  /\ Goto(p, "keyring_get")
  /\ UNCHANGED <<places, cred, fd, ghosts>>

KeyringGet(p) ==
  /\ pc[p] = "keyring_get"
  /\ \/ /\ Works("get") /\ keyring # "absent"
        /\ Finish(p, keyring)
     \/ /\ Fails("get") \/ keyring = "absent"      \* an error or NoEntry
        /\ Goto(p, "read_file")
  /\ UNCHANGED <<places, cred, fd, ghosts>>

\* Faulty variant: NotFound is not mapped to None.
FileValueNotFound == IF live = "nofile" THEN live
                     ELSE IF content[live] \in Cred THEN content[live]
                     ELSE "err"

\* What reading the fallback file yields: text that is not a whole
\* credential does not deserialize.
FileValue == IF live = "nofile" THEN "absent"
             ELSE IF content[live] \in Cred THEN content[live]
             ELSE "err"

ReadFile(p) ==
  /\ pc[p] = "read_file"
  /\ \/ Finish(p, FileValue)
     \/ FileError("read") /\ live # "nofile" /\ Finish(p, "err")
  /\ UNCHANGED <<places, cred, fd, ghosts>>

-----------------------------------------------------------------------------
(* save(): serialize, then write_raw.                                      *)

SaveCall(p, c) ==
  /\ pc[p] = "idle"
  /\ Goto(p, "keyring_set")
  /\ cred' = [cred EXCEPT ![p] = c]
  /\ wiped' = wiped \ {c}
  /\ spare' = [q \in Proc |-> IF Clearing(q) THEN spare[q] \cup {c} ELSE spare[q]]
  /\ UNCHANGED <<places, fd>>

KeyringSet(p) ==
  /\ pc[p] = "keyring_set"
  /\ \/ /\ Works("set")
        /\ keyring' = cred[p]
        /\ Goto(p, "remove_stale")
     \/ /\ Fails("set")
        /\ Goto(p, "open_tmp")
        /\ UNCHANGED keyring
  /\ UNCHANGED <<live, tmp, content, cred, fd, ghosts>>

\* `let _ = remove_file(..)`: the outcome is ignored.
RemoveStale(p) ==
  /\ pc[p] = "remove_stale"
  /\ \/ live' = "nofile"
     \/ FileError("remove") /\ UNCHANGED live
  /\ Finish(p, "ok")
  /\ cred' = [cred EXCEPT ![p] = "absent"]
  /\ UNCHANGED <<keyring, tmp, content, fd, ghosts>>

SaveFails(p) ==
  /\ Finish(p, "err")
  /\ cred' = [cred EXCEPT ![p] = "absent"]
  /\ fd' = [fd EXCEPT ![p] = "nofile"]

\* An inode nothing links to and nobody has open.
FreeInode(i) == i # live /\ i # tmp /\ \A q \in Proc : fd[q] # i

\* Faulty variant: opened without truncate(true).
OpenTmpKeepsBytes(p) ==
  /\ pc[p] = "open_tmp"
  /\ \E i \in Inode :
       /\ IF tmp = "nofile" THEN FreeInode(i) ELSE i = tmp
       /\ content' = IF tmp = "nofile" THEN [content EXCEPT ![i] = "empty"] ELSE content
       /\ tmp' = i /\ fd' = [fd EXCEPT ![p] = i]
  /\ Goto(p, "write_tmp")
  /\ UNCHANGED <<keyring, live, cred, ghosts>>

\* open(tmp, O_WRONLY | O_CREAT | O_TRUNC)
OpenTmp(p) ==
  /\ pc[p] = "open_tmp"
  /\ \/ \E i \in Inode :
          /\ IF tmp = "nofile" THEN FreeInode(i) ELSE i = tmp
          /\ tmp' = i
          /\ content' = [content EXCEPT ![i] = "empty"]
          /\ fd' = [fd EXCEPT ![p] = i]
          /\ Goto(p, "write_tmp")
          /\ UNCHANGED cred
     \/ FileError("open") /\ SaveFails(p) /\ UNCHANGED <<tmp, content>>
  /\ UNCHANGED <<keyring, live, ghosts>>

\* write_all from offset 0, then sync and close.  Over the bytes of another
\* writer the result is whole only if it is at least as long, and lengths
\* are not known here.
WriteTmp(p) ==
  /\ pc[p] = "write_tmp"
  /\ \/ \E text \in {cred[p]} \cup (IF content[fd[p]] = "empty" THEN {} ELSE {"torn"}) :
          /\ content' = [content EXCEPT ![fd[p]] = text]
          /\ fd' = [fd EXCEPT ![p] = "nofile"]
          /\ Goto(p, "rename_tmp")
          /\ UNCHANGED cred
     \/ /\ FileError("write")
        /\ content' = [content EXCEPT ![fd[p]] = "torn"]
        /\ SaveFails(p)
  /\ UNCHANGED <<keyring, live, tmp, ghosts>>

\* Faulty variant: the outcome of rename is ignored, as that of remove_file is.
RenameTmpUnchecked(p) ==
  /\ pc[p] = "rename_tmp"
  /\ \/ /\ tmp # "nofile" /\ live' = tmp /\ tmp' = "nofile"
     \/ /\ tmp = "nofile" \/ FileError("rename")
        /\ UNCHANGED <<live, tmp>>
  /\ Finish(p, "ok")
  /\ cred' = [cred EXCEPT ![p] = "absent"]
  /\ UNCHANGED <<keyring, content, fd, ghosts>>

RenameTmp(p) ==
  /\ pc[p] = "rename_tmp"
  /\ \/ /\ tmp # "nofile"
        /\ live' = tmp
        /\ tmp' = "nofile"
        /\ Finish(p, "ok")
        /\ cred' = [cred EXCEPT ![p] = "absent"]
        /\ UNCHANGED fd
     \/ /\ tmp = "nofile" \/ FileError("rename")
        /\ SaveFails(p)
        /\ UNCHANGED <<live, tmp>>
  /\ UNCHANGED <<keyring, content, ghosts>>

-----------------------------------------------------------------------------
(* clear(): clear_sync.                                                    *)

ClearCall(p) ==
  /\ pc[p] = "idle"
  /\ Goto(p, "keyring_delete")
  /\ spare' = [spare EXCEPT ![p] = {cred[q] : q \in {r \in Proc : Saving(r)}}]
  /\ UNCHANGED <<places, cred, fd, wiped>>

ClearReturns(p, result, left) ==
  /\ Finish(p, result)
  /\ wiped' = IF result = "ok" THEN wiped \cup (Cred \ (spare[p] \cup left)) ELSE wiped
  /\ spare' = [spare EXCEPT ![p] = {}]

\* Faulty variant: a missing keyring entry ends the call at once.
KeyringDeleteReturns(p) ==
  /\ pc[p] = "keyring_delete"
  /\ \/ /\ keyring # "absent" /\ keyring' = "absent"
        /\ Goto(p, "file_exists")
        /\ UNCHANGED ghosts
     \/ keyring = "absent" /\ ClearReturns(p, "ok", {}) /\ UNCHANGED keyring
  /\ UNCHANGED <<live, tmp, content, cred, fd>>

\* NoEntry and a failed delete alike go on to the file; the failure is logged
\* and the entry stays.
KeyringDelete(p) ==
  /\ pc[p] = "keyring_delete"
  /\ \/ Works("delete") /\ keyring' = "absent" /\ UNCHANGED spare
     \/ /\ Fails("delete")
        /\ spare' = [spare EXCEPT ![p] = @ \cup (Cred \cap {keyring})]
        /\ UNCHANGED keyring
  /\ Goto(p, "file_exists")
  /\ UNCHANGED <<live, tmp, content, cred, fd, wiped>>

\* Path::exists() answers FALSE both when there is no file and when it cannot
\* tell (any error of the metadata call): then clear returns Ok all the same.
FileExists(p) ==
  /\ pc[p] = "file_exists"
  /\ \/ live = "nofile" /\ ClearReturns(p, "ok", {})
     \/ live # "nofile" /\ FileError("stat") /\ ClearReturns(p, "ok", {content[live]})
     \/ live # "nofile" /\ Goto(p, "remove_file") /\ UNCHANGED ghosts
  /\ UNCHANGED <<places, cred, fd>>

\* The file seen by FileExists may be gone by now: remove_file then fails.
RemoveFile(p) ==
  /\ pc[p] = "remove_file"
  /\ \/ /\ live # "nofile"
        /\ live' = "nofile"
        /\ ClearReturns(p, "ok", {})
     \/ /\ live = "nofile" \/ FileError("remove")
        /\ ClearReturns(p, "err", {})
        /\ UNCHANGED live
  /\ UNCHANGED <<keyring, tmp, content, cred, fd>>

-----------------------------------------------------------------------------
Return(p) ==
  /\ pc[p] = "return"
  /\ pc' = [pc EXCEPT ![p] = "idle"]
  /\ ret' = [ret EXCEPT ![p] = "absent"]
  /\ UNCHANGED <<places, cred, fd, ghosts>>

\* The process dies: locals and descriptors are gone, files and keyring stay.
Crash(p) ==
  /\ CanCrash /\ pc[p] # "idle"
  /\ pc' = [pc EXCEPT ![p] = "idle"]
  /\ cred' = [cred EXCEPT ![p] = "absent"]
  /\ fd' = [fd EXCEPT ![p] = "nofile"]
  /\ ret' = [ret EXCEPT ![p] = "absent"]
  /\ spare' = [spare EXCEPT ![p] = {}]
  /\ UNCHANGED <<places, wiped>>

Step(p) ==
  \/ LoadCall(p) \/ KeyringGet(p) \/ ReadFile(p)
  \/ p \in Writers /\ \E c \in Cred : SaveCall(p, c)
  \/ KeyringSet(p) \/ RemoveStale(p)
  \/ OpenTmp(p) \/ WriteTmp(p) \/ RenameTmp(p)
  \/ ClearCall(p) \/ KeyringDelete(p) \/ FileExists(p) \/ RemoveFile(p)
  \/ Return(p) \/ Crash(p)

Next == \E p \in Proc : Step(p)

Spec == Init /\ [][Next]_vars
-----------------------------------------------------------------------------
(* Properties.  The first two are about stores with one writing process:   *)
(* two of them share an inode through the temporary name.                  *)

SingleWriter == \A p, q \in Writers : p = q

\* The fallback file never holds part of a credential: write_secret_file
\* writes a temporary file and renames it over the live one.
LiveFileWhole == live # "nofile" => content[live] \in Cred

\* What a clear that returned Ok has disposed of is in neither place any
\* more, unless a later save brought it back.  That is every credential but
\* the keyring entry whose delete failed (clear_sync only logs it), the file
\* exists() could not see, and what overlapping saves write.  Crashes may
\* leave temporary files behind: later saves must not publish those.
NoResurrection == /\ keyring \notin wiped
                  /\ live # "nofile" => content[live] \notin wiped

\* write_raw: "remove any stale file copy so we don't have two sources of
\* truth": when no call is in progress at most one place holds a credential.
OneSourceOfTruth ==
  (\A p \in Proc : pc[p] = "idle") => (keyring = "absent" \/ live = "nofile")

\* The store implements the abstract register.  A keyring that always answers
\* decides every call at its keyring operation; without one the file does, and
\* a clear misses what it holds when exists() fails.
KeyringAlways == KeyringFails = {}

Decided(p) == \/ pc[p] = "remove_stale"
              \/ KeyringAlways /\ pc[p] \in {"read_file", "file_exists", "remove_file"}

Abstract == INSTANCE CredentialRegister WITH
  ClearsMiss <- "stat" \in FileFails,
  value <- IF keyring # "absent" THEN keyring ELSE FileValue,
  call <- [p \in Proc |->
    [at  |-> IF pc[p] = "idle" THEN "idle"
             ELSE IF pc[p] = "return" \/ Decided(p) THEN "returning"
             ELSE "called",
     op  |-> IF pc[p] \in {"idle", "return"} \/ Decided(p) THEN "none"
             ELSE IF Saving(p) THEN "save"
             ELSE IF Clearing(p) THEN "clear"
             ELSE "load",
     arg |-> IF ~Decided(p) THEN IF pc[p] = "return" THEN ret[p] ELSE cred[p]
             ELSE IF pc[p] = "read_file" THEN "absent"
             ELSE "ok"]]

\* Every load, save and clear is atomic and an error or a crash has no effect
\* (the CredentialStore trait as acquire_auth_client uses it); a clear that
\* returns Ok has emptied the register unless the file could not be seen.
ImplementsRegister == Abstract!Spec
=============================================================================
