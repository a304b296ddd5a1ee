-------------------------------- MODULE Keys --------------------------------
(***************************************************************************)
(* The key pairs of the countries: authority_keys.json, the keys the store *)
(* signs and validates with, and the keys the handlers list.  All resets   *)
(* write the same temporary file without a lock:                           *)
(*                                                                         *)
(*   remove the key file -> open the temporary file -> write it -> rename  *)
(*   it -> the store's keys -> (journal, logs, registry) -> the handlers'  *)
(*                                                                         *)
(* A file is an inode with a content: opening the temporary file cuts the  *)
(* inode that has its name, writing goes to the inode that was opened, and *)
(* renaming moves whatever inode has the name by then.  The content is a   *)
(* generation of keys, or nothing (0) before the write.                    *)
(***************************************************************************)
EXTENDS Handlers

CONSTANTS
  MaxKeys,     \* bound on the generations of keys made
  NoFile       \* a name no file has

ASSUME KeysAssumption ==
  /\ MaxKeys \in Nat \ {0}
  /\ NoFile \notin Nat

VARIABLES
  content,     \* content[i]: what inode i holds, 0 for nothing
  keyPath,     \* the inode of authority_keys.json
  tmpPath,     \* the inode of authority_keys.json.tmp
  signing,     \* Store.keys: the generation of keys in use
  listed,      \* Server.keys: the generation the country list shows
  smith,       \* smith[w]: where worker w is in its reset, and its locals
  made,        \* history: the last generation of keys made
  solo,        \* history: nobody was beside the last reset to start, nor beside
               \* an earlier one whose key file is still there
  unharmed     \* history: since the last reset or start that succeeded no reset
               \* failed

keysVars ==
  <<content, keyPath, tmpPath, signing, listed, smith, made, solo,
    unharmed>>

\* An inode is known by its number; numbers are not used again.
Inode == 1 .. Len(content)

Smith == [pc  : {"idle", "open", "fill", "rename", "sign", "list"},
          gen : Nat,       \* the keys the reset made
          fd  : Nat]       \* the inode it writes to

NotForging == [pc |-> "idle", gen |-> 0, fd |-> 0]

\* Names are of inodes, contents are generations that were made.
KeysTypeOK ==
  /\ content \in Seq(0 .. made)
  /\ keyPath \in Inode \cup {NoFile}
  /\ tmpPath \in Inode \cup {NoFile}
  /\ signing \in 1 .. made
  /\ listed \in 1 .. made
  /\ smith \in [Worker -> Smith]
  /\ made \in Nat
  /\ solo \in BOOLEAN
  /\ unharmed \in BOOLEAN

\* The first start makes the keys and their file.
KeysInit ==
  /\ content = <<1>>
  /\ keyPath = 1
  /\ tmpPath = NoFile
  /\ signing = 1
  /\ listed = 1
  /\ smith = [w \in Worker |-> NotForging]
  /\ made = 1
  /\ solo = TRUE
  /\ unharmed = TRUE

-----------------------------------------------------------------------------
(***************************************************************************)
(* RegenerateAuthorityKeys and saveToFile.                                 *)
(***************************************************************************)

\* Mutant of RemoveKeys: the key file is cut and then written in place.
RemoveKeysInPlace(w) ==
  /\ smith[w].pc = "idle"
  /\ made < MaxKeys
  /\ made' = made + 1
  /\ content' = Append(content, 0)
  /\ keyPath' = Len(content) + 1
  /\ smith' = [smith EXCEPT ![w] = [pc  |-> "open", gen |-> made + 1, fd |-> 0]]
  /\ solo' = (OthersIdle(smith, w) /\ (solo \/ keyPath' = NoFile))
  /\ UNCHANGED <<tmpPath, signing, listed, unharmed>>

\* Nobody looks whether the old file could be removed.
RemoveKeys(w) ==
  /\ smith[w].pc = "idle"
  /\ made < MaxKeys
  /\ made' = made + 1
  /\ keyPath' \in {NoFile} \cup (IF FaultyIO THEN {keyPath} ELSE {})
  /\ smith' = [smith EXCEPT ![w] = [pc  |-> "open", gen |-> made + 1, fd |-> 0]]
  /\ solo' = (OthersIdle(smith, w) /\ (solo \/ keyPath' = NoFile))
  /\ UNCHANGED <<content, tmpPath, signing, listed, unharmed>>

\* os.WriteFile creates the temporary file, or empties the one there is.
OpenTemporary(w) ==
  /\ smith[w].pc = "open"
  /\ IF tmpPath = NoFile
       THEN /\ content' = Append(content, 0)
            /\ tmpPath' = Len(content) + 1
            /\ smith' = [smith EXCEPT ![w].pc = "fill", ![w].fd = tmpPath']
       ELSE /\ content' = [content EXCEPT ![tmpPath] = 0]
            /\ smith' = [smith EXCEPT ![w].pc = "fill", ![w].fd = tmpPath]
            /\ UNCHANGED tmpPath
  /\ UNCHANGED <<keyPath, signing, listed, made, solo, unharmed>>

FillTemporary(w) ==
  /\ smith[w].pc = "fill"
  /\ content' = [content EXCEPT ![smith[w].fd] = smith[w].gen]
  /\ smith' = [smith EXCEPT ![w].pc = "rename"]
  /\ UNCHANGED <<keyPath, tmpPath, signing, listed, made, solo, unharmed>>

Fail(w) ==
  /\ smith' = [smith EXCEPT ![w] = NotForging]
  /\ unharmed' = FALSE

\* The reset is refused; the old key file is gone.
WriteTemporaryFails(w) ==
  /\ FaultyIO
  /\ smith[w].pc \in {"open", "fill"}
  /\ Fail(w)
  /\ UNCHANGED <<content, keyPath, tmpPath, signing, listed, made, solo>>

RenameTemporary(w) ==
  /\ smith[w].pc = "rename"
  /\ tmpPath # NoFile
  /\ keyPath' = tmpPath
  /\ tmpPath' = NoFile
  /\ smith' = [smith EXCEPT ![w].pc = "sign"]
  /\ UNCHANGED <<content, signing, listed, made, solo, unharmed>>

\* Another reset has renamed the temporary file, or the system refuses.
RenameFails(w) ==
  /\ smith[w].pc = "rename"
  /\ tmpPath = NoFile \/ FaultyIO
  /\ Fail(w)
  /\ UNCHANGED <<content, keyPath, tmpPath, signing, listed, made, solo>>

-----------------------------------------------------------------------------
(***************************************************************************)
(* The rest of the reset.                                                  *)
(***************************************************************************)

\* Mutant of UseKeys: the store goes on with the keys it has.
UseOldKeys(w) ==
  /\ smith[w].pc = "sign"
  /\ smith' = [smith EXCEPT ![w].pc = "list"]
  /\ UNCHANGED <<content, keyPath, tmpPath, signing, listed, made, solo,
                 unharmed>>

UseKeys(w) ==
  /\ smith[w].pc = "sign"
  /\ signing' = smith[w].gen
  /\ smith' = [smith EXCEPT ![w].pc = "list"]
  /\ UNCHANGED <<content, keyPath, tmpPath, listed, made, solo, unharmed>>

ListKeys(w) ==
  /\ smith[w].pc = "list"
  /\ listed' = smith[w].gen
  /\ unharmed' = TRUE
  /\ smith' = [smith EXCEPT ![w] = NotForging]
  /\ UNCHANGED <<content, keyPath, tmpPath, signing, made, solo>>

\* A file of the journal, the logs or the registry cannot be written.
ResetFails(w) ==
  /\ FaultyIO
  /\ smith[w].pc = "list"
  /\ Fail(w)
  /\ UNCHANGED <<content, keyPath, tmpPath, signing, listed, made, solo>>

-----------------------------------------------------------------------------
(***************************************************************************)
(* LoadOrCreateAuthorityKeys at the start of the process: there is one key *)
(* file or none, and a start that cannot save new keys is no start.        *)
(***************************************************************************)

KeysOnFile == keyPath # NoFile /\ content[keyPath] # 0

\* Mutant of LoadKeys: an empty key file is not noticed.
LoadAnyKeys ==
  /\ keyPath # NoFile
  /\ signing' = content[keyPath]
  /\ UNCHANGED <<content, keyPath, tmpPath, made>>

LoadKeys ==
  /\ KeysOnFile
  /\ signing' = content[keyPath]
  /\ UNCHANGED <<content, keyPath, tmpPath, made>>

\* Without a key file, or with an empty one, the process makes new keys.
CreateKeys ==
  /\ ~ KeysOnFile
  /\ made' = made + 1
  /\ content' = IF tmpPath = NoFile
                  THEN Append(content, made + 1)
                  ELSE [content EXCEPT ![tmpPath] = made + 1]
  /\ keyPath' = IF tmpPath = NoFile THEN Len(content) + 1 ELSE tmpPath
  /\ tmpPath' = NoFile
  /\ signing' = made + 1

RestartKeys ==
  /\ LoadKeys \/ CreateKeys
  /\ listed' = signing'
  /\ smith' = [w \in Worker |-> NotForging]
  /\ solo' = TRUE
  /\ unharmed' = TRUE

-----------------------------------------------------------------------------

KeysNext ==
  \/ \E w \in Worker :
       \/ RemoveKeys(w)          \/ OpenTemporary(w)   \/ FillTemporary(w)
       \/ WriteTemporaryFails(w) \/ RenameTemporary(w) \/ RenameFails(w)
       \/ UseKeys(w)             \/ ListKeys(w)        \/ ResetFails(w)
  \/ RestartKeys

KeysSpec == KeysInit /\ [][KeysNext]_keysVars

-----------------------------------------------------------------------------

\* Between requests the store signs with the keys of the file and the country
\* list shows them, unless two resets overlapped or a reset failed and none has
\* succeeded since, and no start either; crashes do no harm (persist.go 33-73,
\* 120-124, server.go 437-451).
KeysAgree ==
  NoneBusy(smith) /\ solo /\ unharmed =>
    /\ KeysOnFile
    /\ signing = content[keyPath]
    /\ listed = signing

\* As long as resets do not overlap there is a key file with keys or none, at
\* every moment of a reset, so that a start after a crash never finds an empty
\* one (persist.go 46, 67, 120-124).
KeyFileWhole == solo /\ keyPath # NoFile => content[keyPath] # 0

=============================================================================
