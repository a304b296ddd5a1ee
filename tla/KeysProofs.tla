----------------------------- MODULE KeysProofs -----------------------------
(***************************************************************************)
(* The key file and the keys in use, for any number of resets at once and  *)
(* any number of generations, with failures and restarts.                  *)
(*                                                                         *)
(* What makes it inductive is where the only reset under way has come to:  *)
(* the inode it writes still has the temporary name, what it renames holds *)
(* its keys, and the key file holds them afterwards.  The two names are    *)
(* never of one inode, so that cutting and writing the temporary file      *)
(* leaves the key file whole.                                              *)
(***************************************************************************)
EXTENDS Keys, TLAPS

\* A reset that runs has made its keys and writes to a file there is.
SmithsPlausible ==
  \A w \in Worker :
    /\ smith[w].pc # "idle" => smith[w].gen \in 1 .. made
    /\ smith[w].pc = "fill" => smith[w].fd \in Inode

\* The two names are of two inodes.
TwoFiles == keyPath # NoFile => keyPath # tmpPath

\* At most one reset runs.
AtMostOne ==
  \A w, v \in Worker : smith[w].pc # "idle" /\ smith[v].pc # "idle" => w = v

\* How far the only reset has come.
OnItsWay(w) ==
  /\ smith[w].pc = "fill" => smith[w].fd = tmpPath
  /\ smith[w].pc = "rename" =>
       tmpPath # NoFile /\ content[tmpPath] = smith[w].gen
  /\ smith[w].pc \in {"sign", "list"} =>
       keyPath # NoFile /\ content[keyPath] = smith[w].gen
  /\ smith[w].pc = "list" => signing = smith[w].gen

OneSmith == AtMostOne /\ \A w \in Worker : OnItsWay(w)

KeysInv ==
  /\ KeysTypeOK
  /\ SmithsPlausible
  /\ TwoFiles
  /\ solo => OneSmith
  /\ KeyFileWhole
  /\ KeysAgree

-----------------------------------------------------------------------------

\* The invariant holds in the initial state.
LEMMA KeysInvInit == KeysInit => KeysInv
<1> SUFFICES ASSUME KeysInit PROVE KeysInv
  OBVIOUS
<1> USE DEF KeysInit
<1>1. /\ content = <<1>> /\ Len(content) = 1 /\ content[1] = 1
      /\ keyPath = 1 /\ tmpPath = NoFile /\ keyPath # NoFile
      /\ signing = 1 /\ listed = 1 /\ made = 1
  BY KeysAssumption
<1>2. \A w \in Worker : smith[w].pc = "idle"
  BY DEF NotForging
<1>3. KeysTypeOK
  <2>1. NotForging \in Smith
    BY DEF NotForging, Smith
  <2>2. smith \in [Worker -> Smith]
    BY <2>1
  <2>3. content \in Seq(0 .. made)
    BY <1>1
  <2> QED
    BY <1>1, <2>2, <2>3 DEF KeysTypeOK, Inode
<1>4. SmithsPlausible /\ OneSmith
  BY <1>2 DEF SmithsPlausible, OneSmith, AtMostOne, OnItsWay
<1>5. TwoFiles /\ KeyFileWhole /\ KeysAgree
  BY <1>1 DEF TwoFiles, KeyFileWhole, KeysAgree, KeysOnFile
<1> QED
  BY <1>3, <1>4, <1>5 DEF KeysInv

\* What is left to show of a step of one reset.
LEMMA SmithStep ==
  ASSUME KeysInv, NEW w \in Worker, NEW s \in Smith,
         smith' = [smith EXCEPT ![w] = s],
         made' \in Nat, made <= made',
         content' \in Seq(0 .. made'), Len(content) <= Len(content'),
         keyPath' \in Inode' \cup {NoFile},
         tmpPath' \in Inode' \cup {NoFile},
         signing' \in 1 .. made', listed' \in 1 .. made',
         solo' \in BOOLEAN, unharmed' \in BOOLEAN,
         s.pc # "idle" => s.gen \in 1 .. made',
         s.pc = "fill" => s.fd \in Inode',
         TwoFiles',
         KeyFileWhole',
         solo' => \A v \in Worker \ {w} : smith[v].pc = "idle",
         solo' => OnItsWay(w)',
         KeysAgree'
  PROVE  KeysInv'
<1>1. smith \in [Worker -> Smith] /\ made \in Nat /\ Len(content) \in Nat
  BY DEF KeysInv, KeysTypeOK
<1>2. /\ smith' \in [Worker -> Smith]
      /\ smith'[w] = s
      /\ \A v \in Worker \ {w} : smith'[v] = smith[v]
  BY <1>1
<1>3. KeysTypeOK'
  BY <1>2 DEF KeysTypeOK
<1>4. SmithsPlausible'
  <2> SUFFICES ASSUME NEW v \in Worker
               PROVE  /\ smith'[v].pc # "idle" => smith'[v].gen \in 1 .. made'
                      /\ smith'[v].pc = "fill" => smith'[v].fd \in Inode'
    BY DEF SmithsPlausible
  <2>1. CASE v = w
    BY <2>1, <1>2
  <2>2. CASE v # w
    <3>1. /\ smith[v].pc # "idle" => smith[v].gen \in 1 .. made
          /\ smith[v].pc = "fill" => smith[v].fd \in 1 .. Len(content)
      BY DEF KeysInv, SmithsPlausible, Inode
    <3>2. Len(content') \in Nat
      OBVIOUS
    <3> QED
      BY <2>2, <3>1, <3>2, <1>1, <1>2 DEF Inode
  <2> QED
    BY <2>1, <2>2
<1>5. solo' => OneSmith'
  <2>1. solo' => AtMostOne'
    BY <1>2 DEF AtMostOne
  <2>2. ASSUME solo', NEW v \in Worker \ {w}
        PROVE  OnItsWay(v)'
    <3>1. smith'[v].pc = "idle"
      BY <2>2, <1>2
    <3> QED
      BY <3>1 DEF OnItsWay
  <2> QED
    BY <2>1, <2>2 DEF OneSmith
<1> QED
  BY <1>3, <1>4, <1>5 DEF KeysInv

\* The types of the state, and that a reset without company is alone and on its
\* way.
LEMMA SmithFacts ==
  ASSUME KeysInv, NEW w \in Worker
  PROVE  /\ made \in Nat
         /\ content \in Seq(0 .. made) /\ Len(content) \in Nat
         /\ keyPath \in Inode \cup {NoFile} /\ tmpPath \in Inode \cup {NoFile}
         /\ signing \in 1 .. made /\ listed \in 1 .. made
         /\ solo \in BOOLEAN /\ unharmed \in BOOLEAN
         /\ NotForging \in Smith /\ NotForging.pc = "idle"
         /\ smith \in [Worker -> Smith] /\ smith[w] \in Smith
         /\ NoFile \notin Inode
         /\ smith[w].pc # "idle" => smith[w].gen \in 1 .. made
         /\ smith[w].pc = "fill" => smith[w].fd \in Inode
         /\ solo => OnItsWay(w)
         /\ solo /\ smith[w].pc # "idle" =>
              \A v \in Worker \ {w} : smith[v].pc = "idle"
BY KeysAssumption DEF KeysInv, KeysTypeOK, SmithsPlausible, OneSmith, AtMostOne,
   Smith, NotForging, Inode

\* A reset starts: the key file is removed, or stays.
LEMMA RemoveKeysKeeps ==
  ASSUME KeysInv, NEW w \in Worker, RemoveKeys(w)
  PROVE  KeysInv'
<1> DEFINE s == [pc |-> "open", gen |-> made + 1, fd |-> 0]
<1>1. /\ smith' = [smith EXCEPT ![w] = s]
      /\ made' = made + 1
      /\ keyPath' = NoFile \/ keyPath' = keyPath
      /\ solo' = (OthersIdle(smith, w) /\ (solo \/ keyPath' = NoFile))
      /\ content' = content /\ tmpPath' = tmpPath
      /\ signing' = signing /\ listed' = listed /\ unharmed' = unharmed
  BY DEF RemoveKeys
<1>2. s \in Smith
  BY SmithFacts DEF Smith
<1>3. content' \in Seq(0 .. made')
  <2>1. 0 .. made \subseteq 0 .. made'
    BY <1>1, SmithFacts
  <2> QED
    BY <1>1, <2>1, SmithFacts
<1>4. TwoFiles'
  BY <1>1 DEF KeysInv, TwoFiles
<1>5. KeyFileWhole'
  BY <1>1 DEF KeysInv, KeyFileWhole
<1>6. ~ NoneBusy(smith)'
  BY <1>1, SmithFacts DEF NoneBusy
<1>7. OnItsWay(w)'
  BY <1>1, SmithFacts DEF OnItsWay
<1>8. KeysAgree'
  BY <1>6 DEF KeysAgree
<1>9. solo' \in BOOLEAN /\ (solo' => \A v \in Worker \ {w} : smith[v].pc = "idle")
  BY <1>1 DEF OthersIdle
<1>10. /\ signing' \in 1 .. made' /\ listed' \in 1 .. made'
       /\ keyPath' \in Inode' \cup {NoFile} /\ tmpPath' \in Inode' \cup {NoFile}
       /\ made' \in Nat /\ made <= made' /\ Len(content) <= Len(content')
       /\ unharmed' \in BOOLEAN /\ s.gen \in 1 .. made'
  BY <1>1, SmithFacts DEF Inode
<1> HIDE DEF s
<1>11. s.pc = "open"
  BY DEF s
<1> QED
  BY <1>1, <1>2, <1>3, <1>4, <1>5, <1>7, <1>8, <1>9, <1>10, <1>11, SmithStep

\* The temporary file is made, or emptied: it is not the key file.
LEMMA OpenTemporaryKeeps ==
  ASSUME KeysInv, NEW w \in Worker, OpenTemporary(w)
  PROVE  KeysInv'
<1>1. /\ smith[w].pc = "open"
      /\ keyPath' = keyPath /\ signing' = signing /\ listed' = listed
      /\ made' = made /\ solo' = solo /\ unharmed' = unharmed
  BY DEF OpenTemporary
<1>2. smith[w].gen \in 1 .. made /\ smith[w].gen \in Nat
  BY <1>1, SmithFacts DEF Smith
<1>3. PICK f \in Nat :
        /\ f \in 1 .. Len(content')
        /\ tmpPath' = f
        /\ smith' = [smith EXCEPT ![w] = [@ EXCEPT !.pc = "fill", !.fd = f]]
        /\ content' \in Seq(0 .. made) /\ Len(content) <= Len(content')
        /\ keyPath # NoFile => keyPath # f /\ content'[keyPath] = content[keyPath]
  <2>1. CASE tmpPath = NoFile
    <3> DEFINE f == Len(content) + 1
    <3>1. /\ content' = Append(content, 0)
          /\ tmpPath' = f
          /\ smith' = [smith EXCEPT ![w] = [@ EXCEPT !.pc = "fill", !.fd = f]]
      BY <2>1 DEF OpenTemporary
    <3>2. /\ content' \in Seq(0 .. made) /\ Len(content') = f
          /\ f \in Nat /\ f \in 1 .. Len(content') /\ Len(content) <= Len(content')
      BY <3>1, SmithFacts
    <3>3. keyPath # NoFile => keyPath \in 1 .. Len(content)
      BY SmithFacts DEF Inode
    <3>4. keyPath # NoFile => keyPath # f /\ content'[keyPath] = content[keyPath]
      BY <3>1, <3>3, SmithFacts
    <3> QED
      BY <3>1, <3>2, <3>4
  <2>2. CASE tmpPath # NoFile
    <3>1. /\ content' = [content EXCEPT ![tmpPath] = 0]
          /\ tmpPath' = tmpPath
          /\ smith' = [smith EXCEPT ![w] =
                         [@ EXCEPT !.pc = "fill", !.fd = tmpPath]]
      BY <2>2 DEF OpenTemporary
    <3>2. tmpPath \in Nat /\ tmpPath \in 1 .. Len(content)
      BY <2>2, SmithFacts DEF Inode
    <3>3. content' \in Seq(0 .. made) /\ Len(content') = Len(content)
      BY <3>1, <3>2, SmithFacts
    <3>4. keyPath # NoFile => keyPath # tmpPath
      BY DEF KeysInv, TwoFiles
    <3>5. keyPath # NoFile => content'[keyPath] = content[keyPath]
      BY <3>1, <3>4, SmithFacts DEF Inode
    <3>6. tmpPath \in 1 .. Len(content') /\ Len(content) <= Len(content')
      BY <3>2, <3>3, SmithFacts
    <3> QED
      BY <3>1, <3>2, <3>3, <3>4, <3>5, <3>6
  <2> QED
    BY <2>1, <2>2
<1> DEFINE s == [smith[w] EXCEPT !.pc = "fill", !.fd = f]
<1>4. /\ smith' = [smith EXCEPT ![w] = s]
      /\ s \in Smith /\ s.pc = "fill" /\ s.fd = f /\ s.gen = smith[w].gen
  BY <1>3, SmithFacts DEF Smith
<1> HIDE DEF s
<1>5. smith'[w] = s
  BY <1>4, SmithFacts
<1>6. TwoFiles'
  BY <1>1, <1>3 DEF TwoFiles
<1>7. KeyFileWhole'
  BY <1>1, <1>3 DEF KeysInv, KeyFileWhole
<1>8. OnItsWay(w)'
  BY <1>3, <1>4, <1>5 DEF OnItsWay
<1>9. KeysAgree'
  BY <1>4, <1>5 DEF KeysAgree, NoneBusy
<1>10. /\ keyPath' \in Inode' \cup {NoFile} /\ tmpPath' \in Inode' \cup {NoFile}
       /\ s.fd \in Inode' /\ s.gen \in 1 .. made'
       /\ content' \in Seq(0 .. made') /\ Len(content) <= Len(content')
       /\ made' \in Nat /\ made <= made'
  <2>1. Len(content') \in Nat
    BY <1>3
  <2> QED
    BY <1>1, <1>2, <1>3, <1>4, <2>1, SmithFacts DEF Inode
<1>11. solo' => \A v \in Worker \ {w} : smith[v].pc = "idle"
  BY <1>1, SmithFacts
<1> QED
  BY <1>1, <1>4, <1>6, <1>7, <1>8, <1>9, <1>10, <1>11, SmithFacts, SmithStep

\* The keys are written, to the temporary file or to one that was renamed.
LEMMA FillTemporaryKeeps ==
  ASSUME KeysInv, NEW w \in Worker, FillTemporary(w)
  PROVE  KeysInv'
<1> DEFINE s == [smith[w] EXCEPT !.pc = "rename"]
<1>1. /\ smith[w].pc = "fill"
      /\ content' = [content EXCEPT ![smith[w].fd] = smith[w].gen]
      /\ smith' = [smith EXCEPT ![w] = s]
      /\ keyPath' = keyPath /\ tmpPath' = tmpPath
      /\ signing' = signing /\ listed' = listed
      /\ made' = made /\ solo' = solo /\ unharmed' = unharmed
  BY DEF FillTemporary
<1>2. /\ smith[w].gen \in 1 .. made /\ smith[w].fd \in 1 .. Len(content)
      /\ smith[w].gen # 0
  BY <1>1, SmithFacts DEF Inode
<1>3. /\ content' \in Seq(0 .. made) /\ Len(content') = Len(content)
      /\ content'[smith[w].fd] = smith[w].gen
      /\ \A i \in 1 .. Len(content) :
           i # smith[w].fd => content'[i] = content[i]
  BY <1>1, <1>2, SmithFacts
<1>4. s \in Smith /\ s.pc = "rename" /\ s.gen = smith[w].gen
  BY SmithFacts DEF Smith
<1> HIDE DEF s
<1>5. smith'[w] = s
  BY <1>1, SmithFacts
<1>6. TwoFiles'
  BY <1>1 DEF KeysInv, TwoFiles
<1>7. KeyFileWhole'
  <2>1. keyPath # NoFile => keyPath \in 1 .. Len(content)
    BY SmithFacts DEF Inode
  <2>2. keyPath # NoFile => content'[keyPath] \in {content[keyPath], smith[w].gen}
    BY <1>3, <2>1
  <2> QED
    BY <1>1, <1>2, <2>2 DEF KeysInv, KeyFileWhole
<1>8. solo' => OnItsWay(w)'
  <2>1. solo => smith[w].fd = tmpPath
    BY <1>1, SmithFacts DEF OnItsWay
  <2>2. smith[w].fd # NoFile
    BY <1>2, SmithFacts DEF Inode
  <2> QED
    BY <1>1, <1>3, <1>4, <1>5, <2>1, <2>2 DEF OnItsWay
<1>9. KeysAgree'
  BY <1>4, <1>5 DEF KeysAgree, NoneBusy
<1>10. Inode' = Inode /\ Len(content) <= Len(content') /\ made <= made'
  BY <1>1, <1>3, SmithFacts DEF Inode
<1>11. solo' => \A v \in Worker \ {w} : smith[v].pc = "idle"
  BY <1>1, SmithFacts
<1> QED
  BY <1>1, <1>2, <1>3, <1>4, <1>6, <1>7, <1>8, <1>9, <1>10, <1>11, SmithFacts,
     SmithStep

\* The temporary file becomes the key file: alone, it holds the reset's keys.
LEMMA RenameTemporaryKeeps ==
  ASSUME KeysInv, NEW w \in Worker, RenameTemporary(w)
  PROVE  KeysInv'
<1> DEFINE s == [smith[w] EXCEPT !.pc = "sign"]
<1>1. /\ smith[w].pc = "rename" /\ tmpPath # NoFile
      /\ keyPath' = tmpPath /\ tmpPath' = NoFile
      /\ smith' = [smith EXCEPT ![w] = s]
      /\ content' = content /\ signing' = signing /\ listed' = listed
      /\ made' = made /\ solo' = solo /\ unharmed' = unharmed
  BY DEF RenameTemporary
<1>2. s \in Smith /\ s.pc = "sign" /\ s.gen = smith[w].gen
  BY SmithFacts DEF Smith
<1> HIDE DEF s
<1>3. smith'[w] = s
  BY <1>1, SmithFacts
<1>4. smith[w].gen \in 1 .. made /\ smith[w].gen # 0
  BY <1>1, SmithFacts
<1>5. solo => content[tmpPath] = smith[w].gen
  BY <1>1, SmithFacts DEF OnItsWay
<1>6. TwoFiles' /\ KeyFileWhole' /\ (solo' => OnItsWay(w)')
  BY <1>1, <1>2, <1>3, <1>4, <1>5 DEF TwoFiles, KeyFileWhole, OnItsWay
<1>7. KeysAgree'
  BY <1>2, <1>3 DEF KeysAgree, NoneBusy
<1>8. Inode' = Inode /\ Len(content) <= Len(content') /\ made <= made'
  BY <1>1, SmithFacts DEF Inode
<1>9. solo' => \A v \in Worker \ {w} : smith[v].pc = "idle"
  BY <1>1, SmithFacts
<1> QED
  BY <1>1, <1>2, <1>4, <1>6, <1>7, <1>8, <1>9, SmithFacts, SmithStep

\* The store, and then the handlers, take the keys of a reset.
LEMMA UseKeysKeeps ==
  ASSUME KeysInv, NEW w \in Worker, UseKeys(w)
  PROVE  KeysInv'
<1> DEFINE s == [smith[w] EXCEPT !.pc = "list"]
<1>1. /\ smith[w].pc = "sign"
      /\ signing' = smith[w].gen
      /\ smith' = [smith EXCEPT ![w] = s]
      /\ content' = content /\ keyPath' = keyPath /\ tmpPath' = tmpPath
      /\ listed' = listed /\ made' = made /\ solo' = solo
      /\ unharmed' = unharmed
  BY DEF UseKeys
<1>2. s \in Smith /\ s.pc = "list" /\ s.gen = smith[w].gen
  BY SmithFacts DEF Smith
<1> HIDE DEF s
<1>3. smith'[w] = s
  BY <1>1, SmithFacts
<1>4. smith[w].gen \in 1 .. made
  BY <1>1, SmithFacts
<1>5. TwoFiles' /\ KeyFileWhole'
  BY <1>1 DEF KeysInv, TwoFiles, KeyFileWhole
<1>6. solo' => OnItsWay(w)'
  <2>1. solo => keyPath # NoFile /\ content[keyPath] = smith[w].gen
    BY <1>1, SmithFacts DEF OnItsWay
  <2> QED
    BY <1>1, <1>2, <1>3, <2>1 DEF OnItsWay
<1>7. KeysAgree'
  BY <1>2, <1>3 DEF KeysAgree, NoneBusy
<1>8. Inode' = Inode /\ Len(content) <= Len(content') /\ made <= made'
  BY <1>1, SmithFacts DEF Inode
<1>9. solo' => \A v \in Worker \ {w} : smith[v].pc = "idle"
  BY <1>1, SmithFacts
<1> QED
  BY <1>1, <1>2, <1>4, <1>5, <1>6, <1>7, <1>8, <1>9, SmithFacts, SmithStep

\* The end of a reset.
LEMMA ListKeysKeeps ==
  ASSUME KeysInv, NEW w \in Worker, ListKeys(w)
  PROVE  KeysInv'
<1>1. /\ smith[w].pc = "list"
      /\ listed' = smith[w].gen /\ unharmed' = TRUE
      /\ smith' = [smith EXCEPT ![w] = NotForging]
      /\ content' = content /\ keyPath' = keyPath /\ tmpPath' = tmpPath
      /\ signing' = signing /\ made' = made /\ solo' = solo
  BY DEF ListKeys
<1>2. smith'[w] = NotForging
  BY <1>1, SmithFacts
<1>3. smith[w].gen \in 1 .. made /\ smith[w].gen # 0
  BY <1>1, SmithFacts
<1>4. TwoFiles' /\ KeyFileWhole'
  BY <1>1 DEF KeysInv, TwoFiles, KeyFileWhole
<1>5. OnItsWay(w)'
  BY <1>2, SmithFacts DEF OnItsWay
<1>6. KeysAgree'
  <2>1. solo => /\ keyPath # NoFile /\ content[keyPath] = smith[w].gen
                /\ signing = smith[w].gen
    BY <1>1, SmithFacts DEF OnItsWay
  <2> QED
    BY <1>1, <1>3, <2>1 DEF KeysAgree, KeysOnFile
<1>7. Inode' = Inode /\ Len(content) <= Len(content') /\ made <= made'
  BY <1>1, SmithFacts DEF Inode
<1>8. solo' => \A v \in Worker \ {w} : smith[v].pc = "idle"
  BY <1>1, SmithFacts
<1> QED
  BY <1>1, <1>3, <1>4, <1>5, <1>6, <1>7, <1>8, SmithFacts, SmithStep

\* A reset that fails, at whichever step.
LEMMA FailKeeps ==
  ASSUME KeysInv, NEW w \in Worker, Fail(w), smith[w].pc # "idle",
         UNCHANGED <<content, keyPath, tmpPath, signing, listed, made, solo>>
  PROVE  KeysInv'
<1>1. /\ smith' = [smith EXCEPT ![w] = NotForging] /\ unharmed' = FALSE
      /\ content' = content /\ keyPath' = keyPath /\ tmpPath' = tmpPath
      /\ signing' = signing /\ listed' = listed /\ made' = made /\ solo' = solo
  BY DEF Fail
<1>2. smith'[w] = NotForging
  BY <1>1, SmithFacts
<1>3. TwoFiles' /\ KeyFileWhole'
  BY <1>1 DEF KeysInv, TwoFiles, KeyFileWhole
<1>4. OnItsWay(w)'
  BY <1>2, SmithFacts DEF OnItsWay
<1>5. KeysAgree'
  BY <1>1 DEF KeysAgree
<1>6. Inode' = Inode /\ Len(content) <= Len(content') /\ made <= made'
  BY <1>1, SmithFacts DEF Inode
<1>7. solo' => \A v \in Worker \ {w} : smith[v].pc = "idle"
  BY <1>1, SmithFacts
<1> QED
  BY <1>1, <1>3, <1>4, <1>5, <1>6, <1>7, SmithFacts, SmithStep

\* A start finds whole keys, or makes them.
LEMMA RestartKeysKeeps ==
  ASSUME KeysInv, RestartKeys
  PROVE  KeysInv'
<1>1. /\ listed' = signing' /\ solo' = TRUE /\ unharmed' = TRUE
      /\ smith' = [v \in Worker |-> NotForging]
  BY DEF RestartKeys
<1>2. /\ made \in Nat /\ content \in Seq(0 .. made) /\ Len(content) \in Nat
      /\ keyPath \in Inode \cup {NoFile} /\ tmpPath \in Inode \cup {NoFile}
      /\ NoFile \notin Nat
  BY KeysAssumption DEF KeysInv, KeysTypeOK
<1>3. /\ made' \in Nat /\ content' \in Seq(0 .. made')
      /\ keyPath' \in 1 .. Len(content') /\ tmpPath' \in Inode' \cup {NoFile}
      /\ content'[keyPath'] = signing' /\ signing' \in 1 .. made'
      /\ keyPath' # tmpPath'
  <2>1. CASE LoadKeys
    <3>1. /\ keyPath # NoFile /\ content[keyPath] # 0
          /\ signing' = content[keyPath]
          /\ content' = content /\ keyPath' = keyPath /\ tmpPath' = tmpPath
          /\ made' = made
      BY <2>1 DEF LoadKeys, KeysOnFile
    <3>2. keyPath \in 1 .. Len(content)
      BY <1>2, <3>1 DEF Inode
    <3>3. content[keyPath] \in 0 .. made
      BY <1>2, <3>2
    <3>4. keyPath # tmpPath
      BY <3>1 DEF KeysInv, TwoFiles
    <3> QED
      BY <1>2, <3>1, <3>2, <3>3, <3>4 DEF Inode
  <2>2. CASE CreateKeys /\ tmpPath = NoFile
    <3>1. /\ made' = made + 1 /\ content' = Append(content, made + 1)
          /\ keyPath' = Len(content) + 1 /\ tmpPath' = NoFile
          /\ signing' = made + 1
      BY <2>2 DEF CreateKeys
    <3>2. content \in Seq(0 .. made + 1) /\ made + 1 \in 0 .. made + 1
      <4>1. 0 .. made \subseteq 0 .. made + 1
        BY <1>2
      <4> QED
        BY <1>2, <4>1
    <3>3. content' \in Seq(0 .. made + 1) /\ Len(content') = Len(content) + 1
      BY <3>1, <3>2
    <3>4. content'[Len(content) + 1] = made + 1
      BY <1>2, <3>1
    <3> QED
      BY <1>2, <3>1, <3>3, <3>4
  <2>3. CASE CreateKeys /\ tmpPath # NoFile
    <3>1. /\ made' = made + 1
          /\ content' = [content EXCEPT ![tmpPath] = made + 1]
          /\ keyPath' = tmpPath /\ tmpPath' = NoFile
          /\ signing' = made + 1
      BY <2>3 DEF CreateKeys
    <3>2. content \in Seq(0 .. made + 1) /\ made + 1 \in 0 .. made + 1
      <4>1. 0 .. made \subseteq 0 .. made + 1
        BY <1>2
      <4> QED
        BY <1>2, <4>1
    <3>3. tmpPath \in 1 .. Len(content)
      BY <1>2, <2>3 DEF Inode
    <3>4. /\ content' \in Seq(0 .. made + 1) /\ Len(content') = Len(content)
          /\ content'[tmpPath] = made + 1
      BY <3>1, <3>2, <3>3
    <3> QED
      BY <1>2, <3>1, <3>3, <3>4, <2>3
  <2> QED
    BY <2>1, <2>2, <2>3 DEF RestartKeys
<1>4. \A v \in Worker : smith'[v] = NotForging
  BY <1>1
<1>5. KeysTypeOK'
  <2>1. NotForging \in Smith
    BY DEF NotForging, Smith
  <2>2. smith' \in [Worker -> Smith]
    BY <1>1, <2>1
  <2> QED
    BY <1>1, <1>3, <2>2 DEF KeysTypeOK, Inode
<1>6. SmithsPlausible' /\ OneSmith'
  BY <1>4 DEF SmithsPlausible, OneSmith, AtMostOne, OnItsWay, NotForging
<1>7. TwoFiles'
  BY <1>3 DEF TwoFiles
<1>8. Len(content') \in Nat
  BY <1>3
<1>9. keyPath' # NoFile /\ content'[keyPath'] # 0
  BY <1>2, <1>3, <1>8
<1>10. KeyFileWhole' /\ KeysAgree'
  BY <1>1, <1>3, <1>9 DEF KeyFileWhole, KeysAgree, KeysOnFile
<1> QED
  BY <1>5, <1>6, <1>7, <1>10 DEF KeysInv

\* Every step keeps the invariant.
LEMMA KeysInvNext == KeysInv /\ [KeysNext]_keysVars => KeysInv'
<1> SUFFICES ASSUME KeysInv, [KeysNext]_keysVars
             PROVE  KeysInv'
  OBVIOUS
<1>1. ASSUME NEW w \in Worker, WriteTemporaryFails(w)
      PROVE  KeysInv'
  BY <1>1, FailKeeps DEF WriteTemporaryFails
<1>2. ASSUME NEW w \in Worker, RenameFails(w)
      PROVE  KeysInv'
  BY <1>2, FailKeeps DEF RenameFails
<1>3. ASSUME NEW w \in Worker, ResetFails(w)
      PROVE  KeysInv'
  BY <1>3, FailKeeps DEF ResetFails
<1>4. CASE UNCHANGED keysVars
  BY <1>4 DEF keysVars, KeysInv, KeysTypeOK, Inode, SmithsPlausible, TwoFiles,
     OneSmith, AtMostOne, OnItsWay, KeyFileWhole, KeysAgree, KeysOnFile, NoneBusy
<1> QED
  BY <1>1, <1>2, <1>3, <1>4, RemoveKeysKeeps, OpenTemporaryKeeps,
     FillTemporaryKeeps, RenameTemporaryKeeps, UseKeysKeeps, ListKeysKeeps,
     RestartKeysKeeps DEF KeysNext

\* The invariant always holds.
LEMMA KeysInvAlways == KeysSpec => []KeysInv
BY KeysInvInit, KeysInvNext, PTL DEF KeysSpec

-----------------------------------------------------------------------------

\* Every name of a file is of an inode or of none, and every reset is at one of
\* its steps (persist.go 33-125, server.go 437-451).
THEOREM KeysTypeCorrect == KeysSpec => []KeysTypeOK
<1>1. KeysInv => KeysTypeOK
  BY DEF KeysInv
<1> QED
  BY <1>1, KeysInvAlways, PTL

\* The key file holds keys whenever there is one and resets do not overlap, after
\* a crash at any step of a reset too: it is never a part of a file (persist.go
\* 46, 67, 103-125).
THEOREM KeyFileWholeAlways == KeysSpec => []KeyFileWhole
<1>1. KeysInv => KeyFileWhole
  BY DEF KeysInv
<1> QED
  BY <1>1, KeysInvAlways, PTL

\* The key file, the keys in use and the keys listed agree between requests, as
\* long as resets do not overlap and the last one succeeded (persist.go 33-73,
\* 103-125, server.go 437-451).
THEOREM KeysAgreeAlways == KeysSpec => []KeysAgree
<1>1. KeysInv => KeysAgree
  BY DEF KeysInv
<1> QED
  BY <1>1, KeysInvAlways, PTL

=============================================================================
