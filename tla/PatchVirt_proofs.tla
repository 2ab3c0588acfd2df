--------------------------- MODULE PatchVirt_proofs ---------------------------
(***************************************************************************)
(* The patch script on any tree that earlier runs have left, for any       *)
(* upstream version and any number of kills, wherever writes are cut.  The *)
(* argument is about texts: in each one a test tells whether its edit is   *)
(* needed, and what passes the tests has everything that they look for.    *)
(***************************************************************************)
EXTENDS PatchVirt, TLAPS

LEMMA Places ==
  /\ DOMAIN Order = 1..5 /\ Len(Order) = 5
  /\ \A x, y \in 1..5 : Order[x] = Order[y] => x = y
  /\ \A x \in 1..5 : Order[x] \in Files
BY DEF Order, Files

LEMMA FileNames ==
  Files = {"virt.h", "virt.c", "misc/Kconfig", "arm/Kconfig", "meson.build"}
<1>1. Files = {Order[x] : x \in 1..5}
  BY Places DEF Files
<1>2. /\ Order[1] = "virt.h" /\ Order[2] = "virt.c" /\ Order[3] = "misc/Kconfig"
      /\ Order[4] = "arm/Kconfig" /\ Order[5] = "meson.build"
  BY DEF Order
<1>3. 1..5 = {1, 2, 3, 4, 5}
  OBVIOUS
<1>4. QED
  BY <1>1, <1>2, <1>3

\* The edits of each file, one by one.
LEMMA EditsOfFiles ==
  /\ Edits["virt.h"] = {[marker |-> "enum", words |-> {"enum"}, adds |-> {"enum"}]}
  /\ Edits["virt.c"] =
       {[marker |-> "memmap", words |-> {"memmap", "fn"}, adds |-> {"memmap"}],
        [marker |-> "fn", words |-> {"fn"}, adds |-> {"fn", "call"}]}
  /\ Edits["misc/Kconfig"] =
       {[marker |-> "config", words |-> {"config"}, adds |-> {"config"}]}
  /\ Edits["arm/Kconfig"] =
       {[marker |-> "select", words |-> {"select"}, adds |-> {"select"}]}
  /\ Edits["meson.build"] =
       {[marker |-> "files", words |-> {"files"}, adds |-> {"files"}]}
BY FileNames DEF Edits

\* An edit adds what it looks for.
LEMMA MarkersAdded ==
  ASSUME NEW f \in Files, NEW e \in Edits[f]
  PROVE  /\ e.marker \in e.adds /\ e.adds \subseteq PiecesOf(f)
         /\ e.marker \in e.words /\ e.words \subseteq PiecesOf(f)
<1>1. e.adds \subseteq PiecesOf(f)
  BY DEF PiecesOf
<1>2. e.marker \in e.adds /\ e.marker \in e.words
  BY FileNames, EditsOfFiles
<1>3. e.words \subseteq PiecesOf(f)
  <2>1. CASE f = "virt.c"
    <3>1. e.words \subseteq {"memmap", "fn"}
      BY <2>1, EditsOfFiles
    <3>2. {"memmap", "fn"} \subseteq PiecesOf(f)
      BY <2>1, EditsOfFiles DEF PiecesOf
    <3>3. QED
      BY <3>1, <3>2
  <2>2. CASE f # "virt.c"
    <3>1. f \in {"virt.h", "misc/Kconfig", "arm/Kconfig", "meson.build"}
      BY <2>2, FileNames
    <3>2. \/ e = [marker |-> "enum", words |-> {"enum"}, adds |-> {"enum"}]
          \/ e = [marker |-> "config", words |-> {"config"}, adds |-> {"config"}]
          \/ e = [marker |-> "select", words |-> {"select"}, adds |-> {"select"}]
          \/ e = [marker |-> "files", words |-> {"files"}, adds |-> {"files"}]
      BY <3>1, EditsOfFiles
    <3>3. e.words = e.adds
      BY <3>2
    <3>4. QED
      BY <1>1, <3>3
  <2>3. QED
    BY <2>1, <2>2
<1>4. QED
  BY <1>1, <1>2, <1>3

LEMMA PiecesOfFiles ==
  /\ PiecesOf("virt.h") = {"enum"}
  /\ PiecesOf("virt.c") = {"memmap", "fn", "call"}
  /\ PiecesOf("misc/Kconfig") = {"config"}
  /\ PiecesOf("arm/Kconfig") = {"select"}
  /\ PiecesOf("meson.build") = {"files"}
<1>1. PiecesOf("virt.h") = {"enum"}
  BY EditsOfFiles DEF PiecesOf
<1>2. PiecesOf("virt.c") = {"memmap", "fn", "call"}
  BY EditsOfFiles DEF PiecesOf
<1>3. PiecesOf("misc/Kconfig") = {"config"}
  BY EditsOfFiles DEF PiecesOf
<1>4. PiecesOf("arm/Kconfig") = {"select"}
  BY EditsOfFiles DEF PiecesOf
<1>5. PiecesOf("meson.build") = {"files"}
  BY EditsOfFiles DEF PiecesOf
<1>6. QED
  BY <1>1, <1>2, <1>3, <1>4, <1>5

-----------------------------------------------------------------------------
(***************************************************************************)
(* Texts                                                                   *)
(***************************************************************************)

\* Nothing is there twice; without what an edit looks for nothing that has its
\* words and none of its pieces is there; and with it, in a text that is whole,
\* all of its pieces are.
TextOK(f, t) ==
  /\ t \in Text(f)
  /\ \A p \in PiecesOf(f) : t.has[p] \in {0, 1}
  /\ \A e \in Edits[f] :
       t.has[e.marker] = 0 => \A p \in e.adds \cup e.words : t.has[p] = 0
  /\ t.whole =>
       \A e \in Edits[f] : t.has[e.marker] = 1 => \A p \in e.adds : t.has[p] = 1

\* What a run leaves of a file that it has been through.
Settled(f, t) ==
  /\ \A e \in Edits[f] : t.has[e.marker] = 1
  /\ t.whole => \A p \in PiecesOf(f) : t.has[p] = 1

\* So a test finds an edit missing exactly when its marker is.
LEMMA TestsTell ==
  ASSUME NEW f \in Files, NEW t, TextOK(f, t)
  PROVE  Missing(f, t) = {e \in Edits[f] : t.has[e.marker] = 0}
BY MarkersAdded DEF Missing, TextOK

LEMMA PristineText ==
  ASSUME NEW f \in Files
  PROVE  TextOK(f, Pristine(f))
<1>1. \A p \in PiecesOf(f) : Pristine(f).has[p] = 0
  BY DEF Pristine
<1>2. Pristine(f) \in Text(f) /\ Pristine(f).whole = TRUE
  BY DEF Pristine, Text
<1>3. \A e \in Edits[f] : e.marker \in PiecesOf(f) /\ e.adds \cup e.words \subseteq PiecesOf(f)
  BY MarkersAdded
<1>4. QED
  BY <1>1, <1>2, <1>3 DEF TextOK

LEMMA EmptyText ==
  ASSUME NEW f \in Files
  PROVE  TextOK(f, Empty(f))
<1>1. \A p \in PiecesOf(f) : Empty(f).has[p] = 0
  BY DEF Empty
<1>2. Empty(f) \in Text(f) /\ Empty(f).whole = FALSE
  BY DEF Empty, Text
<1>3. \A e \in Edits[f] : e.marker \in PiecesOf(f) /\ e.adds \cup e.words \subseteq PiecesOf(f)
  BY MarkersAdded
<1>4. QED
  BY <1>1, <1>2, <1>3 DEF TextOK

\* A beginning has no piece of an edit without what the edit looks for.
LEMMA BeginningsInOrder ==
  ASSUME NEW f \in Files, NEW b \in Beginnings(f), NEW e \in Edits[f],
         NEW p \in (e.adds \cup e.words) \cap b.pieces
  PROVE  \/ e.marker \in b.pieces
         \/ f = "virt.c" /\ b.pieces = {"memmap"}
<1>1. CASE f = "virt.c"
  <2>1. b.pieces \in {{}, {"memmap"}, {"memmap", "fn"}, {"memmap", "fn", "call"}}
    BY <1>1, PiecesOfFiles DEF Beginnings, Beginning
  <2>2. e.marker \in {"memmap", "fn"}
    BY <1>1, EditsOfFiles
  <2>3. QED
    BY <1>1, <2>1, <2>2
<1>2. CASE f # "virt.c"
  <2>1. e.marker \in PiecesOf(f)
    BY MarkersAdded
  <2>2. b.pieces \in {{}, PiecesOf(f)}
    BY <1>2, FileNames, PiecesOfFiles DEF Beginnings, Beginning
  <2>3. QED
    BY <2>1, <2>2
<1>3. QED
  BY <1>1, <1>2

\* The beginning of a text.
LEMMA PrefixText ==
  ASSUME NEW f \in Files, NEW t, TextOK(f, t), NEW u \in Prefixes(f, t)
  PROVE  TextOK(f, u)
<1>1. PICK b \in Beginnings(f) :
        u = [has |-> [p \in PiecesOf(f) |-> IF p \in b.pieces THEN t.has[p] ELSE 0],
             anchors |-> t.anchors \cap b.anchors, whole |-> FALSE]
  BY DEF Prefixes
<1>2. /\ \A p \in PiecesOf(f) : u.has[p] = IF p \in b.pieces THEN t.has[p] ELSE 0
      /\ u.whole = FALSE
  BY <1>1
<1>3. u \in Text(f)
  <2>1. \A p \in PiecesOf(f) : t.has[p] \in Nat
    BY DEF TextOK, Text
  <2>2. [p \in PiecesOf(f) |-> IF p \in b.pieces THEN t.has[p] ELSE 0] \in [PiecesOf(f) -> Nat]
    BY <2>1
  <2>3. t.anchors \cap b.anchors \in SUBSET PiecesOf(f)
    BY DEF TextOK, Text
  <2>4. QED
    BY <1>1, <2>2, <2>3 DEF Text
<1>4. \A p \in PiecesOf(f) : u.has[p] \in {0, 1}
  BY <1>2 DEF TextOK
<1>5. ASSUME NEW e \in Edits[f], u.has[e.marker] = 0, NEW p \in e.adds \cup e.words
      PROVE  u.has[p] = 0
  <2>1. e.marker \in PiecesOf(f) /\ p \in PiecesOf(f)
    BY MarkersAdded
  <2>2. CASE p \notin b.pieces
    BY <1>2, <2>1, <2>2
  <2>3. CASE p \in b.pieces /\ e.marker \in b.pieces
    <3>1. t.has[e.marker] = 0
      BY <1>2, <1>5, <2>1, <2>3
    <3>2. t.has[p] = 0
      BY <1>5, <3>1 DEF TextOK
    <3>3. QED
      BY <1>2, <2>1, <3>2
  <2>4. CASE p \in b.pieces /\ e.marker \notin b.pieces
    <3>1. f = "virt.c" /\ b.pieces = {"memmap"} /\ p = "memmap"
      BY <1>5, <2>4, BeginningsInOrder
    <3>2. e.marker # "memmap"
      BY <2>4, <3>1
    <3>3. e.adds \cup e.words = {"fn", "call"}
      BY <3>1, <3>2, EditsOfFiles
    <3>4. QED
      BY <1>5, <3>1, <3>3
  <2>5. QED
    BY <2>2, <2>3, <2>4
<1>6. QED
  BY <1>2, <1>3, <1>4, <1>5 DEF TextOK

\* Whatever has passed the tests for anchors has what is looked for when the
\* edits are in, and is complete unless it was cut; and nothing went in twice.
LEMMA InsertedText ==
  ASSUME NEW f \in Files, NEW t, TextOK(f, t), CanInsert(f, t)
  PROVE  TextOK(f, Inserted(f, t)) /\ Settled(f, Inserted(f, t))
<1> DEFINE u == Inserted(f, t)
<1>1. /\ \A p \in PiecesOf(f) :
           u.has[p] = IF p \in NeededPieces(f, t) THEN t.has[p] + 1 ELSE t.has[p]
      /\ u.anchors = t.anchors /\ u.whole = t.whole
      /\ u = [has |-> u.has, anchors |-> t.anchors, whole |-> t.whole]
      /\ u.has = [p \in PiecesOf(f) |->
                    IF p \in NeededPieces(f, t) THEN t.has[p] + 1 ELSE t.has[p]]
  <2>1. NeededPieces(f, t) \cap t.anchors = NeededPieces(f, t)
    BY DEF CanInsert
  <2>2. t = [has |-> t.has, anchors |-> t.anchors, whole |-> t.whole]
    BY DEF TextOK, Text
  <2>3. u = [t EXCEPT !.has = [p \in PiecesOf(f) |->
                IF p \in NeededPieces(f, t) THEN t.has[p] + 1 ELSE t.has[p]]]
    BY <2>1 DEF Inserted
  <2>4. QED
    BY <2>2, <2>3
<1> HIDE DEF u
<1>2. \A e \in Edits[f] : e.marker \in PiecesOf(f) /\ e.adds \subseteq PiecesOf(f)
                          /\ e.marker \in e.adds
  BY MarkersAdded
<1>3. ASSUME NEW p \in NeededPieces(f, t)
      PROVE  p \in PiecesOf(f) /\ t.has[p] = 0 /\ u.has[p] = 1
  <2>1. PICK e \in Edits[f] : t.has[e.marker] = 0 /\ p \in e.adds
    BY TestsTell DEF NeededPieces
  <2>2. p \in PiecesOf(f) /\ t.has[p] = 0
    BY <1>2, <2>1 DEF TextOK
  <2>3. QED
    BY <1>1, <2>2
<1>4. ASSUME NEW p \in PiecesOf(f) \ NeededPieces(f, t)
      PROVE  u.has[p] = t.has[p] /\ t.has[p] \in {0, 1}
  BY <1>1 DEF TextOK
<1>5. \A e \in Edits[f] : u.has[e.marker] = 1
  <2> SUFFICES ASSUME NEW e \in Edits[f] PROVE u.has[e.marker] = 1
    OBVIOUS
  <2>1. CASE t.has[e.marker] = 0
    <3>1. e.marker \in NeededPieces(f, t)
      BY <1>2, <2>1, TestsTell DEF NeededPieces
    <3>2. QED
      BY <1>3, <3>1
  <2>2. CASE t.has[e.marker] # 0
    <3>1. t.has[e.marker] \in {0, 1} /\ e.marker \in PiecesOf(f)
      BY <1>2 DEF TextOK
    <3>2. e.marker \notin NeededPieces(f, t)
      BY <1>3, <2>2
    <3>3. QED
      BY <1>4, <2>2, <3>1, <3>2
  <2>3. QED
    BY <2>1, <2>2
<1>6. ASSUME t.whole, NEW p \in PiecesOf(f) PROVE u.has[p] = 1
  <2>1. CASE p \in NeededPieces(f, t)
    BY <1>3, <2>1
  <2>2. CASE p \notin NeededPieces(f, t)
    <3>1. PICK e \in Edits[f] : p \in e.adds
      BY DEF PiecesOf
    <3>2. t.has[e.marker] # 0
      BY <2>2, <3>1, TestsTell DEF NeededPieces
    <3>3. t.has[e.marker] = 1
      BY <1>2, <3>2 DEF TextOK
    <3>4. t.has[p] = 1
      BY <1>6, <3>1, <3>3 DEF TextOK
    <3>5. QED
      BY <1>4, <2>2, <3>4
  <2>3. QED
    BY <2>1, <2>2
<1>7. u \in Text(f)
  <2>1. u.has \in [PiecesOf(f) -> Nat]
    BY <1>1 DEF TextOK
  <2>2. t.anchors \in SUBSET PiecesOf(f) /\ t.whole \in BOOLEAN
    BY DEF TextOK, Text
  <2>3. [has |-> u.has, anchors |-> t.anchors, whole |-> t.whole] \in Text(f)
    BY <2>1, <2>2 DEF Text
  <2>4. QED
    BY <1>1, <2>3
<1>8. \A p \in PiecesOf(f) : u.has[p] \in {0, 1}
  BY <1>3, <1>4
<1>9. TextOK(f, u)
  BY <1>1, <1>2, <1>5, <1>6, <1>7, <1>8 DEF TextOK
<1>10. Settled(f, u)
  BY <1>1, <1>5, <1>6 DEF Settled
<1>11. QED
  BY <1>9, <1>10 DEF u

\* A text in which nothing is missing needs no edit.
LEMMA NothingMissing ==
  ASSUME NEW f \in Files, NEW t, TextOK(f, t), Missing(f, t) = {}
  PROVE  Settled(f, t)
<1>1. \A e \in Edits[f] : t.has[e.marker] = 1
  BY MarkersAdded, TestsTell DEF TextOK
<1>2. ASSUME t.whole, NEW p \in PiecesOf(f) PROVE t.has[p] = 1
  <2>1. PICK e \in Edits[f] : p \in e.adds
    BY DEF PiecesOf
  <2>2. QED
    BY <1>1, <1>2, <2>1 DEF TextOK
<1>3. QED
  BY <1>1, <1>2 DEF Settled
-----------------------------------------------------------------------------
(***************************************************************************)
(* Runs                                                                    *)
(***************************************************************************)
Reached(j) == Settled(Order[j], tree[Order[j]])

\* The script is past the copy, and all files before the one at hand are done.
PatchInv ==
  /\ upstream \in Upstreams
  /\ tree = [f \in Files |-> tree[f]]
  /\ \A f \in Files : TextOK(f, tree[f])
  /\ device \in {"absent", "part", "whole"}
  /\ pc \in {"start", "copy", "read", "patch", "open", "write", "done", "exit"}
  /\ i \in 1..5 /\ kills \in 0..MaxKills
  /\ pc \in {"read", "patch", "open", "write", "done"} => device = "whole"
  /\ pc = "patch" => text = tree[Order[i]]
  /\ pc \in {"open", "write"} => TextOK(Order[i], text) /\ Settled(Order[i], text)
  /\ pc \in {"read", "patch", "open", "write"} =>
       \A j \in 1..5 : j < i => Reached(j)
  /\ pc = "done" => \A j \in 1..5 : Reached(j)

LEMMA PatchInitInv == PatchInit => PatchInv
<1> SUFFICES ASSUME PatchInit PROVE PatchInv
  OBVIOUS
<1>1. /\ upstream \in Upstreams /\ tree = [f \in Files |-> Pristine(f)]
      /\ device = "absent" /\ pc = "start" /\ i = 1 /\ kills = 0
  BY DEF PatchInit
<1>2. \A f \in Files : TextOK(f, tree[f])
  BY <1>1, PristineText
<1>3. 0 \in 0..MaxKills
  BY UpstreamAssumption
<1>4. tree = [f \in Files |-> tree[f]]
  BY <1>1
<1>5. QED
  BY <1>1, <1>2, <1>3, <1>4 DEF PatchInv

\* A text that goes to the file at hand leaves the other files as they are.
LEMMA TreeAfter ==
  ASSUME PatchInv, NEW t, TextOK(Order[i], t), tree' = [tree EXCEPT ![Order[i]] = t]
  PROVE  /\ tree' = [f \in Files |-> tree'[f]]
         /\ \A f \in Files : TextOK(f, tree'[f])
         /\ tree'[Order[i]] = t
         /\ \A j \in 1..5 : j # i => tree'[Order[j]] = tree[Order[j]]
<1>1. Order[i] \in Files /\ tree = [f \in Files |-> tree[f]]
  BY Places DEF PatchInv
<1>2. \A f \in Files : tree'[f] = IF f = Order[i] THEN t ELSE tree[f]
  BY <1>1
<1>3. tree' = [f \in Files |-> tree'[f]]
  BY <1>1
<1>4. \A f \in Files : TextOK(f, tree'[f])
  BY <1>2 DEF PatchInv
<1>5. \A j \in 1..5 : j # i => Order[j] \in Files /\ Order[j] # Order[i]
  BY Places DEF PatchInv
<1>6. QED
  BY <1>1, <1>2, <1>3, <1>4, <1>5

\* Going on from a file that is done.
LEMMA NextFileInv ==
  ASSUME NextFile, i \in 1..5, NEW ended, \A j \in 1..5 : j < i => j \in ended,
         i \in ended
  PROVE  /\ i' \in 1..5 /\ pc' \in {"read", "done"}
         /\ upstream' = upstream /\ kills' = kills
         /\ pc' = "read" => \A j \in 1..5 : j < i' => j \in ended
         /\ pc' = "done" => \A j \in 1..5 : j \in ended
<1>1. CASE i < 5
  <2>1. i' = i + 1 /\ pc' = "read" /\ upstream' = upstream /\ kills' = kills
    BY <1>1, Places DEF NextFile, Goto
  <2>2. QED
    BY <1>1, <2>1
<1>2. CASE ~(i < 5)
  <2>1. i' = i /\ pc' = "done" /\ upstream' = upstream /\ kills' = kills
    BY <1>2, Places DEF NextFile, Goto
  <2>2. i = 5
    BY <1>2
  <2>3. QED
    BY <2>1, <2>2
<1>3. QED
  BY <1>1, <1>2

LEMMA CopyInv ==
  ASSUME PatchInv, CopyDevice
  PROVE  PatchInv'
<1>1. CASE pc = "start" /\ device' = "part" /\ Goto("copy") /\ UNCHANGED <<tree, i, text>>
  BY <1>1 DEF PatchInv, Goto
<1>2. CASE pc = "copy" /\ device' = "whole" /\ Goto("read") /\ i' = 1
           /\ UNCHANGED <<tree, text>>
  <2>1. \A j \in 1..5 : ~(j < i')
    BY <1>2
  <2>2. QED
    BY <1>2, <2>1 DEF PatchInv, Goto
<1>3. QED
  BY <1>1, <1>2 DEF CopyDevice

LEMMA ReadTextInv ==
  ASSUME PatchInv, ReadText
  PROVE  PatchInv'
BY DEF PatchInv, ReadText, Goto, Reached

LEMMA PatchTextInv ==
  ASSUME PatchInv, PatchText
  PROVE  PatchInv'
<1> DEFINE f == Order[i]
<1>1. /\ pc = "patch" /\ f \in Files /\ text = tree[f] /\ TextOK(f, text)
      /\ tree' = tree /\ device' = device /\ device = "whole" /\ i \in 1..5
      /\ \A j \in 1..5 : j < i => Reached(j)
  BY Places DEF PatchInv, PatchText
<1>2. CASE ~CanInsert(f, text) /\ Goto("exit") /\ UNCHANGED <<text, i>>
  BY <1>1, <1>2 DEF PatchInv, Goto
<1>3. CASE /\ CanInsert(f, text) /\ MustWrite(f, text)
           /\ text' = Inserted(f, text) /\ Goto("open") /\ UNCHANGED i
  <2>1. TextOK(f, text') /\ Settled(f, text')
    BY <1>1, <1>3, InsertedText
  <2>2. \A j \in 1..5 : Reached(j)' <=> Reached(j)
    BY <1>1 DEF Reached
  <2>3. QED
    BY <1>1, <1>3, <2>1, <2>2 DEF PatchInv, Goto
<1>4. CASE CanInsert(f, text) /\ ~MustWrite(f, text) /\ NextFile /\ UNCHANGED text
  <2>1. Missing(f, text) = {}
    BY <1>4 DEF MustWrite
  <2>2. Reached(i)
    BY <1>1, <1>4, <2>1, NothingMissing DEF Reached
  <2>3. /\ i' \in 1..5 /\ pc' \in {"read", "done"}
        /\ upstream' = upstream /\ kills' = kills
        /\ pc' = "read" => \A j \in 1..5 : j < i' => Reached(j)
        /\ pc' = "done" => \A j \in 1..5 : Reached(j)
    <3> DEFINE ended == {j \in 1..5 : Reached(j)}
    <3>1. (\A j \in 1..5 : j < i => j \in ended) /\ i \in ended
      BY <1>1, <2>2
    <3> HIDE DEF ended
    <3>2. /\ i' \in 1..5 /\ pc' \in {"read", "done"}
          /\ upstream' = upstream /\ kills' = kills
          /\ pc' = "read" => \A j \in 1..5 : j < i' => j \in ended
          /\ pc' = "done" => \A j \in 1..5 : j \in ended
      BY <1>1, <1>4, <3>1, NextFileInv
    <3>3. QED
      BY <3>2 DEF ended
  <2>4. \A j \in 1..5 : Reached(j)' <=> Reached(j)
    BY <1>1 DEF Reached
  <2>5. QED
    BY <1>1, <2>3, <2>4 DEF PatchInv
<1>5. QED
  BY <1>2, <1>3, <1>4 DEF PatchText

LEMMA OpenTextInv ==
  ASSUME PatchInv, OpenText
  PROVE  PatchInv'
<1>1. /\ pc = "open" /\ tree' = [tree EXCEPT ![Order[i]] = Empty(Order[i])]
      /\ pc' = "write" /\ upstream' = upstream /\ kills' = kills
      /\ device' = device /\ i' = i /\ text' = text
  BY DEF OpenText, Goto
<1>2. TextOK(Order[i], Empty(Order[i]))
  BY Places, EmptyText DEF PatchInv
<1>3. /\ tree' = [f \in Files |-> tree'[f]]
      /\ \A f \in Files : TextOK(f, tree'[f])
      /\ \A j \in 1..5 : j # i => tree'[Order[j]] = tree[Order[j]]
  BY <1>1, <1>2, TreeAfter
<1>4. \A j \in 1..5 : j < i => Reached(j)'
  BY <1>1, <1>3 DEF PatchInv, Reached
<1>5. QED
  BY <1>1, <1>3, <1>4 DEF PatchInv

LEMMA WritePartInv ==
  ASSUME PatchInv, WritePart
  PROVE  PatchInv'
<1>1. PICK t \in Prefixes(Order[i], text) : tree' = [tree EXCEPT ![Order[i]] = t]
  BY DEF WritePart
<1>2. /\ pc = "write" /\ pc' = pc /\ upstream' = upstream /\ kills' = kills
      /\ device' = device /\ i' = i /\ text' = text
  BY DEF WritePart
<1>3. TextOK(Order[i], t)
  BY <1>2, Places, PrefixText DEF PatchInv
<1>4. /\ tree' = [f \in Files |-> tree'[f]]
      /\ \A f \in Files : TextOK(f, tree'[f])
      /\ \A j \in 1..5 : j # i => tree'[Order[j]] = tree[Order[j]]
  BY <1>1, <1>3, TreeAfter
<1>5. \A j \in 1..5 : j < i => Reached(j)'
  BY <1>2, <1>4 DEF PatchInv, Reached
<1>6. QED
  BY <1>2, <1>4, <1>5 DEF PatchInv

LEMMA WriteTextInv ==
  ASSUME PatchInv, WriteText
  PROVE  PatchInv'
<1>1. /\ pc = "write" /\ tree' = [tree EXCEPT ![Order[i]] = text]
      /\ NextFile /\ device' = device /\ text' = text /\ i \in 1..5
      /\ TextOK(Order[i], text) /\ Settled(Order[i], text)
  BY DEF WriteText, PatchInv
<1>2. /\ tree' = [f \in Files |-> tree'[f]]
      /\ \A f \in Files : TextOK(f, tree'[f])
      /\ tree'[Order[i]] = text
      /\ \A j \in 1..5 : j # i => tree'[Order[j]] = tree[Order[j]]
  BY <1>1, TreeAfter
<1>3. \A j \in 1..5 : j < i => Reached(j)'
  BY <1>1, <1>2 DEF PatchInv, Reached
<1>4. Settled(Order[i], tree'[Order[i]])
  BY <1>1, <1>2
<1>5. /\ i' \in 1..5 /\ pc' \in {"read", "done"}
      /\ upstream' = upstream /\ kills' = kills
      /\ pc' = "read" => \A j \in 1..5 : j < i' => Reached(j)'
      /\ pc' = "done" => \A j \in 1..5 : Reached(j)'
  <2> DEFINE ended == {j \in 1..5 : Reached(j)'}
  <2>1. \A j \in 1..5 : j < i => j \in ended
    BY <1>3
  <2>2. i \in ended
    BY <1>1, <1>4 DEF Reached
  <2> HIDE DEF ended
  <2>3. /\ i' \in 1..5 /\ pc' \in {"read", "done"}
        /\ upstream' = upstream /\ kills' = kills
        /\ pc' = "read" => \A j \in 1..5 : j < i' => j \in ended
        /\ pc' = "done" => \A j \in 1..5 : j \in ended
    BY <1>1, <2>1, <2>2, NextFileInv
  <2>4. QED
    BY <2>3 DEF ended
<1>6. QED
  BY <1>1, <1>2, <1>5 DEF PatchInv

LEMMA KillInv ==
  ASSUME PatchInv, Kill \/ RunAgain
  PROVE  PatchInv'
<1>1. /\ pc' = "start" /\ upstream' = upstream /\ tree' = tree
      /\ device' = device /\ i' = i
  BY DEF Kill, RunAgain, Goto
<1>2. kills' \in 0..MaxKills
  BY UpstreamAssumption DEF Kill, RunAgain, Goto, PatchInv
<1>3. QED
  BY <1>1, <1>2 DEF PatchInv

LEMMA PatchNextInv == PatchInv /\ [PatchNext]_patchVars => PatchInv'
<1> SUFFICES ASSUME PatchInv, [PatchNext]_patchVars PROVE PatchInv'
  OBVIOUS
<1>1. CASE UNCHANGED patchVars
  BY <1>1 DEF patchVars, PatchInv, Reached
<1>2. CASE PatchNext
  BY <1>2, CopyInv, ReadTextInv, PatchTextInv, OpenTextInv, WritePartInv,
     WriteTextInv, KillInv DEF PatchNext, PatchStep
<1>3. QED
  BY <1>1, <1>2

LEMMA PatchInvariant == PatchSpec => []PatchInv
BY PatchInitInv, PatchNextInv, PTL DEF PatchSpec

-----------------------------------------------------------------------------
\* The texts in the tree and in memory are texts of their files, for any
\* number of kills (patch-virt.py's five functions, build-qemu.sh's copy).
THEOREM PatchTypeCorrect == PatchSpec => []PatchTypeOK
<1>1. ASSUME PatchInv PROVE PatchTypeOK
  <2>1. \A f \in Files : tree[f] \in Text(f)
    BY <1>1 DEF PatchInv, TextOK
  <2>2. pc \in {"patch", "open", "write"} => text \in Text(Order[i])
    BY <1>1, <2>1, Places DEF PatchInv, TextOK
  <2>3. QED
    BY <1>1, <2>1, <2>2, Places DEF PatchInv, PatchTypeOK
<1>2. QED
  BY <1>1, PatchInvariant, PTL

\* However often the script runs and wherever it is killed, no piece goes into
\* a file twice (the tests before each edit of patch-virt.py).
THEOREM EditsAreIdempotent == PatchSpec => []NeverTwice
<1>1. ASSUME PatchInv PROVE NeverTwice
  BY <1>1 DEF PatchInv, TextOK, NeverTwice
<1>2. QED
  BY <1>1, PatchInvariant, PTL

\* A run that ends well has found or put in everything that its tests look
\* for, and all the rest in every file that was never cut (main of
\* patch-virt.py).
THEOREM SuccessMeansWired == PatchSpec => []SuccessIsComplete
<1>1. ASSUME PatchInv, pc = "done"
      PROVE  /\ device = "whole"
             /\ \A f \in Files : \A e \in Edits[f] : tree[f].has[e.marker] = 1
             /\ \A f \in Files \ Cut : \A p \in PiecesOf(f) : tree[f].has[p] = 1
  <2>1. \A f \in Files : Settled(f, tree[f])
    BY <1>1, Places DEF PatchInv, Reached, Files
  <2>2. \A f \in Files : tree[f].whole \in BOOLEAN
    BY <1>1 DEF PatchInv, TextOK, Text
  <2>3. QED
    BY <1>1, <2>1, <2>2 DEF PatchInv, Settled, Cut
<1>2. PatchInv => SuccessIsComplete
  BY <1>1 DEF SuccessIsComplete
<1>3. QED
  BY <1>2, PatchInvariant, PTL
=============================================================================
