------------------------------ MODULE PatchVirt ------------------------------
(***************************************************************************)
(* sim/qemu/scripts: build-qemu.sh copies the device into a QEMU tree and  *)
(* patch-virt.py wires it into five files, each read, checked, changed in  *)
(* memory and written back.  The harness runs it before every build, on a  *)
(* tree that an earlier run may have left anywhere.                        *)
(*                                                                         *)
(* A text is counts of the seven pieces that belong into the files, the    *)
(* anchors at which pieces go in, and whether any of the text was lost.    *)
(***************************************************************************)
EXTENDS Naturals, Sequences

CONSTANTS
  Upstreams,  \* the anchors that a QEMU version has
  MaxKills    \* how often a run is killed

Order == <<"virt.h", "virt.c", "misc/Kconfig", "arm/Kconfig", "meson.build">>
Files == {Order[i] : i \in DOMAIN Order}

\* What one test of a file puts in: the piece that is looked for, the pieces
\* that have the words looked for in them, and all pieces that are added when
\* the words are missing.  The function names the entry of the table.
Edits ==
  LET Edit(marker, words, adds) == [marker |-> marker, words |-> words, adds |-> adds]
      One(p) == {Edit(p, {p}, {p})}
  IN [f \in Files |->
        CASE f = "virt.h" -> One("enum")
          [] f = "virt.c" -> {Edit("memmap", {"memmap", "fn"}, {"memmap"}),
                              Edit("fn", {"fn"}, {"fn", "call"})}
          [] f = "misc/Kconfig" -> One("config")
          [] f = "arm/Kconfig" -> One("select")
          [] f = "meson.build" -> One("files")]

PiecesOf(f) == UNION {e.adds : e \in Edits[f]}
Pieces == UNION {PiecesOf(f) : f \in Files}

\* misc/Kconfig is appended to and needs no anchor.
ASSUME UpstreamAssumption ==
  /\ Upstreams \subseteq SUBSET Pieces
  /\ \A u \in Upstreams : "config" \in u
  /\ MaxKills \in Nat

VARIABLES
  upstream,  \* the QEMU version's anchors
  tree,      \* the text of each file
  device,    \* hw/misc/aximux.c: absent, in part, or there
  pc, i,     \* the place in the scripts, and the file in Order
  text,      \* the text in memory
  kills      \* how often a run was killed so far

patchVars == <<upstream, tree, device, pc, i, text, kills>>

Text(f) == [has : [PiecesOf(f) -> Nat], anchors : SUBSET PiecesOf(f), whole : BOOLEAN]
Pristine(f) ==
  [has |-> [p \in PiecesOf(f) |-> 0], anchors |-> upstream \cap PiecesOf(f),
   whole |-> TRUE]

PatchInit ==
  /\ upstream \in Upstreams
  /\ tree = [f \in Files |-> Pristine(f)]
  /\ device = "absent"
  /\ pc = "start" /\ i = 1 /\ kills = 0
  /\ text = Pristine("virt.h")

Goto(place) == pc' = place /\ UNCHANGED <<upstream, kills>>

-----------------------------------------------------------------------------
CopyDevice ==
  \/ pc = "start" /\ device' = "part" /\ Goto("copy") /\ UNCHANGED <<tree, i, text>>
  \/ pc = "copy" /\ device' = "whole" /\ Goto("read") /\ i' = 1 /\ UNCHANGED <<tree, text>>

ReadText ==
  /\ pc = "read"
  /\ text' = tree[Order[i]]
  /\ Goto("patch")
  /\ UNCHANGED <<tree, device, i>>

\* The edits whose words are looked for and not found.
MissingUnchecked(f, t) == Edits[f]
Missing(f, t) == {e \in Edits[f] : \A p \in e.words : t.has[p] = 0}

NeededPieces(f, t) == UNION {e.adds : e \in Missing(f, t)}
\* str.replace: where there is no anchor nothing changes.
Inserted(f, t) ==
  LET new == NeededPieces(f, t) \cap t.anchors
  IN [t EXCEPT !.has = [p \in PiecesOf(f) |->
                          IF p \in new THEN t.has[p] + 1 ELSE t.has[p]]]

\* The tests for anchors, before the change or by what it has achieved.
CanInsertUnchecked(f, t) == TRUE
CanInsert(f, t) == NeededPieces(f, t) \subseteq t.anchors

\* virt.c is written back even when nothing is missing.
MustWrite(f, t) == f = "virt.c" \/ Missing(f, t) # {}

NextFileBeyond ==
  IF i <= Len(Order) THEN i' = i + 1 /\ Goto("read") ELSE Goto("done") /\ UNCHANGED i
NextFileButLast ==
  IF i < Len(Order) - 1 THEN i' = i + 1 /\ Goto("read") ELSE Goto("done") /\ UNCHANGED i
NextFile ==
  IF i < Len(Order) THEN i' = i + 1 /\ Goto("read") ELSE Goto("done") /\ UNCHANGED i

PatchText ==
  /\ pc = "patch"
  /\ LET f == Order[i] IN
       \/ ~CanInsert(f, text) /\ Goto("exit") /\ UNCHANGED <<text, i>>
       \/ CanInsert(f, text) /\ MustWrite(f, text)
            /\ text' = Inserted(f, text) /\ Goto("open") /\ UNCHANGED i
       \/ CanInsert(f, text) /\ ~MustWrite(f, text) /\ NextFile /\ UNCHANGED text
  /\ UNCHANGED <<tree, device>>

\* write_text: opening empties the file.
Empty(f) ==
  [has |-> [p \in PiecesOf(f) |-> 0], anchors |-> PiecesOf(f) \cap {"config"},
   whole |-> FALSE]

OpenText ==
  /\ pc = "open"
  /\ tree' = [tree EXCEPT ![Order[i]] = Empty(Order[i])]
  /\ Goto("write")
  /\ UNCHANGED <<device, i, text>>

\* A write is cut anywhere.  The beginnings of a text, as the pieces and the
\* anchors that are still in them: most insertions follow their anchor, while
\* the function and its call precede theirs and the enumerator breaks it up.
Beginning(pieces, anchors) == [pieces |-> pieces, anchors |-> anchors]
Beginnings(f) ==
  CASE f = "virt.h" -> {Beginning({"enum"}, {"enum"})}
    [] f = "virt.c" -> {Beginning({}, {"memmap"}), Beginning({"memmap"}, {"memmap"}),
                        Beginning({"memmap", "fn"}, {"memmap"}),
                        Beginning({"memmap", "fn"}, {"memmap", "fn"}),
                        Beginning(PiecesOf(f), {"memmap", "fn"}),
                        Beginning(PiecesOf(f), PiecesOf(f))}
    [] OTHER -> {Beginning({}, PiecesOf(f)), Beginning(PiecesOf(f), PiecesOf(f))}
Prefixes(f, t) ==
  {[has |-> [p \in PiecesOf(f) |-> IF p \in b.pieces THEN t.has[p] ELSE 0],
    anchors |-> t.anchors \cap b.anchors, whole |-> FALSE] : b \in Beginnings(f)}

WritePart ==
  /\ pc = "write"
  /\ tree' \in {[tree EXCEPT ![Order[i]] = t] : t \in Prefixes(Order[i], text)}
  /\ UNCHANGED <<upstream, device, pc, i, text, kills>>

WriteText ==
  /\ pc = "write"
  /\ tree' = [tree EXCEPT ![Order[i]] = text]
  /\ NextFile
  /\ UNCHANGED <<device, text>>

-----------------------------------------------------------------------------
\* A run is killed, and the next one starts; or a run has ended, and does.
Kill ==
  /\ pc \notin {"start", "done", "exit"} /\ kills < MaxKills
  /\ kills' = kills + 1
  /\ pc' = "start"
  /\ UNCHANGED <<upstream, tree, device, i, text>>

RunAgain ==
  /\ pc \in {"done", "exit"}
  /\ Goto("start")
  /\ UNCHANGED <<tree, device, i, text>>

PatchStep ==
  CopyDevice \/ ReadText \/ PatchText \/ OpenText \/ WriteText
PatchNext == PatchStep \/ WritePart \/ Kill \/ RunAgain

PatchSpec == PatchInit /\ [][PatchNext]_patchVars /\ WF_patchVars(PatchStep)

-----------------------------------------------------------------------------
(***************************************************************************)
(* Properties                                                              *)
(***************************************************************************)
Cut == {f \in Files : ~tree[f].whole}

\* Texts are texts of their files, and only the text of the file at hand is in
\* memory between reading and writing.
PatchTypeOK ==
  /\ upstream \in Upstreams
  /\ \A f \in Files : tree[f] \in Text(f)
  /\ device \in {"absent", "part", "whole"}
  /\ pc \in {"start", "copy", "read", "patch", "open", "write", "done", "exit"}
  /\ i \in DOMAIN Order /\ kills \in 0..MaxKills
  /\ pc \in {"patch", "open", "write"} => text \in Text(Order[i])

\* Whatever runs were killed or repeated, no piece is ever in a file twice
\* (the tests for what is there already, one for each edit).
NeverTwice == \A f \in Files : \A p \in PiecesOf(f) : tree[f].has[p] <= 1

\* A run that reports success leaves no edit out: the device is there, what
\* each test looks for is in its file, once, and a file that was never cut has
\* all of its pieces; also when earlier runs were killed anywhere, or the tree
\* has not all anchors (the SystemExits of patch-virt.py).  It is no more than
\* that: a file that was cut, and has or takes what its tests look for, is
\* taken for a good one.
SuccessIsComplete ==
  pc = "done" =>
    /\ device = "whole"
    /\ \A f \in Files : \A e \in Edits[f] : tree[f].has[e.marker] = 1
    /\ \A f \in Files \ Cut : \A p \in PiecesOf(f) : tree[f].has[p] = 1

\* However often runs are killed and started again, they come to a tree that
\* is wired, unless a write was cut short (for a version with all anchors).
Wired == Cut = {} /\ \A f \in Files : \A p \in PiecesOf(f) : tree[f].has[p] = 1
Converges == (upstream = Pieces) => <>(Wired \/ (Cut # {} /\ pc \in {"done", "exit"}))
=============================================================================
