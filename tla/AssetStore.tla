----------------------------- MODULE AssetStore -----------------------------
(***************************************************************************)
(* What the start-up migration promises (overlay_fs.h:56-83): the entries  *)
(* of an asset bundle are added to the file histories all together, at     *)
(* most once per bundle, and a damaged bundle never. In between, edits     *)
(* append to single files. A power loss may take the newest of these       *)
(* changes back, always whole ones and the newest first. Only a bundle     *)
(* whose transaction was lost on the way may come in pieces. Boot          *)
(* implements it.                                                          *)
(***************************************************************************)
EXTENDS Integers, Sequences

CONSTANTS
  Bundles,   \* asset bundles, told apart by their SHA-256
  Damaged,   \* those that do not decompress or parse
  Added,     \* bundle -> path -> the contents of its entries of that path, in order
  Pieces,    \* bundle -> its entries
  Paths,
  Edits      \* contents that are written otherwise

VARIABLES
  history,   \* [files, applied] after each change that may still be lost
  lost       \* bundles whose transaction was lost

vars == <<history, lost>>

Init ==
  /\ history = <<[files |-> [p \in Paths |-> <<>>], applied |-> {}]>>
  /\ lost = {}

Newest == history[Len(history)]

Write(path, data) ==
  history' = Append(history, [Newest EXCEPT !.files[path] = Append(@, data)])

MayRecord(b) == b \notin Newest.applied /\ b \notin Damaged

Apply(b) ==
  /\ MayRecord(b)
  /\ history' = Append(history,
       [files |-> [p \in Paths |-> Newest.files[p] \o Added[b][p]],
        applied |-> Newest.applied \cup {b}])
  /\ UNCHANGED lost

Edit(path, data) == Write(path, data) /\ UNCHANGED lost

LoseTransaction(b) == lost' = lost \cup {b} /\ UNCHANGED history

\* A piece of a bundle that lost its transaction, and its record without them.
Piece(b) ==
  /\ b \in lost
  /\ \E e \in Pieces[b] : Write(e.path, e.data)
  /\ UNCHANGED lost

Mark(b) ==
  /\ b \in lost
  /\ MayRecord(b)
  /\ history' = Append(history, [Newest EXCEPT !.applied = @ \cup {b}])
  /\ UNCHANGED lost

\* What happened so far is durable.
Settle == history' = <<Newest>> /\ UNCHANGED lost

LosePower ==
  /\ \E k \in 1 .. Len(history) : history' = SubSeq(history, 1, k)
  /\ UNCHANGED lost

Next ==
  \/ \E b \in Bundles : Apply(b) \/ LoseTransaction(b) \/ Piece(b) \/ Mark(b)
  \/ \E path \in Paths, data \in Edits : Edit(path, data)
  \/ Settle
  \/ LosePower

Spec == Init /\ [][Next]_vars

=============================================================================
