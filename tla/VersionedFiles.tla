--------------------------- MODULE VersionedFiles ---------------------------
(***************************************************************************)
(* What overlay_fs promises its callers (overlay_fs.h:87-116): every path  *)
(* has a history of contents that only ever grows at its end, a write      *)
(* appends to it once, at one moment between its call and its return, and  *)
(* returns success exactly when it did. A crash forgets the calls in       *)
(* progress and keeps the histories. OverlayFS implements it.              *)
(***************************************************************************)
EXTENDS Sequences

CONSTANTS Writers, Paths, Contents, NoCall

VARIABLES
  history,  \* path -> sequence of its contents, oldest first
  status,   \* writer -> "none", "pending", "stored" or "failed"
  arg       \* writer -> arguments of its call

vars == <<history, status, arg>>

Init ==
  /\ history = [p \in Paths |-> <<>>]
  /\ status = [w \in Writers |-> "none"]
  /\ arg = [w \in Writers |-> NoCall]

Invoke(w, path, data) ==
  /\ status[w] = "none"
  /\ status' = [status EXCEPT ![w] = "pending"]
  /\ arg' = [arg EXCEPT ![w] = [path |-> path, data |-> data]]
  /\ UNCHANGED history

Store(w) ==
  /\ status[w] = "pending"
  /\ history' = [history EXCEPT ![arg[w].path] = Append(@, arg[w].data)]
  /\ status' = [status EXCEPT ![w] = "stored"]
  /\ UNCHANGED arg

Fail(w) ==
  /\ status[w] = "pending"
  /\ status' = [status EXCEPT ![w] = "failed"]
  /\ UNCHANGED <<history, arg>>

Reply(w) ==
  /\ status[w] \in {"stored", "failed"}
  /\ status' = [status EXCEPT ![w] = "none"]
  /\ arg' = [arg EXCEPT ![w] = NoCall]
  /\ UNCHANGED history

Crash ==
  /\ status' = [w \in Writers |-> "none"]
  /\ arg' = [w \in Writers |-> NoCall]
  /\ UNCHANGED history

Next ==
  \/ \E w \in Writers :
       \/ \E path \in Paths, data \in Contents : Invoke(w, path, data)
       \/ Store(w) \/ Fail(w) \/ Reply(w)
  \/ Crash

Spec == Init /\ [][Next]_vars

=============================================================================
