----------------------------- MODULE ModuleName -----------------------------
(***************************************************************************)
(* Names of ES modules (src/hbf/qjs/module_loader.c). A name is a sequence *)
(* of segments, "hbf/lib/a.js" is <<"hbf", "lib", "a.js">>.                *)
(***************************************************************************)
EXTENDS Integers, Sequences, SequencesExt

CONSTANT NameRoom    \* room of the normalizer's buffer, in segments

ASSUME NameRoomAssumption == NameRoom \in Nat

Name == Seq(STRING) \ {<<>>}
NoName == <<>>

Directory(name) == Front(name)
IsRelative(spec) == spec[1] \in {".", ".."}

\* Mutant: every import is taken relative to the directory of the main module.
NormalizeFromRoot(base, spec) ==
  IF spec[1] = "." /\ Len(spec) > 1 THEN <<"hbf">> \o Tail(spec) ELSE spec

\* hbf_qjs_module_normalize: "./" is replaced by the importing module's
\* directory, if that fits the buffer; any other name is kept, "../" included,
\* and so is a dot without slash.
Normalize(base, spec) ==
  IF spec[1] # "." \/ Len(spec) = 1 THEN spec
  ELSE IF Directory(base) = <<>> THEN Tail(spec)
  ELSE IF Len(Directory(base)) + Len(Tail(spec)) <= NameRoom
    THEN Directory(base) \o Tail(spec)
    ELSE NoName

-----------------------------------------------------------------------------
(* The reference: what an import means *)

Plain(name) == \A i \in DOMAIN name : name[i] \notin {".", ".."}

Walk(path, segment) ==
  CASE segment = "."                  -> path
    [] segment = ".." /\ path # <<>>  -> Front(path)
    [] segment = ".." /\ path = <<>>  -> path
    [] OTHER                          -> Append(path, segment)

\* Where a sequence of segments leads from the root.
Walked(segments) ==
  LET walk[i \in 0 .. Len(segments)] ==
        IF i = 0 THEN <<>> ELSE Walk(walk[i - 1], segments[i])
  IN  walk[Len(segments)]

\* A relative name walks from the importing module's directory.
Meaning(base, spec) ==
  IF IsRelative(spec) THEN Walked(Directory(base) \o spec) ELSE spec

=============================================================================
