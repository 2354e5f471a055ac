----------------------------- MODULE MC_Script -----------------------------
(* Databases: one whose imports all resolve, in the root directory and two    *)
(* others, back to the main module and in a circle, with files of the same    *)
(* names in hbf that nobody imports; and five with an import that fails.      *)
EXTENDS Script

A == <<"hbf", "lib", "a.js">>
B == <<"hbf", "lib", "b.js">>
C == <<"c.js">>
D == <<"d.js">>
Namesakes == {<<"hbf", "b.js">>, <<"hbf", "d.js">>}

Imports(m) ==
  CASE m = Main -> {<<".", "lib", "a.js">>, C}
    [] m = A    -> {<<".", "b.js">>, Main}
    [] m = C    -> {<<".", "d.js">>}
    [] m = D    -> {C}
    [] OTHER    -> {}

Files == [m \in {Main, A, B, C, D} \cup Namesakes |-> Imports(m)]

MCApps ==
  {Files,
   [Files EXCEPT ![A] = {<<"..", "b.js">>}],
   [Files EXCEPT ![B] = {<<".", "..", "b.js">>}, ![A] = {B}],
   [Files EXCEPT ![C] = {<<".">>, <<".", "d.js">>}],
   [Files EXCEPT ![D] = {<<"e.js">>}],
   [Files EXCEPT ![B] = {<<".", "deep", "er", "b.js">>}]}

\* One import of a file in the parent directory, which is there.
MCParent == {[Files EXCEPT ![A] = {<<"..", "b.js">>}]}

=============================================================================
