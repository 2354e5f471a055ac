----------------------------- MODULE MC_Bundle -----------------------------
(* Paths that share a prefix and differ in their second byte, data that is  *)
(* empty or looks like a length, a source map, an unreadable and an         *)
(* oversized file.                                                          *)
EXTENDS Bundle

PlainPaths == {<<1>>, <<1, 2>>, <<1, 1>>}
MCSourceMaps == {<<2>>}
MCUnreadable == {<<3>>}
Large == <<4>>

MCContent ==
  [p \in PlainPaths \cup MCSourceMaps \cup MCUnreadable \cup {Large} |->
    CASE p = <<1>>    -> <<>>
      [] p = <<1, 2>> -> <<1, 0>>
      [] p = Large    -> <<7, 7, 7>>
      [] OTHER        -> <<3>>]

MCCommandLines ==
  {<<Large>>, <<<<2>>, <<3>>>>}
    \cup UNION {[1 .. n -> PlainPaths \cup MCSourceMaps] : n \in 1 .. 3}

=============================================================================
