----------------------------- MODULE SplitterMC -----------------------------
(***************************************************************************)
(* The splitter on texts that begin with the marker, with a part of it or  *)
(* without it, go on with quoted and other lines broken in either way, and *)
(* may hold the marker once more.                                          *)
(***************************************************************************)
EXTENDS ThinkingSplitter

CONSTANT MaxLines        \* bound on the lines behind the beginning

MCWords == {"a", "b", "c"}
Line == {<<>>, <<">", " ", "a">>, <<">">>, <<"b">>, Title}
Breaks == {<<"n">>, <<"r", "n">>}
Beginnings == {<<>>} \cup {Title \o break : break \in Breaks}
MCTexts ==
  {beginning \o FlattenSeq(ls) \o tail :
     beginning \in Beginnings,
     ls \in BoundedSeq({l \o break : l \in Line, break \in Breaks}, MaxLines),
     tail \in {<<>>, <<">", "c">>}}
=============================================================================
