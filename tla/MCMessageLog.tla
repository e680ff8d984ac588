---------------------------- MODULE MCMessageLog ----------------------------
(***************************************************************************)
(* Instances of MessageLog for TLC: a log of up to four slots, with freed *)
(* slots between and behind the records, and the events that happen *)
(* while the modules run.                                                  *)
(***************************************************************************)
EXTENDS MessageLog

CONSTANTS e1, e2, e3

SmallLogs == {<<>>, <<e1, e2>>, <<e1, Empty>>, <<e1, Empty, e2>>,
              <<e1, Empty, e2, Empty>>, <<Empty, e1>>}
=============================================================================
