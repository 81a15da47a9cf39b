------------------------------- MODULE MCQio --------------------------------
(* The instances of Qio that TLC checks.                                   *)
EXTENDS Qio, TLC

CONSTANTS r1, r2, w1, w2, a1, a2

(* A pipe, with everything that may happen to it; a queue a driver takes   *)
(* from, like a UART's output; a queue drivers and protocols fill.         *)
MCUses == {
  [who |-> {r1, w1, w2, a1},
   ops |-> {"qwrite", "qread", "qbread", "note", "qhangup", "qclose", "qflush", "qreopen"},
   modes |-> {{}, {"Qmsg"}}, writes |-> {1, 2}, reads |-> {1}, max |-> 3],
  [who |-> {w1, a1, a2},
   ops |-> {"qwrite", "note", "qget", "qconsume", "qdiscard", "qflush", "qnoblock", "qsetlimit",
            "qclose", "qreopen"},
   modes |-> {{}, {"Qmsg"}}, writes |-> {2}, reads |-> {1, 2}, max |-> 3],
  [who |-> {r1, r2, a1},
   ops |-> {"qread", "note", "qproduce", "qpass", "qpassnolim", "qiwrite", "qhangup"},
   modes |-> {{}, {"Qmsg"}, {"Qcoalesce"}}, writes |-> {0, 2}, reads |-> {1}, max |-> 3]}

(* A writer of empty blocks.                                               *)
MCZeroUses == {
  [who |-> {w1, a1}, ops |-> {"qwrite", "qconsume"}, modes |-> {{}},
   writes |-> {0, 1}, reads |-> {1}, max |-> 3]}
=============================================================================
