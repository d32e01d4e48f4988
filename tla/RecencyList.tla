---------------------------- MODULE RecencyList ----------------------------
(***************************************************************************)
(* What least-recently-used replacement promises: the pages in memory are  *)
(* a list, the page used last in front, and a page that does not fit       *)
(* pushes out the one at the end.                                          *)
(***************************************************************************)
EXTENDS Naturals, Sequences

CONSTANTS Page, NoPage, Size

VARIABLES last,   \* the page used last
          recent  \* the pages in memory

recencyVars == <<last, recent>>

(* Where p is, or where a page goes that is not in memory: to a free place *)
(* if there is one, or to the last one.                                    *)
Place(list, p) ==
  IF \E k \in 1 .. Len(list) : list[k] = p
  THEN CHOOSE k \in 1 .. Len(list) : list[k] = p
  ELSE IF Len(list) < Size THEN Len(list) + 1 ELSE Size

(* p moves to the front, and the pages before place a make room.           *)
ToFront(list, a, p) ==
  [k \in 1 .. IF a > Len(list) THEN a ELSE Len(list) |->
     IF k = 1 THEN p ELSE IF k <= a THEN list[k - 1] ELSE list[k]]

Use(p) == last' = p /\ recent' = ToFront(recent, Place(recent, p), p)

Init == last = NoPage /\ recent = << >>

Next == \E p \in Page : Use(p)

Spec == Init /\ [][Next]_recencyVars
=============================================================================
