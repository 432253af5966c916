------------------------------ MODULE MCPanel -------------------------------
(***************************************************************************)
(* Small instances of the algorithms for TLC.                              *)
(***************************************************************************)
EXTENDS Panel

CONSTANTS a1, a2, u1, mum, dad

(* "Lunch", "gym" and "lunch", in the order of their strings. *)
FoldedTitles == [t \in Titles |-> IF t = 3 THEN 1 ELSE t]

(* One account has up to two events, the other one of the first time or    *)
(* two; the second account's marker is none, the first one's, or its own.  *)
AllCalendars ==
    LET early == {e \in Event : e.start = 1}
        ofOne == {<<>>} \union {<<e>> : e \in Event} \union {<<e, f>> : e, f \in Event}
        ofTwo == {<<e>> : e \in early} \union
                 {<<e, f>> : e \in {x \in early : x.uid = u1}, f \in {x \in Event : x.title = 2}}
    IN  [calendar : {[a \in Accounts |-> IF a = a1 THEN s ELSE t] : s \in ofOne, t \in ofTwo},
         marker : {[a \in Accounts |-> IF a = a1 THEN mum ELSE m] : m \in {NULL, mum, dad}}]

AllQueries ==
    {[accounts |-> {}, from |-> 0, to |-> 4, limit |-> n] : n \in 0..2}
    \union {[accounts |-> {a1}, from |-> 2, to |-> 3, limit |-> 0]}

(* Gray pictures of up to four pixels, for the errors to run through; and  *)
(* rows of about one, four and five bytes with a pixel that stands out.    *)
Gray(w, h, values) ==
    {[mode |-> "floyd_steinberg", width |-> w, height |-> h, gray |-> g] :
        g \in [0..(w * h - 1) -> values]}

OnePixel(w, h) ==
    {[mode |-> "threshold", width |-> w, height |-> h,
      gray |-> [i \in 0..(w * h - 1) |-> IF i = n THEN v ELSE 255 - v]] :
        n \in 0..(w * h - 1), v \in {0, 127, 128}}

AllPictures ==
    Gray(2, 2, {0, 64, 127, 128, 200, 255}) \union Gray(4, 1, {0, 100, 128, 255})
    \union Gray(1, 3, {0, 100, 128, 255})
    \union UNION {OnePixel(w, 2) : w \in {1, 7, 8, 9, 31, 32, 33}}
=============================================================================
