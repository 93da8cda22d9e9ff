------------------------------- MODULE MCCdma -------------------------------
(***************************************************************************)
(* Instances of Cdma: three jobs in a ring with room for all of them, or   *)
(* for less than two.                                                      *)
(***************************************************************************)
EXTENDS Cdma

CONSTANTS a, b

One == [j \in Job |-> a]
Two == [j \in Job |-> IF j = 2 THEN b ELSE a]

Scene(e, s, h, n, p, f) == [env |-> e, sp |-> s, hangs |-> h, slots |-> n, at |-> p, from |-> f]

\* Undisturbed, with and without a job that hangs: a large ring, a small one
Usual == {Scene({}, s, h, 16, 15, 0) : s \in {One, Two}, h \in {{}, {1}, {2}}}
         \cup {Scene({}, s, {}, r[1], r[2], 0) : s \in {One, Two}, r \in {<<8, 0>>, <<7, 2>>}}
         \cup {Scene({}, s, {1}, 8, 7, 0) : s \in {One, Two}}

Disturbed == {Scene({"legacy"}, One, {1}, 16, 15, 0), Scene({"legacy"}, Two, {1}, 8, 7, 0),
              Scene({"busy_stop"}, One, {}, 8, 3, 0), Scene({"busy_stop"}, Two, {1}, 16, 0, 0),
              Scene({"late"}, One, {}, 8, 1, 0), Scene({"early"}, Two, {}, 8, 2, 0),
              Scene({"slow"}, Two, {}, 16, 15, 0), Scene({"slow"}, One, {2}, 8, 2, 0),
              Scene({"long"}, One, {1}, 16, 0, 0), Scene({}, One, {1}, 16, 15, 15),
              Scene({}, One, {}, 8, 0, 15)}

Scenes == Usual \cup Disturbed
=============================================================================
