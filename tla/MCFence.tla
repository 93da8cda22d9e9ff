------------------------------ MODULE MCFence -------------------------------
(***************************************************************************)
(* Instances of Doorbell: a few fences of one syncpoint and their uses.    *)
(***************************************************************************)
EXTENDS Doorbell, TLC

CONSTANTS f1, f2, f3

Mixes == {f1 :> "wait" @@ f2 :> "file" @@ f3 :> "unused",
          f1 :> "polled" @@ f2 :> "unused" @@ f3 :> "unused",
          f1 :> "client" @@ f2 :> "client" @@ f3 :> "notifier"}
=============================================================================
