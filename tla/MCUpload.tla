------------------------------ MODULE MCUpload ------------------------------
(***************************************************************************)
(* The uploads TLC checks: pairs of each way, and a TCP client, whose end  *)
(* restarts the device, beside a page.                                     *)
(***************************************************************************)
EXTENDS UploadProps, TLC

CONSTANTS a, b

MCClients == {a, b}

Pair(va, sa, vb, sb) == [via |-> (a :> va @@ b :> vb), size |-> (a :> sa @@ b :> sb)]

MCUploads == {Pair("ws",   3, "ws",   1), Pair("http", 2, "http", 3),
              Pair("tcp",  1, "ws",   2), Pair("tcp",  1, "http", 2),
              Pair("tcp",  1, "tcp",  2), Pair("tcp",  2, "tcp",  2)}
=============================================================================
