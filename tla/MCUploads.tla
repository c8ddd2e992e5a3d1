------------------------------- MODULE MCUploads -------------------------------
(* Two parties; the first may upload again after a failure.                *)
EXTENDS Uploads, TLC

CONSTANTS p1, p2, first, again, other

Parties  == {p1, p2}
Requests == {first, again, other}
Owners   == first :> p1 @@ again :> p1 @@ other :> p2
AllKinds == first :> {"binary", "json", "file", "blocks"}
            @@ again :> {"binary", "file"} @@ other :> {"json"}
RowKinds == [r \in Requests |-> {"binary"}]
===============================================================================
