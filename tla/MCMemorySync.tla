------------------------------ MODULE MCMemorySync ------------------------------
(* A phone that revises and deletes a source, a mac that mirrors.           *)
EXTENDS MemorySync, TLC

CONSTANTS phone, mac, x, y, h1, h2

Put(c, s, v) == [commit |-> c, key |-> <<"source", s>>, value |-> v]
Delete(c, s) == [commit |-> c, key |-> <<"deletion", s>>, value |-> 0]

MCDevices == {phone, mac}
MCSources == {x, y}
MCLocal == phone :> <<Put(1, x, 1), Delete(1, x)>> @@ mac :> <<Put(1, y, 1)>>
Revised == phone :> <<Put(1, x, 1), Put(2, x, 2)>> @@ mac :> <<>>
TwoHandlers == {h1, h2}
=============================================================================
