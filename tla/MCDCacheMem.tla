---------------------------- MODULE MCDCacheMem -----------------------------
(***************************************************************************)
(* Instances of DCacheMem for TLC.  Loads go to every address; an address  *)
(* of Watched is stored to with every value, the others with InitValue     *)
(* only: a word taken from a wrong place or a wrong time still differs.    *)
(* Uncached accesses go to one register.                                   *)
(***************************************************************************)
EXTENDS DCacheMem

IORegister == <<IOTag, 0, 0>>

UsedAddrs == {a \in Addrs : a[1] = IOTag => a = IORegister}

Load(a) == [valid |-> TRUE, we |-> FALSE, tag |-> a[1], index |-> a[2],
            offset |-> a[3], data |-> InitValue]
Store(a, v) == [valid |-> TRUE, we |-> TRUE, tag |-> a[1], index |-> a[2],
                offset |-> a[3], data |-> v]

Program(watched) ==
    {Load(a) : a \in UsedAddrs} \union {Store(a, InitValue) : a \in UsedAddrs}
        \union {Store(a, v) : a \in watched, v \in Values}

WatchOne == Program({<<1, 0, 0>>})
=============================================================================
