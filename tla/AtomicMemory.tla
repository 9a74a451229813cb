---------------------------- MODULE AtomicMemory ----------------------------
(***************************************************************************)
(* What the data side of the memory hierarchy promises to the pipeline: a  *)
(* memory with one port.  The client asks for one load or store at a time  *)
(* and keeps asking until it is served; serving is atomic; a load is       *)
(* answered with the value the last store to its address left.             *)
(*                                                                         *)
(* This is the abstract specification that DCacheMem implements.           *)
(***************************************************************************)
EXTENDS Naturals

CONSTANTS Addrs, Values, InitValue

VARIABLES
    memory,  \* the value every address holds
    port     \* the request the client has on the port, and its progress

vars == <<memory, port>>

Request == [we : BOOLEAN, addr : Addrs, data : Values]

Free     == [st |-> "free"]
Asked(r) == [st |-> "asked", req |-> r]

\* The answer to a store carries no data the client may rely on.
Served(r, v) == [st |-> "served", req |-> r, data |-> v]

TypeOK ==
    /\ memory \in [Addrs -> Values]
    /\ port \in {Free} \union [st : {"asked"}, req : Request]
                       \union [st : {"served"}, req : Request, data : Values]

-----------------------------------------------------------------------------
Init == memory = [a \in Addrs |-> InitValue] /\ port = Free

\* The port is free, or frees itself by the answer: the next request may
\* follow at once.
Idle == port.st \in {"free", "served"}

Ask == /\ Idle
       /\ \E r \in Request : port' = Asked(r)
       /\ UNCHANGED memory

Serve == /\ port.st = "asked"
         /\ LET r == port.req IN
              IF r.we
              THEN /\ memory' = [memory EXCEPT ![r.addr] = r.data]
                   /\ \E v \in Values : port' = Served(r, v)
              ELSE /\ UNCHANGED memory
                   /\ port' = Served(r, memory[r.addr])

Release == port.st = "served" /\ port' = Free /\ UNCHANGED memory

Next == Ask \/ Serve \/ Release

Safety == Init /\ [][Next]_vars

Spec == Safety /\ WF_vars(Serve)
=============================================================================
