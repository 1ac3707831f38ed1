----------------------------- MODULE DumpRequest -----------------------------
(***************************************************************************)
(* What the mutators are promised about the dumps they ask for: what one   *)
(* gets to read was dumped by its own runs, by one of them only and the    *)
(* latest one that dumped anything.  It reads each dump once, if a dump    *)
(* can be put away once it was read; otherwise it reads the dump again     *)
(* until the next one replaces it.                                         *)
(***************************************************************************)
CONSTANTS
    Clients,        \* the mutators
    Requests,       \* Requests[c] identify the runs that c may ask for a dump
    NoRequest,
    ReadOnce        \* whether a dump is put away once it was read

VARIABLES
    pending,        \* the request whose run is in progress
    offered,        \* the requests whose data is waiting to be read
    used            \* the requests whose data was read last

vars == <<pending, offered, used>>

Init ==
    /\ pending = [c \in Clients |-> NoRequest]
    /\ offered = [c \in Clients |-> {}]
    /\ used = [c \in Clients |-> {}]

(* A run starts, with a dump requested. *)
Request(c) ==
    /\ pending[c] = NoRequest
    /\ \E r \in Requests[c] : pending' = [pending EXCEPT ![c] = r]
    /\ UNCHANGED <<offered, used>>

(* It replaces what was waiting. *)
Discard(c) ==
    /\ pending[c] # NoRequest
    /\ offered' = [offered EXCEPT ![c] = {}]
    /\ UNCHANGED <<pending, used>>

Dump(c) ==
    /\ pending[c] # NoRequest
    /\ offered[c] \subseteq {pending[c]}
    /\ offered' = [offered EXCEPT ![c] = {pending[c]}]
    /\ UNCHANGED <<pending, used>>

(* The run is over, whatever it dumped. *)
Complete(c) ==
    /\ pending[c] # NoRequest
    /\ pending' = [pending EXCEPT ![c] = NoRequest]
    /\ UNCHANGED <<offered, used>>

(* The mutator reads what is waiting, and leaves it where it cannot be put *)
(* away.                                                                   *)
Use(c) ==
    /\ pending[c] = NoRequest
    /\ used' = [used EXCEPT ![c] = offered[c]]
    /\ offered' = IF ReadOnce THEN [offered EXCEPT ![c] = {}] ELSE offered
    /\ UNCHANGED pending

Next == \E c \in Clients :
    Request(c) \/ Discard(c) \/ Dump(c) \/ Complete(c) \/ Use(c)

Spec == Init /\ [][Next]_vars
=============================================================================
