------------------------------ MODULE OneCall ------------------------------
(***************************************************************************)
(* What an AFP session promises its client, whatever the transport does:   *)
(* the client has one call in flight, the server performs it at most once, *)
(* with the data of that call, and the answer the client takes is the      *)
(* answer to that call.  A call that was refused is not performed.         *)
(***************************************************************************)
EXTENDS Naturals, Sequences

VARIABLES issued,     \* calls the client has made
          data,       \* the data of the last one
          state,      \* of the last one: idle, asked, done, refused
          told,       \* what the client was told of the last call it has
          performed,  \* the data of the calls the server has carried out
          over        \* 1 once the server has ended the session

callVars == <<issued, data, state, told, performed, over>>

CallInit == /\ issued = 0 /\ data = <<>> /\ state = "idle" /\ told = "none"
            /\ performed = <<>> /\ over = 0

\* The client picks the data.
Issue == /\ state = "idle"
         /\ issued' = issued + 1
         /\ state' = "asked" /\ told' = "none"
         /\ UNCHANGED <<performed, over>>

Perform == /\ state = "asked" /\ over = 0
           /\ performed' = Append(performed, data)
           /\ state' = "done"
           /\ UNCHANGED <<issued, data, told, over>>

Refuse == /\ state = "asked" /\ over = 0
          /\ state' = "refused"
          /\ UNCHANGED <<issued, data, told, performed, over>>

\* The client learns how its call went, or that the session is over.
Answer == /\ state \in {"done", "refused"}
          /\ state' = "idle"
          /\ \/ state = "done" /\ told' = "ok"
             \/ state = "refused" /\ told' = "error"
             \/ over = 1 /\ told' = "closed"
          /\ UNCHANGED <<issued, data, performed, over>>

End == over' = 1 /\ UNCHANGED <<issued, data, state, told, performed>>

CallNext == Issue \/ Perform \/ Refuse \/ Answer \/ End

CallSpec == CallInit /\ [][CallNext]_callVars
=============================================================================
