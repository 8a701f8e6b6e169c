------------------------------ MODULE EditLog ------------------------------
\* What a project promises its clients: a durable, append-only log of edits.  An
\* edit enters it at most once and only on the revision its client had
\* seen, an edit that was acknowledged is in it, and one that was refused never
\* will be.
EXTENDS Naturals, Sequences, SequencesExt

CONSTANT Edits

VARIABLES
    log,             \* the edits of the project, one revision each
    request,         \* what a client asked for, and the revision it saw
    told             \* what the client was told last

vars == <<log, request, told>>

Kinds == {"Commit", "Undo", "Redo"}

NotAsked == [kind |-> "None", base |-> 0]

Init ==
    /\ log = <<>>
    /\ request = [e \in Edits |-> NotAsked]
    /\ told = [e \in Edits |-> "Nothing"]

Ask(e) ==
    /\ request[e] = NotAsked
    /\ \E kind \in Kinds, base \in 0 .. Len(log) :
           request' = [request EXCEPT ![e] = [kind |-> kind, base |-> base]]
    /\ UNCHANGED <<log, told>>

Apply(e) ==
    /\ request[e] # NotAsked
    /\ request[e].base = Len(log)
    /\ told[e] # "Refused"
    /\ e \notin Range(log)
    /\ log' = Append(log, e)
    /\ UNCHANGED <<request, told>>

\* An error leaves open whether the edit is in the log.
Tell(e) ==
    /\ request[e] # NotAsked
    /\ \/ e \in Range(log) /\ told' = [told EXCEPT ![e] = "Done"]
       \/ e \notin Range(log) /\ told' = [told EXCEPT ![e] = "Refused"]
       \/ told' = [told EXCEPT ![e] = "Error"]
    /\ UNCHANGED <<log, request>>

Next == \E e \in Edits : Ask(e) \/ Apply(e) \/ Tell(e)

Spec == Init /\ [][Next]_vars
=============================================================================
