--------------------------- MODULE EvidenceRecord ---------------------------
(* What the evidence of a run promises a reader who comes at any time: the    *)
(* events are one hash chain that grows at its end; a summary is published    *)
(* once, of the whole chain where each event is one the protocol expects, and *)
(* an attestation once, of that summary; after that no event is lost or       *)
(* added.  Until then the machine may lose events.                            *)
(*                                                                            *)
(* The hash of a chain stands for its whole history, so it is that history:   *)
(* an event names what came before it.                                        *)
EXTENDS Naturals, Sequences

CONSTANTS
    Answer,     \* what may differ between two runs at one event
    Expected,   \* what the protocol allows an event to say
    Length      \* the number of events of a whole run

VARIABLES
    events,
    summary,        \* <<>>, or the one history it was written of
    attestation     \* likewise

History(chain) == [i \in 1 .. Len(chain) |-> chain[i].answer]

Init == events = <<>> /\ summary = <<>> /\ attestation = <<>>

Record ==
    /\ Len(events) < Length
    /\ \E a \in Answer :
          events' = Append(events, [previous |-> History(events), answer |-> a])
    /\ UNCHANGED <<summary, attestation>>

Lose ==
    /\ summary = <<>> /\ attestation = <<>>
    /\ \E n \in 0 .. Len(events) : events' = SubSeq(events, 1, n)
    /\ UNCHANGED <<summary, attestation>>

Conclude ==
    /\ Len(events) = Length /\ summary = <<>>
    /\ \A i \in 1 .. Len(events) : events[i].answer \in Expected
    /\ summary' = <<History(events)>>
    /\ UNCHANGED <<events, attestation>>

Attest ==
    /\ summary # <<>> /\ attestation = <<>>
    /\ attestation' = summary
    /\ UNCHANGED <<events, summary>>

Next == Record \/ Lose \/ Conclude \/ Attest

Spec == Init /\ [][Next]_<<events, summary, attestation>>
=============================================================================
