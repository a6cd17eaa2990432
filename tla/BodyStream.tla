----------------------------- MODULE BodyStream -----------------------------
(***************************************************************************)
(* What the request body promises the application: a stream whose reads    *)
(* take the content once and in order, and which end with as many bytes as *)
(* were asked for, or with the rest of the content.  A read that fails,    *)
(* because the client closed, is the last one.                             *)
(***************************************************************************)
EXTENDS Naturals, Sequences, SequencesExt

CONSTANT Counts     \* the sizes of the reads

VARIABLES
    content,    \* the body's bytes
    taken,      \* those that were copied to the readers
    reading,    \* "no", "yes" or "failed"
    asked,      \* what the last read asked for
    want        \* what it has still to get

vars == <<content, taken, reading, asked, want>>

Rest == Len(content) - Len(taken)

Init ==
    /\ taken = <<>>
    /\ reading = "no"
    /\ asked = 0 /\ want = 0

Read(count) ==
    /\ reading = "no"
    /\ reading' = "yes"
    /\ asked' = count
    /\ want' = IF count < Rest THEN count ELSE Rest
    /\ UNCHANGED <<content, taken>>

Fill ==
    /\ reading = "yes"
    /\ \E n \in 1..want :
          /\ taken' = SubSeq(content, 1, Len(taken) + n)
          /\ want' = want - n
    /\ UNCHANGED <<content, reading, asked>>

Return ==
    /\ reading = "yes" /\ want = 0
    /\ reading' = "no"
    /\ UNCHANGED <<content, taken, asked, want>>

Fail ==
    /\ reading = "yes"
    /\ reading' = "failed" /\ want' = 0
    /\ UNCHANGED <<content, taken, asked>>

Next == (\E count \in Counts : Read(count)) \/ Fill \/ Return \/ Fail

Spec == Init /\ [][Next]_vars

InOrder == IsPrefix(taken, content)
============================================================================
